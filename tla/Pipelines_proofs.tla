--------------------------- MODULE Pipelines_proofs ---------------------------
(***************************************************************************)
(* The safety of the RkISP1 and IPU3 pipeline handlers: for any requests,  *)
(* internal buffers, addresses, slots and number of frames, requests are   *)
(* returned in submission order (RequestFifo), the internal buffers are    *)
(* where the tables say, the IPU3 loses no request, and RkISP1 loses       *)
(* exactly those a buffer of which is refused and those that stop() drops. *)
(***************************************************************************)
EXTENDS Pipelines, ListFacts, FiniteSetTheorems

(* The order of the queue, which both pipeline handlers leave to           *)
(* PipelineHandler: no request is in it twice, and the request at its head *)
(* is not complete.                                                        *)
QueueInv ==
    /\ queue \in Seq(Requests)
    /\ IsInjective(queue)
    /\ complete \subseteq ToSet(queue)
    /\ queue # <<>> => queue[1] \notin complete

(* The requests that are not done.                                         *)
Waiting == ToSet(queue) \ complete

-----------------------------------------------------------------------------
(***************************************************************************)
(* The inductive invariant of RkISP1.                                      *)
(***************************************************************************)

(* The request and the buffers of an info.                                 *)
RkInfos ==
    /\ \A f \in Rk!Known :
         info[f].request \in Waiting /\ info[f].filled
    /\ \A f, g \in Rk!Known : info[f].request = info[g].request => f = g

(* A scheduled action belongs to a frame that was queued in this session   *)
(* and whose request has not got its video buffer to the device yet.       *)
RkActions ==
    /\ \A f \in actions :
         /\ f \in Rk!Known /\ f < frame
         /\ info[f].request \in pending \ video
    /\ video \subseteq pending
    /\ pending \subseteq Waiting

(* What stop() has emptied so far.                                         *)
RkStopped ==
    /\ phase \in {"stopped", "stopStat", "stopParam"} => video = {}
    /\ phase \in {"stopped", "stopParam"} => stat = {}
    /\ phase = "stopped" => param = {} /\ actions = {}

(* A request that was left behind: its video buffer is in no device and no *)
(* action will queue it.  Once left behind, a request stays so.            *)
Forsaken ==
    {r \in pending \ video :
        \A f \in Rk!OfRequest(r, info) : f \notin actions}

(* As long as no request was left behind and no device has refused a       *)
(* buffer, each waiting request has its info, from this session, and what  *)
(* it waits for is scheduled or in its device; the devices hold nothing    *)
(* else, and no internal buffer is in two places.                          *)
RkRequests ==
    /\ \A r \in Waiting : \E f \in Rk!Known : info[f].request = r
    /\ \A f \in Rk!Known :
         /\ f < frame
         /\ \/ info[f].request \in pending
            \/ ~info[f].processed
            \/ ~info[f].dequeued

RkBuffers ==
    \A f \in Rk!Known :
        /\ f \in actions => ~info[f].dequeued /\ ~info[f].processed
        /\ f \notin actions =>
             /\ info[f].request \in pending => info[f].request \in video
             /\ info[f].dequeued \/ info[f].param \in param
             /\ info[f].processed \/ info[f].stat \in stat

RkDevices ==
    /\ \A p \in param : \E f \in Rk!Known :
         info[f].param = p /\ ~info[f].dequeued /\ f \notin actions
    /\ \A s \in stat : \E f \in Rk!Known :
         info[f].stat = s /\ ~info[f].processed /\ f \notin actions

RkPools ==
    /\ IsInjective(availableParam) /\ IsInjective(availableStat)
    /\ \A f \in Rk!Known :
         /\ info[f].param \notin ToSet(availableParam)
         /\ info[f].stat \notin ToSet(availableStat)
    /\ \A f, g \in Rk!Known :
         info[f].param = info[g].param \/ info[f].stat = info[g].stat => f = g

RkClean == RkRequests /\ RkBuffers /\ RkDevices /\ RkPools

RkInv ==
    /\ Rk!TypeOK /\ QueueInv
    /\ RkInfos /\ RkActions /\ RkStopped
    /\ refused = {} /\ Forsaken = {} => RkClean

-----------------------------------------------------------------------------
(***************************************************************************)
(* The inductive invariant of the IPU3.                                    *)
(***************************************************************************)

(* The configuration names streams of the ImgU.                            *)
IpuConfig ==
    config # NoConfiguration => config.streams \in Seq(Ipu3!Streams)

(* The raw buffers.                                                        *)
IpuRaw ==
    /\ phase = "running" =>
         \A b \in RawBuffers : raw[b] \in {"cio2", "input", "processed"}
    /\ phase \in {"output", "viewfinder"} =>
         \A b \in RawBuffers : raw[b] \in {"free", "input", "processed"}
    /\ phase \in {"unmatched", "stopped"} =>
         \A b \in RawBuffers : raw[b] = "free"

(* The buffer caches.                                                      *)
IpuCaches ==
    /\ phase \in {"running", "output", "viewfinder"} =>
         allocated = Ipu3!Internal \cup Ipu3!Streams /\ configured \subseteq active
    /\ phase \in {"unmatched", "stopped"} => allocated \subseteq Ipu3!Streams

(* A request is in a device once at most, and then waits for the buffer; a *)
(* request that was refused waits for a buffer that is in no device.       *)
IpuDevices ==
    /\ \A s \in Ipu3!Streams : IsInjective(dev[s])
    /\ \A s \in Ipu3!Streams : \A r \in ToSet(dev[s]) :
         s \in pending[r] /\ r \in Waiting \cup dropped
    /\ \A r \in Waiting :
         pending[r] # {} /\ \A s \in pending[r] : r \in ToSet(dev[s])
    /\ \A r \in dropped :
         /\ r \notin ToSet(queue)
         /\ \E s \in pending[r] : r \notin ToSet(dev[s])

IpuStopped ==
    /\ phase \in {"unmatched", "stopped", "viewfinder"} => dev["output"] = <<>>
    /\ phase \in {"unmatched", "stopped"} => dev["viewfinder"] = <<>>

IpuInv ==
    /\ Ipu3!TypeOK /\ QueueInv
    /\ IpuConfig /\ IpuRaw /\ IpuCaches /\ IpuDevices /\ IpuStopped

PipelinesInv ==
    /\ pipeline \in {"rkisp1", "ipu3", "single"}
    /\ pipeline = "rkisp1" => RkInv
    /\ pipeline = "ipu3" => IpuInv
    /\ pipeline = "single" => queue = <<>> /\ complete = {}

-----------------------------------------------------------------------------
(***************************************************************************)
(* The queue.                                                              *)
(***************************************************************************)

(* What is left of a list behind its first n elements.                     *)
LEMMA SuffixOf ==
  ASSUME NEW S, NEW s \in Seq(S), IsInjective(s), NEW n \in 0 .. Len(s)
  PROVE  LET t == SubSeq(s, n + 1, Len(s)) IN
         /\ t \in Seq(S) /\ IsInjective(t)
         /\ ToSet(t) = ToSet(s) \ {s[i] : i \in 1 .. n}
         /\ n < Len(s) => t # <<>> /\ t[1] = s[n + 1]
         /\ t # <<>> => n < Len(s)
  <1> DEFINE t == SubSeq(s, n + 1, Len(s))
             m == Len(s)
  <1>1. /\ m \in Nat /\ n \in Nat /\ n <= m
        /\ \A j \in 1 .. m : s[j] \in S
        /\ DOMAIN s = 1 .. m
    OBVIOUS
  <1>2. /\ t \in Seq(S) /\ Len(t) = m - n
        /\ \A j \in 1 .. m - n : t[j] = s[n + j]
    <2>1. Len(s) \in Nat /\ \A j \in n + 1 .. Len(s) : s[j] \in S
      OBVIOUS
    <2> QED
      BY <2>1, SubSeqProperties
  <1> HIDE DEF t, m
  <1>3. DOMAIN t = 1 .. m - n
    BY <1>2
  <1>4. IsInjective(t)
    <2>1. \A j \in 1 .. m - n : n + j \in DOMAIN s
      BY <1>1
    <2>2. \A j, k \in 1 .. m - n : s[n + j] = s[n + k] => n + j = n + k
      BY <2>1 DEF IsInjective
    <2>3. \A j, k \in 1 .. m - n : n + j = n + k => j = k
      BY <1>1
    <2> QED
      BY <1>2, <1>3, <2>2, <2>3 DEF IsInjective
  <1>5. ASSUME NEW x \in ToSet(t)
        PROVE  x \in ToSet(s) \ {s[i] : i \in 1 .. n}
    <2>1. PICK j \in 1 .. m - n : x = s[n + j]
      BY <1>2, <1>3 DEF ToSet
    <2>2. n + j \in DOMAIN s /\ \A i \in 1 .. n : i \in DOMAIN s /\ i # n + j
      BY <1>1
    <2>3. \A i \in 1 .. n : s[i] # s[n + j]
      BY <2>2 DEF IsInjective
    <2> QED
      BY <2>1, <2>2, <2>3 DEF ToSet
  <1>6. ASSUME NEW x \in ToSet(s) \ {s[i] : i \in 1 .. n}
        PROVE  x \in ToSet(t)
    <2>1. PICK j \in 1 .. m : x = s[j]
      BY <1>1 DEF ToSet
    <2>2. j \notin 1 .. n
      BY <2>1
    <2>3. j - n \in 1 .. m - n /\ n + (j - n) = j
      BY <1>1, <2>2
    <2>4. t[j - n] = x
      BY <1>2, <2>1, <2>3
    <2> QED
      BY <1>3, <2>3, <2>4 DEF ToSet
  <1>7. n < m => t # <<>> /\ t[1] = s[n + 1]
    BY <1>1, <1>2
  <1>8. t # <<>> => n < m
    BY <1>1, <1>2
  <1> QED
    BY <1>2, <1>4, <1>5, <1>6, <1>7, <1>8 DEF t, m

(* The requests that the pipeline handlers and RequestFifo speak of.       *)
LEMMA QueueElements ==
  ASSUME NEW s \in Seq(Requests)
  PROVE  /\ Rk!Elements(s) = ToSet(s)
         /\ Ipu3!ToSet(s) = ToSet(s)
         /\ ToSet(s) \subseteq Requests
         /\ {s[i] : i \in 1 .. Len(s)} = ToSet(s)
         /\ {s[i] : i \in DOMAIN s} = ToSet(s)
  BY DEF Rk!Elements, Ipu3!ToSet, ToSet

(* A request is added at the end of the queue.                             *)
LEMMA QueueSubmits ==
  ASSUME QueueInv, NEW r \in Requests, r \notin ToSet(queue),
         queue' = Append(queue, r), complete' = complete
  PROVE  /\ QueueInv'
         /\ Waiting' = Waiting \cup {r}
         /\ ToSet(queue') = ToSet(queue) \cup {r}
         /\ Fifo!Submit(r)
  <1> DEFINE q == Append(queue, r)
  <1>1. queue \in Seq(Requests) /\ complete \subseteq ToSet(queue)
    BY DEF QueueInv
  <1>2. /\ q \in Seq(Requests)
        /\ ToSet(q) = ToSet(queue) \cup {r}
        /\ IsInjective(q)
    BY <1>1, AppendInjectiveNew, AppendProperties DEF QueueInv
  <1>3. q[1] = IF queue = <<>> THEN r ELSE queue[1]
    BY <1>1
  <1>4. queue' = q
    OBVIOUS
  <1> HIDE DEF q
  <1>5. QueueInv'
    BY <1>1, <1>2, <1>3, <1>4 DEF QueueInv
  <1>6. Waiting' = Waiting \cup {r}
    BY <1>1, <1>2, <1>4 DEF Waiting
  <1>7. Fifo!InOrder = ToSet(queue)
    BY <1>1, QueueElements DEF Fifo!InOrder
  <1>8. /\ {queue[i] : i \in DOMAIN queue} \ complete = Waiting
        /\ ({queue[i] : i \in DOMAIN queue} \ complete)' = Waiting'
    BY DEF Waiting, ToSet
  <1> QED
    BY <1>2, <1>4, <1>5, <1>6, <1>7, <1>8 DEF Fifo!Submit

(* A waiting request is complete, and the longest prefix of the queue that *)
(* waits for nothing goes back to the application.                         *)
LEMMA QueueCompletes ==
  ASSUME QueueInv, NEW r \in Waiting, NEW n \in 0 .. Len(queue),
         \A i \in 1 .. n : queue[i] \in complete \cup {r},
         n < Len(queue) => queue[n + 1] \notin complete \cup {r},
         queue' = SubSeq(queue, n + 1, Len(queue)),
         complete' = (complete \cup {r}) \ {queue[i] : i \in 1 .. n}
  PROVE  /\ QueueInv'
         /\ Waiting' = Waiting \ {r}
         /\ ToSet(queue') \subseteq ToSet(queue)
         /\ Fifo!Finish({r}, n)
  <1> DEFINE q == SubSeq(queue, n + 1, Len(queue))
             gone == {queue[i] : i \in 1 .. n}
  <1>1. /\ queue \in Seq(Requests) /\ complete \subseteq ToSet(queue)
        /\ IsInjective(queue) /\ Len(queue) \in Nat /\ n \in Nat
        /\ DOMAIN queue = 1 .. Len(queue)
        /\ gone \subseteq complete \cup {r}
    BY DEF QueueInv
  <1>2. /\ q \in Seq(Requests) /\ IsInjective(q)
        /\ ToSet(q) = ToSet(queue) \ gone
        /\ n < Len(queue) => q # <<>> /\ q[1] = queue[n + 1]
        /\ q # <<>> => n < Len(queue)
    BY <1>1, SuffixOf
  <1>3. queue' = q /\ complete' = (complete \cup {r}) \ gone
    OBVIOUS
  <1>4. n < Len(queue) => n + 1 \in DOMAIN queue
    BY <1>1
  <1>5. \A i \in 1 .. n : queue[i] \in gone
    OBVIOUS
  <1> HIDE DEF q, gone
  <1>6. r \in ToSet(queue)
    BY DEF Waiting
  <1>7. QueueInv'
    BY <1>1, <1>2, <1>3, <1>6 DEF QueueInv
  <1>8. Waiting' = Waiting \ {r}
    BY <1>1, <1>2, <1>3 DEF Waiting
  <1>9. /\ {queue[i] : i \in DOMAIN queue} \ complete = Waiting
        /\ ({queue[i] : i \in DOMAIN queue} \ complete)' = Waiting'
    BY DEF Waiting, ToSet
  <1>10. \A i \in 1 .. n : queue[i] \notin Waiting'
    BY <1>1, <1>5, <1>8 DEF Waiting
  <1>11. n < Len(queue) => queue[n + 1] \in Waiting'
    BY <1>4, <1>8 DEF Waiting, ToSet
  <1>12. Fifo!Finish({r}, n)
    BY <1>8, <1>9, <1>10, <1>11 DEF Fifo!Finish
  <1> QED
    BY <1>2, <1>3, <1>7, <1>8, <1>12

-----------------------------------------------------------------------------
(***************************************************************************)
(* The steps of the IPU3.                                                  *)
(***************************************************************************)

(* validate() gives each entry a stream of the ImgU.                       *)
LEMMA ValidatedStreams ==
  ASSUME NEW c
  PROVE  Ipu3!Validate(c).streams \in Seq(Ipu3!Streams)
  <1>1. ASSUME NEW cfg, NEW sensor, NEW A \in SUBSET Ipu3!Streams, A # {}
        PROVE  Ipu3!AssignStream(cfg, sensor, A) \in A
    BY <1>1 DEF Ipu3!AssignStream
  <1>2. CASE c = <<>>
    BY <1>2 DEF Ipu3!Validate
  <1>3. CASE c # <<>>
    <2> DEFINE capped == SubSeq(c, 1, IF Len(c) > 2 THEN 2 ELSE Len(c))
               sensor == Ipu3!SensorFormat(Ipu3!Wanted(capped))
               first == Ipu3!AssignStream(capped[1], sensor, Ipu3!Streams)
               second == Ipu3!AssignStream(capped[2], sensor,
                                           Ipu3!Streams \ {first})
    <2>1. Ipu3!Validate(c).streams =
              IF Len(capped) = 1 THEN <<first>> ELSE <<first, second>>
      BY <1>3 DEF Ipu3!Validate
    <2> HIDE DEF capped, sensor
    <2>2. first \in Ipu3!Streams
      BY <1>1 DEF Ipu3!Streams
    <2> HIDE DEF first
    <2>3. Ipu3!Streams \ {first} # {}
      BY DEF Ipu3!Streams
    <2>4. second \in Ipu3!Streams
      BY <1>1, <2>3
    <2> HIDE DEF second
    <2> QED
      BY <2>1, <2>2, <2>4
  <1> QED
    BY <1>2, <1>3

(* Configuring the camera, in success and in failure, leaves its requests  *)
(* and buffers alone.                                                      *)
LEMMA IpuSetup ==
  ASSUME IpuInv,
         phase \in {"unmatched", "stopped"}, phase' = "stopped",
         UNCHANGED <<Ipu3!requestVars, Ipu3!deviceVars>>,
         links' \in BOOLEAN, IpuConfig',
         configured' \subseteq Ipu3!Streams, active' \subseteq Ipu3!Streams,
         allocated' \subseteq Ipu3!Streams
  PROVE  IpuInv'
  <1>1. UNCHANGED <<queue, complete, pending, dropped, raw, dev, filled>>
    BY DEF Ipu3!requestVars, Ipu3!deviceVars
  <1>2. Ipu3!TypeOK'
    BY <1>1 DEF IpuInv, Ipu3!TypeOK, Ipu3!Queue
  <1>3. QueueInv'
    BY <1>1 DEF IpuInv, QueueInv
  <1>4. IpuRaw' /\ IpuCaches' /\ IpuStopped'
    BY <1>1 DEF IpuInv, IpuRaw, IpuCaches, IpuStopped
  <1>5. IpuDevices'
    BY <1>1 DEF IpuInv, IpuDevices, Waiting
  <1> QED
    BY <1>2, <1>3, <1>4, <1>5 DEF IpuInv

(* match(), generateConfiguration(), validate(), configure() of this or    *)
(* the other camera, and a start() that fails.                             *)
LEMMA IpuConfigures ==
  ASSUME IpuInv,
         \/ \E good \in Ipu3!Openable : Ipu3!Match(good)
         \/ \E roles \in Roles : Ipu3!GenerateConfiguration(roles)
         \/ \E c \in Configurations : Ipu3!ValidateConfiguration(c)
         \/ Ipu3!Configure \/ Ipu3!ConfigureFails \/ Ipu3!OtherConfigures
         \/ Ipu3!StartFails
  PROVE  IpuInv'
  <1>1. /\ links \in BOOLEAN /\ configured \subseteq Ipu3!Streams
        /\ active \subseteq Ipu3!Streams /\ IpuConfig
        /\ phase \in {"unmatched", "stopped"} => allocated \subseteq Ipu3!Streams
    BY DEF IpuInv, Ipu3!TypeOK, IpuCaches
  <1>2. CASE \E good \in Ipu3!Openable : Ipu3!Match(good)
    <2>1. /\ phase = "unmatched" /\ phase' = "stopped"
          /\ UNCHANGED <<Ipu3!requestVars, Ipu3!deviceVars>>
          /\ UNCHANGED <<links, config, configured, active, allocated>>
      BY <1>2 DEF Ipu3!Match, Ipu3!setupVars
    <2> QED
      BY <1>1, <2>1, IpuSetup DEF IpuConfig
  <1>3. CASE \/ \E roles \in Roles : Ipu3!GenerateConfiguration(roles)
             \/ \E c \in Configurations : Ipu3!ValidateConfiguration(c)
    <2>1. /\ phase = "stopped" /\ phase' = "stopped"
          /\ UNCHANGED <<Ipu3!requestVars, Ipu3!deviceVars>>
          /\ UNCHANGED <<links, configured, active, allocated>>
          /\ config' = NoConfiguration \/ \E c : config' = Ipu3!Validate(c)
      BY <1>3 DEF Ipu3!GenerateConfiguration, Ipu3!ValidateConfiguration
    <2>2. IpuConfig'
      BY <2>1, ValidatedStreams DEF IpuConfig
    <2> QED
      BY <1>1, <2>1, <2>2, IpuSetup
  <1>4. CASE Ipu3!Configure
    <2>1. /\ phase = "stopped" /\ phase' = "stopped"
          /\ UNCHANGED <<Ipu3!requestVars, Ipu3!deviceVars>>
          /\ links' = TRUE /\ allocated' = allocated
          /\ config' = NoConfiguration
          /\ active' = Ipu3!ToSet(Ipu3!Validate(config.entries).streams)
          /\ configured' = active'
      BY <1>4 DEF Ipu3!Configure, Ipu3!Acceptable
    <2>2. active' \subseteq Ipu3!Streams
      <3> DEFINE st == Ipu3!Validate(config.entries).streams
      <3>1. st \in Seq(Ipu3!Streams)
        BY ValidatedStreams
      <3> HIDE DEF st
      <3>2. Ipu3!ToSet(st) \subseteq Ipu3!Streams
        BY <3>1 DEF Ipu3!ToSet
      <3> QED
        BY <2>1, <3>2 DEF st
    <2> QED
      BY <1>1, <2>1, <2>2, IpuSetup DEF IpuConfig
  <1>5. CASE Ipu3!ConfigureFails
    <2>1. /\ phase = "stopped" /\ phase' = "stopped"
          /\ UNCHANGED <<Ipu3!requestVars, Ipu3!deviceVars>>
          /\ config # NoConfiguration /\ config' = NoConfiguration
          /\ UNCHANGED <<configured, allocated>>
          /\ Ipu3!InputFails \/ Ipu3!OutputFails
      BY <1>5 DEF Ipu3!ConfigureFails, Ipu3!Acceptable
    <2>2. links' \in BOOLEAN
      BY <2>1 DEF Ipu3!InputFails, Ipu3!OutputFails
    <2>3. active' \subseteq Ipu3!Streams
      <3>1. config.streams \in Seq(Ipu3!Streams)
        BY <1>1, <2>1 DEF IpuConfig
      <3>2. CASE Ipu3!OutputFails
        <4>1. PICK n \in DOMAIN config.streams :
                active' = {config.streams[i] : i \in 1 .. n}
          BY <3>2 DEF Ipu3!OutputFails
        <4>2. \A i \in 1 .. n : i \in 1 .. Len(config.streams)
          BY <3>1
        <4> QED
          BY <3>1, <4>1, <4>2
      <3> QED
        BY <1>1, <2>1, <3>2 DEF Ipu3!InputFails
    <2> QED
      BY <1>1, <2>1, <2>2, <2>3, IpuSetup DEF IpuConfig
  <1>6. CASE Ipu3!OtherConfigures
    BY <1>1, <1>6, IpuSetup DEF Ipu3!OtherConfigures, IpuConfig
  <1>7. CASE Ipu3!StartFails
    <2>1. /\ phase = "stopped" /\ phase' = "stopped"
          /\ UNCHANGED <<Ipu3!requestVars, Ipu3!deviceVars>>
          /\ config' = NoConfiguration
          /\ UNCHANGED <<links, configured, active>>
          /\ allocated' \subseteq allocated \cup configured
      BY <1>7 DEF Ipu3!StartFails, Ipu3!Imported, Ipu3!FreeBuffers
    <2> QED
      BY <1>1, <2>1, IpuSetup DEF IpuConfig
  <1> QED
    BY <1>2, <1>3, <1>4, <1>5, <1>6, <1>7

(* start() and the steps of stop(): no device is left with a request's     *)
(* buffer when it is stopped.                                              *)
LEMMA IpuStartStop ==
  ASSUME IpuInv, Ipu3!Start \/ Ipu3!Stop \/ Ipu3!Stopping
  PROVE  IpuInv'
  <1>1. /\ UNCHANGED <<queue, complete, pending, dropped, dev, filled>>
        /\ UNCHANGED <<links, configured, active>>
        /\ config' \in {config, NoConfiguration}
    BY DEF Ipu3!Start, Ipu3!Stop, Ipu3!Stopping, Ipu3!OutputStopped,
           Ipu3!ViewfinderStopped, Ipu3!requestVars, Ipu3!setupVars,
           Ipu3!deviceVars
  <1>2. QueueInv' /\ IpuConfig'
    BY <1>1 DEF IpuInv, QueueInv, IpuConfig
  <1>3. IpuDevices'
    BY <1>1 DEF IpuInv, IpuDevices, Waiting
  <1>4. configured \subseteq Ipu3!Streams /\ active \subseteq Ipu3!Streams
    BY DEF IpuInv, Ipu3!TypeOK
  <1>5. raw \in [RawBuffers -> {"free", "cio2", "input", "processed", "lost"}]
    BY DEF IpuInv, Ipu3!TypeOK
  <1> DEFINE Places == {"free", "cio2", "input", "processed", "lost"}
  <1>6. ASSUME phase' \in {"unmatched", "stopped", "running", "output",
                           "viewfinder"},
               allocated' \subseteq Ipu3!Internal \cup Ipu3!Streams,
               raw' \in [RawBuffers -> Places]
        PROVE  Ipu3!TypeOK'
    BY <1>1, <1>6 DEF IpuInv, Ipu3!TypeOK, Ipu3!Queue
  <1>7. CASE Ipu3!Start
    <2>1. /\ phase = "stopped" /\ phase' = "running"
          /\ raw' = [b \in RawBuffers |-> "cio2"]
          /\ Ipu3!ToAllocate \cap Ipu3!Imported = {}
          /\ active \subseteq Ipu3!Imported
          /\ allocated' = Ipu3!Imported \cup Ipu3!ToAllocate
      BY <1>7 DEF Ipu3!Start
    <2>2. allocated \subseteq Ipu3!Streams
      BY <2>1 DEF IpuInv, IpuCaches
    <2>3. /\ allocated' = Ipu3!Internal \cup Ipu3!Streams
          /\ configured' \subseteq active'
      BY <1>1, <1>4, <2>1, <2>2 DEF Ipu3!ToAllocate, Ipu3!Imported
    <2>4. Ipu3!TypeOK'
      BY <1>6, <2>1, <2>3
    <2>5. IpuRaw' /\ IpuCaches' /\ IpuStopped'
      BY <2>1, <2>3 DEF IpuRaw, IpuCaches, IpuStopped
    <2> QED
      BY <1>2, <1>3, <2>4, <2>5 DEF IpuInv
  <1>8. CASE Ipu3!Stop
    <2>1. /\ phase = "running" /\ phase' = "output" /\ allocated' = allocated
          /\ raw' = [b \in RawBuffers |-> IF raw[b] = "cio2" THEN "free"
                                                             ELSE raw[b]]
      BY <1>8 DEF Ipu3!Stop, Ipu3!setupVars
    <2>2. \A b \in RawBuffers : raw[b] \in {"cio2", "input", "processed"}
      BY <2>1 DEF IpuInv, IpuRaw
    <2>3. \A b \in RawBuffers : raw'[b] \in {"free", "input", "processed"}
      BY <2>1, <2>2
    <2>4. raw' \in [RawBuffers -> Places]
      BY <2>1, <1>5
    <2>5. allocated' = Ipu3!Internal \cup Ipu3!Streams /\ configured' \subseteq active'
      BY <1>1, <2>1 DEF IpuInv, IpuCaches
    <2>6. Ipu3!TypeOK'
      BY <1>6, <2>1, <2>4, <2>5
    <2>7. IpuRaw' /\ IpuCaches' /\ IpuStopped'
      BY <2>1, <2>3, <2>5 DEF IpuRaw, IpuCaches, IpuStopped
    <2> QED
      BY <1>2, <1>3, <2>6, <2>7 DEF IpuInv
  <1>9. CASE Ipu3!OutputStopped
    <2>1. /\ phase = "output" /\ phase' = "viewfinder" /\ dev["output"] = <<>>
          /\ raw' = raw /\ allocated' = allocated
      BY <1>9 DEF Ipu3!OutputStopped, Ipu3!setupVars, Ipu3!deviceVars
    <2>2. /\ \A b \in RawBuffers : raw[b] \in {"free", "input", "processed"}
          /\ allocated = Ipu3!Internal \cup Ipu3!Streams
          /\ configured \subseteq active
      BY <2>1 DEF IpuInv, IpuRaw, IpuCaches
    <2>3. Ipu3!TypeOK'
      BY <1>5, <1>6, <2>1, <2>2
    <2>4. IpuRaw' /\ IpuCaches' /\ IpuStopped'
      BY <1>1, <2>1, <2>2 DEF IpuRaw, IpuCaches, IpuStopped
    <2> QED
      BY <1>2, <1>3, <2>3, <2>4 DEF IpuInv
  <1>10. CASE Ipu3!ViewfinderStopped
    <2>1. /\ phase = "viewfinder" /\ phase' = "stopped"
          /\ dev["viewfinder"] = <<>>
          /\ raw' = [b \in RawBuffers |-> Ipu3!InputCancelled(raw[b])]
          /\ allocated' \subseteq allocated \ Ipu3!Internal
      BY <1>10 DEF Ipu3!ViewfinderStopped, Ipu3!FreeBuffers
    <2>2. /\ \A b \in RawBuffers : raw[b] \in {"free", "input", "processed"}
          /\ allocated = Ipu3!Internal \cup Ipu3!Streams
          /\ dev["output"] = <<>>
      BY <2>1 DEF IpuInv, IpuRaw, IpuCaches, IpuStopped
    <2>3. /\ \A b \in RawBuffers : raw'[b] = "free"
          /\ raw' \in [RawBuffers -> Places]
      BY <2>1, <2>2 DEF Ipu3!InputCancelled
    <2>4. allocated' \subseteq Ipu3!Streams
      BY <2>1, <2>2
    <2>5. Ipu3!TypeOK'
      BY <1>6, <2>1, <2>3, <2>4
    <2>6. IpuRaw' /\ IpuCaches' /\ IpuStopped'
      BY <1>1, <2>1, <2>2, <2>3, <2>4 DEF IpuRaw, IpuCaches, IpuStopped
    <2> QED
      BY <1>2, <1>3, <2>5, <2>6 DEF IpuInv
  <1> QED
    BY <1>7, <1>8, <1>9, <1>10 DEF Ipu3!Stopping

(* A device that does not hold every raw buffer has a slot for one more.   *)
LEMMA SlotFree ==
  ASSUME NEW places, NEW b \in RawBuffers, raw[b] \notin places
  PROVE  Ipu3!Held(places) < Ipu3!Slots
  <1> DEFINE H == {x \in RawBuffers : raw[x] \in places}
  <1>1. IsFiniteSet(RawBuffers)
    BY BoundsAssumption
  <1>2. H \subseteq RawBuffers /\ H # RawBuffers
    OBVIOUS
  <1> HIDE DEF H
  <1>3. /\ IsFiniteSet(H)
        /\ Cardinality(H) <= Cardinality(RawBuffers)
        /\ Cardinality(H) # Cardinality(RawBuffers)
    BY <1>1, <1>2, FS_Subset
  <1>4. Cardinality(H) \in Nat /\ Cardinality(RawBuffers) \in Nat
    BY <1>1, <1>3, FS_CardinalityType
  <1>5. Cardinality(H) < Cardinality(RawBuffers)
    BY <1>3, <1>4
  <1> QED
    BY <1>5 DEF H, Ipu3!Held, Ipu3!Slots, Ipu3!Cardinality, Cardinality

(* A raw buffer goes round between the CIO2 and the ImgU.                  *)
LEMMA IpuRawStep ==
  ASSUME IpuInv, NEW b \in RawBuffers,
         \/ Ipu3!Cio2BufferReady(b) \/ Ipu3!Process(b)
         \/ Ipu3!ImguInputBufferReady(b)
  PROVE  IpuInv'
  <1>1. /\ phase = "running" /\ phase' = "running"
        /\ UNCHANGED <<queue, complete, pending, dropped, dev>>
        /\ UNCHANGED <<links, config, configured, active, allocated>>
    BY DEF Ipu3!Cio2BufferReady, Ipu3!Process, Ipu3!ImguInputBufferReady,
           Ipu3!requestVars, Ipu3!setupVars
  <1>2. QueueInv' /\ IpuConfig' /\ IpuCaches' /\ IpuStopped'
    BY <1>1 DEF IpuInv, QueueInv, IpuConfig, IpuCaches, IpuStopped
  <1>3. IpuDevices'
    BY <1>1 DEF IpuInv, IpuDevices, Waiting
  <1>4. /\ raw \in [RawBuffers -> {"free", "cio2", "input", "processed", "lost"}]
        /\ \A x \in RawBuffers : raw[x] \in {"cio2", "input", "processed"}
    BY <1>1 DEF IpuInv, Ipu3!TypeOK, IpuRaw
  <1>5. \E w \in {"cio2", "input", "processed"} : raw' = [raw EXCEPT ![b] = w]
    <2>1. CASE Ipu3!Cio2BufferReady(b)
      <3>1. raw[b] \notin {"input", "processed"}
        BY <2>1 DEF Ipu3!Cio2BufferReady
      <3>2. Ipu3!Held({"input", "processed"}) < Ipu3!Slots
        BY <3>1, SlotFree
      <3> QED
        BY <2>1, <3>2 DEF Ipu3!Cio2BufferReady
    <2>2. CASE Ipu3!Process(b)
      BY <2>2 DEF Ipu3!Process
    <2>3. CASE Ipu3!ImguInputBufferReady(b)
      <3>1. raw[b] \notin {"cio2"}
        BY <2>3 DEF Ipu3!ImguInputBufferReady
      <3>2. Ipu3!Held({"cio2"}) < Ipu3!Slots
        BY <3>1, SlotFree
      <3> QED
        BY <2>3, <3>2 DEF Ipu3!ImguInputBufferReady
    <2> QED
      BY <2>1, <2>2, <2>3
  <1>6. /\ raw' \in [RawBuffers -> {"free", "cio2", "input", "processed", "lost"}]
        /\ \A x \in RawBuffers : raw'[x] \in {"cio2", "input", "processed"}
    BY <1>4, <1>5
  <1>7. IpuRaw'
    BY <1>1, <1>6 DEF IpuRaw
  <1>8. /\ filled' \in [Ipu3!Streams -> Nat]
        /\ \A s \in Ipu3!Streams : filled'[s] <= Len(dev[s])
    <2>0. /\ filled \in [Ipu3!Streams -> Nat]
          /\ dev \in [Ipu3!Streams -> Seq(Requests)]
          /\ \A s \in Ipu3!Streams : filled[s] <= Len(dev[s])
      BY DEF IpuInv, Ipu3!TypeOK
    <2>1. CASE filled' = filled
      BY <2>0, <2>1
    <2>2. CASE Ipu3!Process(b)
      <3>1. filled' = [s \in Ipu3!Streams |-> IF filled[s] < Len(dev[s])
                                               THEN filled[s] + 1 ELSE filled[s]]
        BY <2>2 DEF Ipu3!Process
      <3>2. \A s \in Ipu3!Streams : Len(dev[s]) \in Nat
        BY <2>0
      <3> QED
        BY <2>0, <3>1, <3>2
    <2> QED
      BY <2>1, <2>2 DEF Ipu3!Cio2BufferReady, Ipu3!ImguInputBufferReady
  <1>9. Ipu3!TypeOK'
    BY <1>1, <1>6, <1>8 DEF IpuInv, Ipu3!TypeOK, Ipu3!Queue
  <1> QED
    BY <1>2, <1>3, <1>7, <1>9 DEF IpuInv

(* imguOutputBufferReady(), in any order and as cancelled: a request       *)
(* completes with its last buffer, and a request that was refused never.   *)
LEMMA IpuOutput ==
  ASSUME IpuInv, NEW s \in Ipu3!Streams, NEW i \in Nat,
         Ipu3!ImguOutputBufferReady(s, i)
  PROVE  /\ IpuInv'
         /\ Fifo!Next \/ UNCHANGED <<queue, complete>>
  <1> DEFINE d == dev[s]
             r == d[i]
             rest == RemoveAt(d, i)
  <1>1. /\ dev \in [Ipu3!Streams -> Seq(Requests)]
        /\ filled \in [Ipu3!Streams -> Nat]
        /\ \A t \in Ipu3!Streams : filled[t] <= Len(dev[t])
        /\ pending \in [Requests -> SUBSET Ipu3!Streams]
        /\ QueueInv
    BY DEF IpuInv, Ipu3!TypeOK
  <1>2. /\ d \in Seq(Requests) /\ i \in 1 .. Len(d) /\ Len(d) \in Nat
        /\ IsInjective(d) /\ r \in ToSet(d) /\ r \in Requests /\ d[i] = r
    BY <1>1 DEF Ipu3!ImguOutputBufferReady, IpuInv, IpuDevices, ToSet
  <1>3. /\ rest \in Seq(Requests) /\ Len(rest) = Len(d) - 1
        /\ IsInjective(rest) /\ ToSet(rest) = ToSet(d) \ {r}
    <2> HIDE DEF d
    <2> QED
      BY <1>2, RemoveAtProperties, RemoveAtInjective
  <1>4. /\ dev' = [dev EXCEPT ![s] = rest]
        /\ filled' = [filled EXCEPT ![s] = IF i <= filled[s]
                                             THEN filled[s] - 1 ELSE filled[s]]
        /\ pending' = [pending EXCEPT ![r] = pending[r] \ {s}]
        /\ phase' = phase /\ UNCHANGED <<raw, dropped>>
        /\ UNCHANGED <<links, config, configured, active, allocated>>
        /\ phase \in {"running", s}
    BY DEF Ipu3!ImguOutputBufferReady, Ipu3!setupVars, Ipu3!RemoveAt, RemoveAt
  <1>5. IF pending[r] \ {s} = {} THEN Ipu3!CompleteRequest(r)
                                 ELSE UNCHANGED <<queue, complete>>
    BY DEF Ipu3!ImguOutputBufferReady, Ipu3!LastBuffer
  <1> HIDE DEF rest
  <1>6. /\ dev' \in [Ipu3!Streams -> Seq(Requests)]
        /\ dev'[s] = rest
        /\ \A t \in Ipu3!Streams : t # s => dev'[t] = dev[t]
    BY <1>1, <1>3, <1>4
  <1>7. /\ filled' \in [Ipu3!Streams -> Nat]
        /\ \A t \in Ipu3!Streams : filled'[t] <= Len(dev'[t])
    <2>1. filled[s] \in Nat /\ filled[s] <= Len(d)
      BY <1>1
    <2> HIDE DEF d
    <2>2. /\ (IF i <= filled[s] THEN filled[s] - 1 ELSE filled[s]) \in Nat
          /\ (IF i <= filled[s] THEN filled[s] - 1 ELSE filled[s]) <= Len(d) - 1
      BY <1>2, <2>1
    <2>3. filled'[s] = IF i <= filled[s] THEN filled[s] - 1 ELSE filled[s]
      BY <1>1, <1>4
    <2>4. \A t \in Ipu3!Streams : t # s => filled'[t] = filled[t]
      BY <1>1, <1>4
    <2>5. filled' \in [Ipu3!Streams -> Nat]
      BY <1>1, <1>4, <2>2
    <2>6. filled'[s] <= Len(dev'[s])
      BY <1>3, <1>6, <2>2, <2>3
    <2> QED
      BY <1>1, <1>6, <2>4, <2>5, <2>6
  <1> HIDE DEF d, r
  <1>8. /\ pending' \in [Requests -> SUBSET Ipu3!Streams]
        /\ pending'[r] = pending[r] \ {s}
        /\ \A q \in Requests : q # r => pending'[q] = pending[q]
    BY <1>1, <1>2, <1>4
  <1>9. s \in pending[r] /\ r \in Waiting \cup dropped
    BY <1>2 DEF IpuInv, IpuDevices, d
  <1>10. /\ QueueInv'
         /\ Fifo!Next \/ UNCHANGED <<queue, complete>>
         /\ ToSet(queue') \subseteq ToSet(queue)
         /\ Waiting' = IF pending[r] = {s} THEN Waiting \ {r} ELSE Waiting
    <2>1. CASE pending[r] = {s}
      <3>1. r \notin dropped
        BY <1>2, <2>1 DEF IpuInv, IpuDevices, d
      <3>2. r \in Waiting
        BY <1>9, <3>1
      <3>3. PICK n \in 0 .. Len(queue) :
              /\ \A j \in 1 .. n : queue[j] \in complete \cup {r}
              /\ n < Len(queue) => queue[n + 1] \notin complete \cup {r}
              /\ queue' = SubSeq(queue, n + 1, Len(queue))
              /\ complete' = (complete \cup {r}) \ {queue[j] : j \in 1 .. n}
        BY <1>5, <2>1 DEF Ipu3!CompleteRequest
      <3>4. /\ QueueInv' /\ Waiting' = Waiting \ {r}
            /\ ToSet(queue') \subseteq ToSet(queue)
            /\ Fifo!Finish({r}, n)
        BY <1>1, <3>2, <3>3, QueueCompletes
      <3>5. {r} \in SUBSET ({queue[j] : j \in DOMAIN queue} \ complete)
        BY <3>2 DEF Waiting, ToSet
      <3>6. Fifo!Next
        BY <3>4, <3>5 DEF Fifo!Next
      <3> QED
        BY <2>1, <3>4, <3>6
    <2>2. CASE pending[r] # {s}
      <3>1. UNCHANGED <<queue, complete>>
        BY <1>5, <1>9, <2>2
      <3> QED
        BY <1>1, <2>2, <3>1 DEF QueueInv, Waiting
    <2> QED
      BY <2>1, <2>2
  <1>11. IpuDevices'
    <2>1. ASSUME NEW t \in Ipu3!Streams PROVE IsInjective(dev'[t])
      BY <1>3, <1>6 DEF IpuInv, IpuDevices
    <2>2. \A t \in Ipu3!Streams :
            ToSet(dev'[t]) = IF t = s THEN ToSet(dev[t]) \ {r} ELSE ToSet(dev[t])
      BY <1>3, <1>6 DEF d
    <2>3. ASSUME NEW t \in Ipu3!Streams, NEW q \in ToSet(dev'[t])
          PROVE  t \in pending'[q] /\ q \in Waiting' \cup dropped'
      <3>1. q \in ToSet(dev[t]) /\ (q = r => t # s)
        BY <2>2, <2>3
      <3>2. q \in Requests /\ t \in pending[q] /\ q \in Waiting \cup dropped
        BY <1>1, <3>1 DEF IpuInv, IpuDevices, ToSet
      <3>3. t \in pending'[q]
        BY <1>8, <3>1, <3>2
      <3>4. q = r => pending[r] # {s}
        BY <3>1, <3>2
      <3> QED
        BY <1>4, <1>10, <3>2, <3>3, <3>4
    <2>4. ASSUME NEW q \in Waiting'
          PROVE  /\ pending'[q] # {}
                 /\ \A t \in pending'[q] : q \in ToSet(dev'[t])
      <3>1. q \in Waiting /\ (q = r => pending[r] # {s})
        BY <1>10, <2>4
      <3>2. /\ q \in Requests /\ pending[q] # {}
            /\ pending[q] \subseteq Ipu3!Streams
            /\ \A t \in pending[q] : q \in ToSet(dev[t])
        BY <1>1, <3>1, QueueElements DEF IpuInv, IpuDevices, Waiting, QueueInv
      <3>3. CASE q = r
        BY <1>8, <1>9, <2>2, <3>1, <3>2, <3>3
      <3>4. CASE q # r
        BY <1>8, <2>2, <3>2, <3>4
      <3> QED
        BY <3>3, <3>4
    <2>5. ASSUME NEW q \in dropped'
          PROVE  /\ q \notin ToSet(queue')
                 /\ \E t \in pending'[q] : q \notin ToSet(dev'[t])
      <3>1. q \in dropped /\ q \in Requests
        BY <1>4, <2>5 DEF IpuInv, Ipu3!TypeOK
      <3>2. /\ q \notin ToSet(queue)
            /\ \E t \in pending[q] : q \notin ToSet(dev[t])
        BY <3>1 DEF IpuInv, IpuDevices
      <3>3. PICK t \in pending[q] : q \notin ToSet(dev[t])
        BY <3>2
      <3>4. t \in Ipu3!Streams
        BY <1>1, <3>1
      <3>5. q = r => t # s
        BY <1>2, <3>3 DEF d
      <3>6. t \in pending'[q]
        BY <1>8, <3>1, <3>3, <3>5
      <3> QED
        BY <1>10, <2>2, <3>2, <3>3, <3>4, <3>6
    <2> QED
      BY <2>1, <2>3, <2>4, <2>5 DEF IpuDevices
  <1>12. IpuConfig' /\ IpuRaw' /\ IpuCaches'
    BY <1>4 DEF IpuInv, IpuConfig, IpuRaw, IpuCaches
  <1>13. IpuStopped'
    <2>1. phase \in {"running", "output", "viewfinder"}
      BY <1>4 DEF Ipu3!Streams
    <2>2. phase = "viewfinder" => s # "output"
      BY <1>4
    <2>3. phase = "viewfinder" => dev["output"] = <<>>
      BY DEF IpuInv, IpuStopped
    <2>4. phase = "viewfinder" => dev'["output"] = <<>>
      BY <1>6, <2>2, <2>3 DEF Ipu3!Streams
    <2> QED
      BY <1>4, <2>1, <2>4 DEF IpuStopped
  <1>14. Ipu3!TypeOK'
    <2>1. queue' \in Seq(Requests) /\ complete' \subseteq Ipu3!Queue'
      BY <1>10, QueueElements DEF QueueInv, Ipu3!Queue, Ipu3!ToSet, ToSet
    <2>2. \A t \in Ipu3!Streams : filled'[t] <= Len(dev'[t])
      BY <1>7
    <2> QED
      BY <1>4, <1>6, <1>7, <1>8, <2>1, <2>2 DEF IpuInv, Ipu3!TypeOK
  <1> QED
    BY <1>10, <1>11, <1>12, <1>13, <1>14 DEF IpuInv

(* queueRequestDevice() queues the buffers that fit: what it leaves in the *)
(* devices.                                                                *)
LEMMA IpuQueueBuffers ==
  ASSUME IpuInv, NEW r \in Requests, NEW S \in SUBSET Ipu3!Streams,
         r \notin ToSet(queue) \cup dropped, Ipu3!QueueBuffers(r, S)
  PROVE  /\ dev' \in [Ipu3!Streams -> Seq(Requests)]
         /\ pending' \in [Requests -> SUBSET Ipu3!Streams]
         /\ pending'[r] = S
         /\ \A q \in Requests : q # r => pending'[q] = pending[q]
         /\ \A s \in Ipu3!Streams :
              /\ r \notin ToSet(dev[s])
              /\ IsInjective(dev'[s])
              /\ Len(dev[s]) <= Len(dev'[s])
              /\ ToSet(dev'[s]) = IF s \in S \cap Ipu3!Free
                                    THEN ToSet(dev[s]) \cup {r}
                                    ELSE ToSet(dev[s])
  <1>1. /\ dev \in [Ipu3!Streams -> Seq(Requests)]
        /\ pending \in [Requests -> SUBSET Ipu3!Streams]
    BY DEF IpuInv, Ipu3!TypeOK
  <1>2. /\ dev' = [s \in Ipu3!Streams |-> IF s \in S \cap Ipu3!Free
                                            THEN Append(dev[s], r) ELSE dev[s]]
        /\ pending' = [pending EXCEPT ![r] = S]
    BY DEF Ipu3!QueueBuffers
  <1>3. /\ pending' \in [Requests -> SUBSET Ipu3!Streams]
        /\ pending'[r] = S
        /\ \A q \in Requests : q # r => pending'[q] = pending[q]
    BY <1>1, <1>2
  <1>4. ASSUME NEW s \in Ipu3!Streams
        PROVE  /\ dev'[s] \in Seq(Requests)
               /\ r \notin ToSet(dev[s])
               /\ IsInjective(dev'[s])
               /\ Len(dev[s]) <= Len(dev'[s])
               /\ ToSet(dev'[s]) = IF s \in S \cap Ipu3!Free
                                     THEN ToSet(dev[s]) \cup {r}
                                     ELSE ToSet(dev[s])
    <2> DEFINE d == dev[s]
               a == Append(d, r)
    <2>1. dev'[s] = IF s \in S \cap Ipu3!Free THEN a ELSE d
      BY <1>2
    <2>2. d \in Seq(Requests) /\ IsInjective(d) /\ r \notin ToSet(d)
      BY <1>1 DEF IpuInv, IpuDevices, Waiting
    <2> HIDE DEF d
    <2>3. /\ a \in Seq(Requests) /\ Len(a) = Len(d) + 1 /\ Len(d) \in Nat
          /\ ToSet(a) = ToSet(d) \cup {r} /\ IsInjective(a)
      BY <2>2, AppendProperties, AppendInjectiveNew
    <2> HIDE DEF a
    <2>4. Len(d) <= Len(a) /\ Len(d) <= Len(d)
      BY <2>3
    <2> QED
      BY <2>1, <2>2, <2>3, <2>4 DEF d
  <1>5. dev' \in [Ipu3!Streams -> Seq(Requests)]
    <2>1. DOMAIN dev' = Ipu3!Streams /\ dev' = [s \in Ipu3!Streams |-> dev'[s]]
      BY <1>2
    <2> QED
      BY <1>4, <2>1
  <1> QED
    BY <1>3, <1>4, <1>5

(* A request is queued to every output it needs, or refused.               *)
LEMMA IpuQueue ==
  ASSUME IpuInv, NEW r \in Requests, NEW S \in SUBSET configured, S # {},
         Ipu3!QueueRequest(r, S) \/ Ipu3!QueueRequestFails(r, S)
  PROVE  /\ IpuInv'
         /\ Fifo!Next \/ UNCHANGED <<queue, complete>>
  <1>1. /\ S \in SUBSET Ipu3!Streams /\ QueueInv
        /\ pending \in [Requests -> SUBSET Ipu3!Streams]
        /\ dropped \subseteq Requests
    BY DEF IpuInv, Ipu3!TypeOK
  <1>2. /\ phase = "running" /\ phase' = "running"
        /\ r \notin ToSet(queue) \cup dropped
        /\ Ipu3!QueueBuffers(r, S) /\ complete' = complete
        /\ UNCHANGED <<links, config, configured, active, allocated, raw, filled>>
    <2>1. Ipu3!Queue = ToSet(queue)
      BY <1>1, QueueElements DEF Ipu3!Queue, QueueInv
    <2> QED
      BY <2>1 DEF Ipu3!QueueRequest, Ipu3!QueueRequestFails, Ipu3!setupVars
  <1>3. \/ S \subseteq Ipu3!Free /\ queue' = Append(queue, r) /\ dropped' = dropped
        \/ /\ \E s \in S : s \notin Ipu3!Free
           /\ queue' = queue /\ dropped' = dropped \cup {r}
    BY DEF Ipu3!QueueRequest, Ipu3!QueueRequestFails
  <1>4. /\ dev' \in [Ipu3!Streams -> Seq(Requests)]
        /\ pending' \in [Requests -> SUBSET Ipu3!Streams]
        /\ pending'[r] = S
        /\ \A q \in Requests : q # r => pending'[q] = pending[q]
        /\ \A s \in Ipu3!Streams :
             /\ r \notin ToSet(dev[s])
             /\ IsInjective(dev'[s])
             /\ Len(dev[s]) <= Len(dev'[s])
             /\ ToSet(dev'[s]) = IF s \in S \cap Ipu3!Free
                                   THEN ToSet(dev[s]) \cup {r}
                                   ELSE ToSet(dev[s])
    BY <1>1, <1>2, IpuQueueBuffers
  <1>5. /\ \/ /\ S \subseteq Ipu3!Free /\ dropped' = dropped
              /\ Waiting' = Waiting \cup {r}
              /\ ToSet(queue') = ToSet(queue) \cup {r}
              /\ Fifo!Next
           \/ /\ \E s \in S : s \notin Ipu3!Free
              /\ dropped' = dropped \cup {r}
              /\ Waiting' = Waiting /\ UNCHANGED <<queue, complete>>
        /\ QueueInv'
    <2>1. CASE queue' = queue
      BY <1>1, <1>2, <1>3, <2>1, QueueSubmits DEF QueueInv, Waiting, Fifo!Next
    <2>2. CASE queue' = Append(queue, r)
      BY <1>1, <1>2, <1>3, <2>2, QueueSubmits DEF QueueInv, Waiting, Fifo!Next
    <2> QED
      BY <1>3, <2>1, <2>2
  <1>6. ToSet(queue) \subseteq Requests /\ ToSet(queue') \subseteq Requests
    BY <1>1, <1>5, QueueElements DEF QueueInv
  <1>7. IpuDevices'
    <2>1. ASSUME NEW s \in Ipu3!Streams, NEW q \in ToSet(dev'[s])
          PROVE  s \in pending'[q] /\ q \in Waiting' \cup dropped'
      <3>1. CASE q = r
        BY <1>4, <1>5, <2>1, <3>1
      <3>2. CASE q # r
        <4>1. q \in ToSet(dev[s])
          BY <1>4, <2>1, <3>2
        <4>2. s \in pending[q] /\ q \in Waiting \cup dropped
          BY <4>1 DEF IpuInv, IpuDevices
        <4>3. q \in Requests
          BY <1>1, <1>6, <4>2 DEF Waiting
        <4> QED
          BY <1>4, <1>5, <3>2, <4>2, <4>3
      <3> QED
        BY <3>1, <3>2
    <2>2. ASSUME NEW q \in Waiting'
          PROVE  /\ pending'[q] # {}
                 /\ \A s \in pending'[q] : q \in ToSet(dev'[s])
      <3>1. CASE q = r
        <4>1. S \subseteq Ipu3!Free
          BY <1>2, <1>5, <2>2, <3>1 DEF Waiting
        <4> QED
          BY <1>1, <1>4, <3>1, <4>1
      <3>2. CASE q # r
        <4>1. q \in Waiting /\ q \in Requests
          BY <1>5, <1>6, <2>2, <3>2 DEF Waiting
        <4>2. /\ pending[q] # {} /\ pending[q] \subseteq Ipu3!Streams
              /\ \A s \in pending[q] : q \in ToSet(dev[s])
          BY <1>1, <4>1 DEF IpuInv, IpuDevices
        <4> QED
          BY <1>4, <3>2, <4>1, <4>2
      <3> QED
        BY <3>1, <3>2
    <2>3. ASSUME NEW q \in dropped'
          PROVE  /\ q \notin ToSet(queue')
                 /\ \E s \in pending'[q] : q \notin ToSet(dev'[s])
      <3>1. CASE q = r
        <4>1. /\ \E s \in S : s \notin Ipu3!Free
              /\ queue' = queue
          BY <1>2, <1>5, <2>3, <3>1
        <4> QED
          BY <1>1, <1>2, <1>4, <3>1, <4>1
      <3>2. CASE q # r
        <4>1. q \in dropped /\ q \in Requests
          BY <1>1, <1>5, <2>3, <3>2
        <4>2. /\ q \notin ToSet(queue) /\ pending[q] \subseteq Ipu3!Streams
              /\ \E s \in pending[q] : q \notin ToSet(dev[s])
          BY <1>1, <4>1 DEF IpuInv, IpuDevices
        <4> QED
          BY <1>4, <1>5, <3>2, <4>1, <4>2
      <3> QED
        BY <3>1, <3>2
    <2> QED
      BY <1>4, <2>1, <2>2, <2>3 DEF IpuDevices
  <1>8. IpuConfig' /\ IpuRaw' /\ IpuCaches' /\ IpuStopped'
    BY <1>2 DEF IpuInv, IpuConfig, IpuRaw, IpuCaches, IpuStopped
  <1>9. Ipu3!TypeOK'
    <2>1. queue' \in Seq(Requests) /\ complete' \subseteq Ipu3!Queue'
      BY <1>5 DEF QueueInv, Ipu3!Queue, Ipu3!ToSet, ToSet
    <2>2. \A s \in Ipu3!Streams : filled'[s] <= Len(dev'[s])
      <3>1. ASSUME NEW s \in Ipu3!Streams
            PROVE  /\ filled[s] \in Nat /\ Len(dev[s]) \in Nat
                   /\ Len(dev'[s]) \in Nat /\ filled[s] <= Len(dev[s])
        BY <1>4 DEF IpuInv, Ipu3!TypeOK
      <3> QED
        BY <1>2, <1>4, <3>1
    <2>3. dropped' \subseteq Requests
      BY <1>1, <1>3
    <2> QED
      BY <1>2, <1>4, <2>1, <2>2, <2>3 DEF IpuInv, Ipu3!TypeOK
  <1> QED
    BY <1>5, <1>7, <1>8, <1>9 DEF IpuInv

(* The camera that no one has matched.                                     *)
LEMMA IpuInit == Ipu3!Init => IpuInv
  <1> SUFFICES ASSUME Ipu3!Init PROVE IpuInv
    OBVIOUS
  <1>1. queue = <<>> /\ complete = {}
    BY DEF Ipu3!Init
  <1>2. ToSet(<<>>) = {} /\ Ipu3!ToSet(<<>>) = {}
    BY DEF ToSet, Ipu3!ToSet
  <1>3. QueueInv /\ Waiting = {}
    BY <1>1, <1>2 DEF QueueInv, Waiting, IsInjective
  <1>4. Ipu3!TypeOK
    <2>1. /\ dev \in [Ipu3!Streams -> Seq(Requests)]
          /\ filled \in [Ipu3!Streams -> Nat]
          /\ \A s \in Ipu3!Streams : filled[s] <= Len(dev[s])
      BY DEF Ipu3!Init
    <2>2. /\ pending \in [Requests -> SUBSET Ipu3!Streams]
          /\ raw \in [RawBuffers -> {"free", "cio2", "input", "processed", "lost"}]
      BY DEF Ipu3!Init
    <2>3. queue \in Seq(Requests) /\ complete \subseteq Ipu3!Queue
      BY <1>1
    <2> QED
      BY <2>1, <2>2, <2>3 DEF Ipu3!Init, Ipu3!TypeOK
  <1>5. IpuConfig /\ IpuRaw /\ IpuCaches /\ IpuStopped
    BY DEF Ipu3!Init, IpuConfig, IpuRaw, IpuCaches, IpuStopped, Ipu3!Streams
  <1>6. \A s \in Ipu3!Streams : IsInjective(dev[s]) /\ ToSet(dev[s]) = {}
    BY <1>2 DEF Ipu3!Init, IsInjective
  <1>7. IpuDevices
    BY <1>3, <1>6 DEF IpuDevices, Ipu3!Init
  <1> QED
    BY <1>3, <1>4, <1>5, <1>7 DEF IpuInv

(* Every step of the IPU3 preserves the invariant, and is a step of        *)
(* RequestFifo or invisible to it.                                         *)
LEMMA IpuStep ==
  ASSUME IpuInv, Ipu3!Next
  PROVE  /\ IpuInv'
         /\ Fifo!Next \/ UNCHANGED <<queue, complete>>
  <1>1. CASE \/ \E good \in Ipu3!Openable : Ipu3!Match(good)
             \/ \E roles \in Roles : Ipu3!GenerateConfiguration(roles)
             \/ \E c \in Configurations : Ipu3!ValidateConfiguration(c)
             \/ Ipu3!Configure \/ Ipu3!ConfigureFails \/ Ipu3!OtherConfigures
             \/ Ipu3!StartFails
    <2>1. UNCHANGED Ipu3!requestVars
      BY <1>1 DEF Ipu3!Match, Ipu3!GenerateConfiguration,
                  Ipu3!ValidateConfiguration, Ipu3!Configure,
                  Ipu3!ConfigureFails, Ipu3!OtherConfigures, Ipu3!StartFails
    <2> QED
      BY <1>1, <2>1, IpuConfigures DEF Ipu3!requestVars
  <1>2. CASE Ipu3!Start \/ Ipu3!Stop \/ Ipu3!Stopping
    <2>1. UNCHANGED Ipu3!requestVars
      BY <1>2 DEF Ipu3!Start, Ipu3!Stop, Ipu3!Stopping, Ipu3!OutputStopped,
                  Ipu3!ViewfinderStopped
    <2> QED
      BY <1>2, <2>1, IpuStartStop DEF Ipu3!requestVars
  <1>3. CASE \E b \in RawBuffers : \/ Ipu3!Cio2BufferReady(b)
                                   \/ Ipu3!Process(b)
                                   \/ Ipu3!ImguInputBufferReady(b)
    <2>1. UNCHANGED Ipu3!requestVars
      BY <1>3 DEF Ipu3!Cio2BufferReady, Ipu3!Process,
                  Ipu3!ImguInputBufferReady
    <2> QED
      BY <1>3, <2>1, IpuRawStep DEF Ipu3!requestVars
  <1>4. CASE \E s \in Ipu3!Streams, i \in 1 .. BufferCount :
               Ipu3!ImguOutputBufferReady(s, i)
    BY <1>4, IpuOutput, BoundsAssumption
  <1>5. CASE \E r \in Requests, S \in SUBSET configured :
               S # {} /\ (Ipu3!QueueRequest(r, S) \/ Ipu3!QueueRequestFails(r, S))
    BY <1>5, IpuQueue
  <1> QED
    BY <1>1, <1>2, <1>3, <1>4, <1>5 DEF Ipu3!Next, Ipu3!Handlers

(* What the invariant says of the raw buffers and of the requests.         *)
LEMMA IpuSafe ==
  ASSUME IpuInv
  PROVE  Ipu3!TypeOK /\ Ipu3!BuffersAccounted /\ Ipu3!NoRequestLost
  <1>1. Ipu3!TypeOK /\ Ipu3!BuffersAccounted
    BY DEF IpuInv, IpuRaw, IpuCaches, Ipu3!BuffersAccounted
  <1>2. \A s \in Ipu3!Streams : Ipu3!ToSet(dev[s]) = ToSet(dev[s])
    BY DEF Ipu3!ToSet, ToSet
  <1>3. Ipu3!Queue = ToSet(queue)
    BY DEF Ipu3!Queue, Ipu3!ToSet, ToSet
  <1>4. \A r \in Ipu3!Queue \ complete :
          /\ pending[r] # {} /\ pending[r] \subseteq Ipu3!Streams
          /\ \A s \in pending[r] : r \in ToSet(dev[s])
    <2>1. ToSet(queue) \subseteq Requests
      BY QueueElements DEF IpuInv, QueueInv
    <2> QED
      BY <1>3, <2>1 DEF IpuInv, IpuDevices, Waiting, Ipu3!TypeOK
  <1>5. ASSUME phase = "stopped"
        PROVE  queue = <<>> /\ \A s \in Ipu3!Streams : dev[s] = <<>>
    <2>1. \A s \in Ipu3!Streams : dev[s] = <<>>
      BY <1>5 DEF IpuInv, IpuStopped, Ipu3!Streams
    <2>2. ToSet(<<>>) = {}
      BY DEF ToSet
    <2>3. Waiting = {}
      BY <1>3, <1>4, <2>1, <2>2 DEF Waiting
    <2>4. queue # <<>> => queue[1] \in Waiting
      BY DEF IpuInv, QueueInv, Waiting, ToSet
    <2> QED
      BY <2>1, <2>3, <2>4
  <1> QED
    BY <1>1, <1>2, <1>4, <1>5 DEF Ipu3!NoRequestLost

-----------------------------------------------------------------------------
(***************************************************************************)
(* The steps of RkISP1.                                                    *)
(***************************************************************************)

(* What the infos and the pools hold.                                      *)
LEMMA RkTypes ==
  ASSUME RkInv
  PROVE  /\ info \in [Rk!Frames -> Rk!FrameInfo \cup {NoInfo}]
         /\ Rk!Known \subseteq Rk!Frames
         /\ \A f \in Rk!Frames : f \in Rk!Known <=> info[f] # NoInfo
         /\ \A f \in Rk!Known :
              /\ info[f] \in Rk!FrameInfo
              /\ info[f].request \in Requests /\ info[f].request \in Waiting
              /\ info[f].param \in Addresses /\ info[f].stat \in Addresses
              /\ info[f].dequeued \in BOOLEAN /\ info[f].processed \in BOOLEAN
              /\ info[f].filled
         /\ availableParam \in Seq(Addresses) /\ availableStat \in Seq(Addresses)
         /\ Waiting \subseteq Requests /\ ToSet(queue) \subseteq Requests
  <1>1. info \in [Rk!Frames -> Rk!FrameInfo \cup {NoInfo}]
    BY DEF RkInv, Rk!TypeOK
  <1>2. /\ Rk!Known \subseteq Rk!Frames
        /\ \A f \in Rk!Frames : f \in Rk!Known <=> info[f] # NoInfo
    BY DEF Rk!Known
  <1>3. ASSUME NEW f \in Rk!Known
        PROVE  /\ info[f] \in Rk!FrameInfo
               /\ info[f].request \in Requests
               /\ info[f].param \in Addresses /\ info[f].stat \in Addresses
               /\ info[f].dequeued \in BOOLEAN /\ info[f].processed \in BOOLEAN
    <2>1. info[f] \in Rk!FrameInfo
      BY <1>1, <1>2
    <2> QED
      BY <2>1 DEF Rk!FrameInfo
  <1>4. \A f \in Rk!Known : info[f].request \in Waiting /\ info[f].filled
    BY DEF RkInv, RkInfos
  <1>5. availableParam \in Seq(Addresses) /\ availableStat \in Seq(Addresses)
    BY DEF RkInv, Rk!TypeOK
  <1>6. ToSet(queue) \subseteq Requests
    BY QueueElements DEF RkInv, QueueInv
  <1> QED
    BY <1>1, <1>2, <1>3, <1>4, <1>5, <1>6 DEF Waiting

(* tryCompleteRequest() finds the only info of the request, if there is    *)
(* one, and completes the request when it waits for nothing.               *)
LEMMA RkTry ==
  ASSUME RkInv, NEW r,
         NEW inf \in [Rk!Frames -> Rk!FrameInfo \cup {NoInfo}],
         \A f \in Rk!Frames : inf[f] = NoInfo <=> info[f] = NoInfo,
         \A f \in Rk!Known : inf[f].request = info[f].request,
         Rk!TryCompleteRequest(r, inf)
  PROVE  \/ /\ info' = inf
            /\ UNCHANGED <<queue, complete, availableParam, availableStat>>
            /\ \A f \in Rk!Known :
                 inf[f].request = r => ~Rk!Ready(r, f, inf)
         \/ \E f \in Rk!Known :
              /\ inf[f].request = r /\ Rk!Ready(r, f, inf)
              /\ info' = [inf EXCEPT ![f] = NoInfo]
              /\ availableParam' = Append(availableParam, inf[f].param)
              /\ availableStat' = Append(availableStat, inf[f].stat)
              /\ QueueInv' /\ Waiting' = Waiting \ {r}
              /\ Fifo!Next
  <1>1. \A f \in Rk!Frames : f \in Rk!OfRequest(r, inf)
                               <=> f \in Rk!Known /\ inf[f].request = r
    BY DEF Rk!OfRequest, Rk!Known
  <1>2. \A f, g \in Rk!Known : info[f].request = info[g].request => f = g
    BY DEF RkInv, RkInfos
  <1>3. Rk!OfRequest(r, inf) \subseteq Rk!Frames /\ Rk!Frames \subseteq Nat
    BY BoundsAssumption DEF Rk!OfRequest, Rk!Frames
  <1>4. ASSUME NEW f \in Rk!OfRequest(r, inf), NEW g \in Rk!OfRequest(r, inf)
        PROVE  f = g
    <2>1. /\ f \in Rk!Known /\ inf[f].request = r
          /\ g \in Rk!Known /\ inf[g].request = r
      BY <1>1, <1>3
    <2>2. info[f].request = info[g].request
      BY <2>1
    <2> QED
      BY <1>2, <2>1, <2>2
  <1>5. \A f \in Rk!OfRequest(r, inf) : Rk!First(Rk!OfRequest(r, inf), f)
    <2> SUFFICES ASSUME NEW f \in Rk!OfRequest(r, inf)
                 PROVE  \A g \in Rk!OfRequest(r, inf) : f <= g
      BY DEF Rk!First
    <2>1. f \in Nat
      BY <1>3
    <2>2. f <= f
      BY <2>1
    <2> QED
      BY <1>4, <2>2
  <1>6. CASE /\ \A f \in Rk!OfRequest(r, inf) :
                  Rk!First(Rk!OfRequest(r, inf), f) => ~Rk!Ready(r, f, inf)
             /\ info' = inf
             /\ UNCHANGED <<queue, complete, Rk!poolVars>>
    <2>1. \A f \in Rk!Known : inf[f].request = r => ~Rk!Ready(r, f, inf)
      BY <1>1, <1>3, <1>5, <1>6 DEF Rk!Known
    <2> QED
      BY <1>6, <2>1 DEF Rk!poolVars
  <1>7. CASE \E f \in Rk!OfRequest(r, inf) :
               /\ Rk!First(Rk!OfRequest(r, inf), f)
               /\ Rk!Ready(r, f, inf)
               /\ info' = [inf EXCEPT ![f] = NoInfo]
               /\ availableParam' = Append(availableParam, inf[f].param)
               /\ availableStat' = Append(availableStat, inf[f].stat)
               /\ Rk!CompleteRequest(complete \cup {r})
    <2>1. PICK f \in Rk!OfRequest(r, inf) :
               /\ Rk!Ready(r, f, inf)
               /\ info' = [inf EXCEPT ![f] = NoInfo]
               /\ availableParam' = Append(availableParam, inf[f].param)
               /\ availableStat' = Append(availableStat, inf[f].stat)
               /\ Rk!CompleteRequest(complete \cup {r})
      BY <1>7
    <2>2. f \in Rk!Known /\ inf[f].request = r
      BY <1>1, <1>3
    <2>3. r \in Waiting
      BY <2>2, RkTypes
    <2>4. PICK n \in 0 .. Len(queue) :
            /\ \A j \in 1 .. n : queue[j] \in complete \cup {r}
            /\ n < Len(queue) => queue[n + 1] \notin complete \cup {r}
            /\ queue' = SubSeq(queue, n + 1, Len(queue))
            /\ complete' = (complete \cup {r}) \ {queue[j] : j \in 1 .. n}
      BY <2>1 DEF Rk!CompleteRequest
    <2>5. /\ QueueInv' /\ Waiting' = Waiting \ {r}
          /\ Fifo!Finish({r}, n)
      BY <2>3, <2>4, QueueCompletes DEF RkInv
    <2>6. {r} \in SUBSET ({queue[j] : j \in DOMAIN queue} \ complete)
      BY <2>3 DEF Waiting, ToSet
    <2>7. Fifo!Next
      BY <2>5, <2>6 DEF Fifo!Next
    <2> QED
      BY <2>1, <2>2, <2>5, <2>7
  <1> QED
    BY <1>6, <1>7 DEF Rk!TryCompleteRequest

(* The infos inf, in which a handler has set a flag, name the same         *)
(* requests and buffers as before.                                         *)
SameInfos(inf) ==
    /\ inf \in [Rk!Frames -> Rk!FrameInfo \cup {NoInfo}]
    /\ \A f \in Rk!Frames : inf[f] = NoInfo <=> info[f] = NoInfo
    /\ \A f \in Rk!Known :
         /\ inf[f].request = info[f].request
         /\ inf[f].param = info[f].param /\ inf[f].stat = info[f].stat
         /\ inf[f].filled = info[f].filled

(* What tryCompleteRequest() leaves: the infos in G, at most one, are      *)
(* destroyed with their requests.                                          *)
Destroyed(r, inf, G) ==
    /\ G \subseteq Rk!Known
    /\ Rk!Known' = Rk!Known \ G
    /\ info' \in [Rk!Frames -> Rk!FrameInfo \cup {NoInfo}]
    /\ \A f \in Rk!Known \ G : info'[f] = inf[f]
    /\ \A f \in G : /\ inf[f].request = r /\ r \notin pending'
                    /\ inf[f].processed /\ inf[f].dequeued
    /\ \A f \in Rk!Known \ G :
         inf[f].request = r =>
             r \in pending' \/ ~inf[f].processed \/ ~inf[f].dequeued
    /\ QueueInv'
    /\ Waiting' \subseteq Waiting
    /\ \A q \in Waiting :
         q \in Waiting' <=> \A f \in G : inf[f].request # q
    /\ Fifo!Next \/ UNCHANGED <<queue, complete>>

(* The buffers of the infos in G are back in the pools.                    *)
Returned(inf, G) ==
    /\ availableParam' \in Seq(Addresses) /\ availableStat' \in Seq(Addresses)
    /\ ToSet(availableParam') = ToSet(availableParam) \cup {inf[f].param : f \in G}
    /\ ToSet(availableStat') = ToSet(availableStat) \cup {inf[f].stat : f \in G}
    /\ RkPools => IsInjective(availableParam') /\ IsInjective(availableStat')

(* tryCompleteRequest(), in both outcomes.                                 *)
LEMMA RkTried ==
  ASSUME RkInv, NEW r, NEW inf, SameInfos(inf), Rk!TryCompleteRequest(r, inf)
  PROVE  \E G : Destroyed(r, inf, G) /\ Returned(inf, G)
  <1>1. /\ inf \in [Rk!Frames -> Rk!FrameInfo \cup {NoInfo}]
        /\ \A f \in Rk!Frames : inf[f] = NoInfo <=> info[f] = NoInfo
        /\ \A f \in Rk!Known :
             /\ inf[f].request = info[f].request
             /\ inf[f].param = info[f].param /\ inf[f].stat = info[f].stat
        /\ QueueInv
        /\ \A f, g \in Rk!Known : info[f].request = info[g].request => f = g
    BY DEF SameInfos, RkInv, RkInfos
  <1>2. CASE /\ info' = inf
             /\ UNCHANGED <<queue, complete, availableParam, availableStat>>
             /\ \A f \in Rk!Known :
                  inf[f].request = r => ~Rk!Ready(r, f, inf)
    <2>1. Rk!Known' = Rk!Known
      BY <1>1, <1>2 DEF Rk!Known
    <2>2. QueueInv' /\ Waiting' = Waiting
      BY <1>1, <1>2 DEF QueueInv, Waiting
    <2>3. Destroyed(r, inf, {})
      BY <1>1, <1>2, <2>1, <2>2 DEF Destroyed, Rk!Ready
    <2>4. Returned(inf, {})
      BY <1>2, RkTypes DEF Returned, RkPools
    <2> QED
      BY <2>3, <2>4
  <1>3. ASSUME NEW g \in Rk!Known,
               /\ inf[g].request = r /\ Rk!Ready(r, g, inf)
               /\ info' = [inf EXCEPT ![g] = NoInfo]
               /\ availableParam' = Append(availableParam, inf[g].param)
               /\ availableStat' = Append(availableStat, inf[g].stat)
               /\ QueueInv' /\ Waiting' = Waiting \ {r}
               /\ Fifo!Next
        PROVE  \E G : Destroyed(r, inf, G) /\ Returned(inf, G)
    <2>1. g \in Rk!Frames
      BY DEF Rk!Known
    <2>2. Rk!Known' = Rk!Known \ {g}
      BY <1>1, <1>3, <2>1 DEF Rk!Known
    <2>3. info' \in [Rk!Frames -> Rk!FrameInfo \cup {NoInfo}]
      BY <1>1, <1>3
    <2>4. \A f \in Rk!Known \ {g} : info'[f] = inf[f]
      BY <1>1, <1>3 DEF Rk!Known
    <2>5. \A f \in Rk!Known \ {g} : inf[f].request # r
      BY <1>1, <1>3
    <2>6. r \notin pending' /\ inf[g].processed /\ inf[g].dequeued
      BY <1>3 DEF Rk!Ready
    <2>7. Destroyed(r, inf, {g})
      BY <1>3, <2>2, <2>3, <2>4, <2>5, <2>6 DEF Destroyed
    <2>8. inf[g].param \in Addresses /\ inf[g].stat \in Addresses
      BY <1>1, RkTypes
    <2> DEFINE x == inf[g].param
               y == inf[g].stat
    <2>9. /\ RkPools => /\ IsInjective(availableParam)
                        /\ IsInjective(availableStat)
                        /\ x \notin ToSet(availableParam)
                        /\ y \notin ToSet(availableStat)
          /\ x \in Addresses /\ y \in Addresses
      BY <1>1, <2>8 DEF RkPools
    <2>10. /\ availableParam' = Append(availableParam, x)
           /\ availableStat' = Append(availableStat, y)
           /\ {inf[f].param : f \in {g}} = {x} /\ {inf[f].stat : f \in {g}} = {y}
      BY <1>3
    <2> HIDE DEF x, y
    <2>11. availableParam \in Seq(Addresses) /\ availableStat \in Seq(Addresses)
      BY RkTypes
    <2>12. /\ availableParam' \in Seq(Addresses)
           /\ ToSet(availableParam') = ToSet(availableParam) \cup {x}
           /\ RkPools => IsInjective(availableParam')
      BY <2>9, <2>10, <2>11, AppendProperties, AppendInjectiveNew
    <2>13. /\ availableStat' \in Seq(Addresses)
           /\ ToSet(availableStat') = ToSet(availableStat) \cup {y}
           /\ RkPools => IsInjective(availableStat')
      BY <2>9, <2>10, <2>11, AppendProperties, AppendInjectiveNew
    <2>14. Returned(inf, {g})
      BY <2>10, <2>12, <2>13 DEF Returned
    <2> QED
      BY <2>7, <2>14
  <1> QED
    BY <1>1, <1>2, <1>3, RkTry

(* What a handler does to the rest of the state: it takes a buffer from a  *)
(* device.                                                                 *)
BufferTaken ==
    /\ UNCHANGED <<phase, dropped, refused, actions, paramCache, statCache>>
    /\ frame' \in Nat /\ frame <= frame' /\ sequence' \in Nat
    /\ param' \subseteq param /\ stat' \subseteq stat /\ video' \subseteq video
    /\ pending' \subseteq pending /\ video' \subseteq pending'
    /\ pending' \ video' = pending \ video

(* The infos of a clean state agree with the devices after a handler has   *)
(* taken a buffer and set its flag, before tryCompleteRequest(r).          *)
StillClean(r, inf) ==
    /\ \A f \in Rk!Known :
         f \in actions => ~inf[f].dequeued /\ ~inf[f].processed
    /\ \A f \in Rk!Known :
         f \notin actions => /\ inf[f].dequeued \/ inf[f].param \in param'
                             /\ inf[f].processed \/ inf[f].stat \in stat'
    /\ \A p \in param' : \E f \in Rk!Known :
         inf[f].param = p /\ ~inf[f].dequeued /\ f \notin actions
    /\ \A s \in stat' : \E f \in Rk!Known :
         inf[f].stat = s /\ ~inf[f].processed /\ f \notin actions
    /\ \A f \in Rk!Known :
         inf[f].request # r => \/ inf[f].request \in pending'
                               \/ ~inf[f].processed
                               \/ ~inf[f].dequeued

(* A handler that ends in tryCompleteRequest() preserves the invariant.    *)
LEMMA RkHandled ==
  ASSUME RkInv, NEW r, NEW inf, SameInfos(inf), BufferTaken,
         Rk!TryCompleteRequest(r, inf),
         RkClean => StillClean(r, inf)
  PROVE  /\ RkInv' /\ Forsaken' = Forsaken /\ refused' = refused
         /\ Fifo!Next \/ UNCHANGED <<queue, complete>>
  <1>1. PICK G : Destroyed(r, inf, G) /\ Returned(inf, G)
    BY RkTried
  <1>2. /\ G \subseteq Rk!Known /\ Rk!Known' = Rk!Known \ G
        /\ info' \in [Rk!Frames -> Rk!FrameInfo \cup {NoInfo}]
        /\ \A f \in Rk!Known \ G : info'[f] = inf[f]
        /\ \A f \in G : /\ inf[f].request = r /\ r \notin pending'
                        /\ inf[f].processed /\ inf[f].dequeued
    BY <1>1 DEF Destroyed
  <1>3. /\ QueueInv' /\ Waiting' \subseteq Waiting
        /\ \A q \in Waiting : q \in Waiting' <=> \A f \in G : inf[f].request # q
        /\ Fifo!Next \/ UNCHANGED <<queue, complete>>
    BY <1>1 DEF Destroyed
  <1>4. \A f \in Rk!Known :
          /\ inf[f].request = info[f].request
          /\ inf[f].param = info[f].param /\ inf[f].stat = info[f].stat
          /\ inf[f].filled = info[f].filled
    BY DEF SameInfos
  <1>5. \A f \in Rk!Known' :
          /\ f \in Rk!Known /\ f \notin G /\ info'[f] = inf[f]
          /\ info'[f].request = info[f].request
          /\ info'[f].param = info[f].param /\ info'[f].stat = info[f].stat
          /\ info'[f].filled = info[f].filled
    BY <1>2, <1>4
  <1>6. /\ UNCHANGED <<phase, dropped, refused, actions, paramCache, statCache>>
        /\ frame' \in Nat /\ frame <= frame' /\ sequence' \in Nat
        /\ param' \subseteq param /\ stat' \subseteq stat /\ video' \subseteq video
        /\ pending' \subseteq pending /\ video' \subseteq pending'
        /\ pending' \ video' = pending \ video
    BY DEF BufferTaken
  <1>7. /\ \A f, g \in Rk!Known : info[f].request = info[g].request => f = g
        /\ \A f \in actions : /\ f \in Rk!Known /\ f < frame
                              /\ info[f].request \in pending \ video
        /\ pending \subseteq Waiting
        /\ frame \in Nat /\ actions \subseteq Rk!Frames /\ Rk!Frames \subseteq Nat
    BY BoundsAssumption DEF RkInv, RkInfos, RkActions, Rk!TypeOK, Rk!Frames
  <1>8. \A f \in actions : f \in Rk!Known' /\ info[f].request \in pending' \ video'
    <2> SUFFICES ASSUME NEW f \in actions
                 PROVE  f \in Rk!Known' /\ info[f].request \in pending' \ video'
      OBVIOUS
    <2>1. f \in Rk!Known /\ info[f].request \in pending' \ video'
      BY <1>6, <1>7
    <2>2. f \notin G
      BY <1>2, <1>4, <2>1
    <2> QED
      BY <1>2, <2>1, <2>2
  <1>9. RkInfos'
    <2>1. ASSUME NEW f \in Rk!Known'
          PROVE  info'[f].request \in Waiting' /\ info'[f].filled
      <3>1. info[f].request \in Waiting /\ info[f].filled
        BY <1>5, RkTypes
      <3>2. \A g \in G : inf[g].request # info[f].request
        BY <1>2, <1>4, <1>5, <1>7
      <3> QED
        BY <1>3, <1>5, <3>1, <3>2
    <2>2. \A f, g \in Rk!Known' : info'[f].request = info'[g].request => f = g
      BY <1>5, <1>7
    <2> QED
      BY <2>1, <2>2 DEF RkInfos
  <1>10. pending' \subseteq Waiting'
    <2> SUFFICES ASSUME NEW q \in pending' PROVE q \in Waiting'
      OBVIOUS
    <2>1. q \in Waiting
      BY <1>6, <1>7
    <2>2. \A g \in G : inf[g].request # q
      BY <1>2
    <2> QED
      BY <1>3, <2>1, <2>2
  <1>11. RkActions'
    <2>1. \A f \in actions : f < frame'
      BY <1>6, <1>7
    <2> QED
      BY <1>5, <1>6, <1>8, <1>10, <2>1 DEF RkActions
  <1>12. RkStopped'
    BY <1>6 DEF RkInv, RkStopped
  <1>13. Rk!TypeOK'
    <2>1. queue' \in Seq(Requests) /\ complete' \subseteq Rk!Elements(queue)'
      BY <1>3, QueueElements DEF QueueInv, Rk!Elements, ToSet
    <2>2. availableParam' \in Seq(Addresses) /\ availableStat' \in Seq(Addresses)
      BY <1>1 DEF Returned
    <2> QED
      BY <1>2, <1>6, <2>1, <2>2 DEF RkInv, Rk!TypeOK
  <1>14. Forsaken' = Forsaken
    <2>1. ASSUME NEW q \in pending \ video
          PROVE  (\A f \in Rk!OfRequest(q, info') : f \notin actions)
                   <=> (\A f \in Rk!OfRequest(q, info) : f \notin actions)
      <3>1. \A f \in actions : f \in Rk!OfRequest(q, info')
                                 <=> f \in Rk!OfRequest(q, info)
        <4>1. \A f \in actions :
                /\ f \in Rk!Frames /\ f \in Rk!Known /\ f \in Rk!Known'
                /\ info'[f].request = info[f].request
          BY <1>5, <1>7, <1>8
        <4> QED
          BY <4>1 DEF Rk!OfRequest, Rk!Known
      <3> QED
        BY <3>1
    <2> QED
      BY <1>6, <2>1 DEF Forsaken
  <1>15. ASSUME RkClean PROVE RkClean'
    <2>1. StillClean(r, inf)
      BY <1>15
    <2>2. RkRequests'
      <3>1. ASSUME NEW q \in Waiting'
            PROVE  \E f \in Rk!Known' : info'[f].request = q
        <4>1. PICK f \in Rk!Known : info[f].request = q
          BY <1>3, <1>15, <3>1 DEF RkClean, RkRequests
        <4>2. f \notin G
          BY <1>3, <1>4, <3>1, <4>1
        <4> QED
          BY <1>2, <1>4, <4>1, <4>2
      <3>2. ASSUME NEW f \in Rk!Known'
            PROVE  /\ f < frame'
                   /\ \/ info'[f].request \in pending'
                      \/ ~info'[f].processed
                      \/ ~info'[f].dequeued
        <4>1. f \in Rk!Known /\ f \in Nat /\ f < frame
          BY <1>5, <1>7, <1>15, RkTypes DEF RkClean, RkRequests
        <4>2. f < frame'
          BY <1>6, <1>7, <4>1
        <4>3. inf[f].request = r =>
                r \in pending' \/ ~inf[f].processed \/ ~inf[f].dequeued
          BY <1>1, <1>5 DEF Destroyed
        <4> QED
          BY <1>5, <2>1, <4>1, <4>2, <4>3 DEF StillClean
      <3> QED
        BY <3>1, <3>2 DEF RkRequests
    <2>3. RkBuffers'
      <3> SUFFICES ASSUME NEW f \in Rk!Known'
                   PROVE  /\ f \in actions => ~info'[f].dequeued /\ ~info'[f].processed
                          /\ f \notin actions =>
                               /\ info'[f].request \in pending' => info'[f].request \in video'
                               /\ info'[f].dequeued \/ info'[f].param \in param'
                               /\ info'[f].processed \/ info'[f].stat \in stat'
        BY <1>6 DEF RkBuffers
      <3>1. f \in Rk!Known /\ info'[f] = inf[f] /\ inf[f].request = info[f].request
        BY <1>4, <1>5
      <3>2. f \notin actions /\ info[f].request \in pending => info[f].request \in video
        BY <1>15, <3>1 DEF RkClean, RkBuffers
      <3>3. f \notin actions /\ info[f].request \in pending' => info[f].request \in video'
        BY <1>6, <3>2
      <3> QED
        BY <2>1, <3>1, <3>3 DEF StillClean
    <2>4. RkDevices'
      <3>1. ASSUME NEW p \in param'
            PROVE  \E f \in Rk!Known' : /\ info'[f].param = p
                                        /\ ~info'[f].dequeued /\ f \notin actions'
        <4>1. PICK f \in Rk!Known :
                inf[f].param = p /\ ~inf[f].dequeued /\ f \notin actions
          BY <2>1, <3>1 DEF StillClean
        <4> QED
          BY <1>2, <1>6, <4>1
      <3>2. ASSUME NEW s \in stat'
            PROVE  \E f \in Rk!Known' : /\ info'[f].stat = s
                                        /\ ~info'[f].processed /\ f \notin actions'
        <4>1. PICK f \in Rk!Known :
                inf[f].stat = s /\ ~inf[f].processed /\ f \notin actions
          BY <2>1, <3>2 DEF StillClean
        <4> QED
          BY <1>2, <1>6, <4>1
      <3> QED
        BY <3>1, <3>2 DEF RkDevices
    <2>5. RkPools'
      <3>1. /\ \A f \in Rk!Known : /\ info[f].param \notin ToSet(availableParam)
                                   /\ info[f].stat \notin ToSet(availableStat)
            /\ \A f, g \in Rk!Known :
                 info[f].param = info[g].param \/ info[f].stat = info[g].stat => f = g
            /\ RkPools
        BY <1>15 DEF RkClean, RkPools
      <3>2. /\ IsInjective(availableParam') /\ IsInjective(availableStat')
            /\ ToSet(availableParam') = ToSet(availableParam) \cup {inf[f].param : f \in G}
            /\ ToSet(availableStat') = ToSet(availableStat) \cup {inf[f].stat : f \in G}
        BY <1>1, <3>1 DEF Returned
      <3>3. \A f \in Rk!Known' : \A g \in G : /\ inf[g].param # info[f].param
                                              /\ inf[g].stat # info[f].stat
        BY <1>2, <1>4, <1>5, <3>1
      <3>4. \A f \in Rk!Known' : /\ info'[f].param \notin ToSet(availableParam')
                                 /\ info'[f].stat \notin ToSet(availableStat')
        BY <1>5, <3>1, <3>2, <3>3
      <3>5. \A f, g \in Rk!Known' :
              info'[f].param = info'[g].param \/ info'[f].stat = info'[g].stat => f = g
        BY <1>5, <3>1
      <3> QED
        BY <3>2, <3>4, <3>5 DEF RkPools
    <2> QED
      BY <2>2, <2>3, <2>4, <2>5 DEF RkClean
  <1> QED
    BY <1>3, <1>6, <1>9, <1>11, <1>12, <1>13, <1>14, <1>15 DEF RkInv

(* bufferReady(): the video buffer comes back.                             *)
LEMMA RkBufferReady ==
  ASSUME RkInv, NEW r \in Requests, NEW seq \in {sequence, sequence + 1},
         Rk!BufferReady(r, seq)
  PROVE  /\ RkInv' /\ Forsaken' = Forsaken /\ refused' = refused
         /\ Fifo!Next \/ UNCHANGED <<queue, complete>>
  <1>1. /\ r \in video /\ video' = video \ {r} /\ pending' = pending \ {r}
        /\ UNCHANGED <<phase, dropped, refused, actions, param, stat>>
        /\ UNCHANGED <<paramCache, statCache>>
        /\ frame' = Rk!NextFrame(seq) /\ sequence' = seq + 1
        /\ Rk!TryCompleteRequest(r, info)
    BY DEF Rk!BufferReady, Rk!cacheVars
  <1>2. /\ frame \in Nat /\ seq \in Nat /\ video \subseteq pending
    BY DEF RkInv, Rk!TypeOK, RkActions
  <1>3. frame' \in Nat /\ frame <= frame' /\ sequence' \in Nat
    BY <1>1, <1>2 DEF Rk!NextFrame
  <1>4. BufferTaken
    BY <1>1, <1>2, <1>3 DEF BufferTaken
  <1>5. SameInfos(info)
    BY RkTypes DEF SameInfos
  <1>6. ASSUME RkClean PROVE StillClean(r, info)
    <2>1. RkRequests /\ RkBuffers /\ RkDevices
      BY <1>6 DEF RkClean
    <2>2. \A f \in Rk!Known : info[f].request # r =>
            \/ info[f].request \in pending' \/ ~info[f].processed
            \/ ~info[f].dequeued
      BY <1>1, <2>1 DEF RkRequests
    <2> QED
      BY <1>1, <2>1, <2>2 DEF StillClean, RkBuffers, RkDevices
  <1> QED
    BY <1>1, <1>4, <1>5, <1>6, RkHandled

(* paramReady(): the parameters buffer comes back.                         *)
LEMMA RkParamReady ==
  ASSUME RkInv, NEW p \in Addresses, Rk!ParamReady(p)
  PROVE  /\ RkInv' /\ Forsaken' = Forsaken /\ refused' = refused
         /\ Fifo!Next \/ UNCHANGED <<queue, complete>>
  <1>1. PICK f \in Rk!OfParam(p) :
          Rk!TryCompleteRequest(info[f].request, [info EXCEPT ![f].dequeued = TRUE])
    BY DEF Rk!ParamReady
  <1>2. /\ p \in param /\ param' = param \ {p} /\ pending' = pending
        /\ UNCHANGED <<phase, dropped, refused, frame, actions, video, stat>>
        /\ UNCHANGED <<paramCache, statCache, sequence>>
    BY DEF Rk!ParamReady, Rk!cacheVars
  <1>3. BufferTaken
    <2>1. frame \in Nat /\ sequence \in Nat /\ video \subseteq pending
      BY DEF RkInv, Rk!TypeOK, RkActions
    <2>2. frame <= frame
      BY <2>1
    <2> QED
      BY <1>2, <2>1, <2>2 DEF BufferTaken
  <1> DEFINE inf == [info EXCEPT ![f].dequeued = TRUE]
             r == info[f].request
  <1>4. f \in Rk!Known /\ info[f].param = p
    BY DEF Rk!OfParam
  <1>5. /\ inf \in [Rk!Frames -> Rk!FrameInfo \cup {NoInfo}]
        /\ inf[f] \in Rk!FrameInfo
        /\ inf[f].request = info[f].request /\ inf[f].param = info[f].param
        /\ inf[f].stat = info[f].stat /\ inf[f].filled = info[f].filled
        /\ inf[f].processed = info[f].processed /\ inf[f].dequeued
        /\ \A g \in Rk!Frames : g # f => inf[g] = info[g]
    <2>1. info \in [Rk!Frames -> Rk!FrameInfo \cup {NoInfo}] /\ f \in Rk!Frames
      BY <1>4, RkTypes
    <2>2. inf = [info EXCEPT ![f] = [info[f] EXCEPT !.dequeued = TRUE]]
      BY <2>1
    <2>3. info[f] \in Rk!FrameInfo
      BY <1>4, RkTypes
    <2> DEFINE new == [info[f] EXCEPT !.dequeued = TRUE]
    <2>4. /\ new \in Rk!FrameInfo
          /\ new.request = info[f].request /\ new.param = info[f].param
          /\ new.stat = info[f].stat /\ new.filled = info[f].filled
          /\ new.processed = info[f].processed /\ new.dequeued
      BY <2>3 DEF Rk!FrameInfo
    <2> HIDE DEF new
    <2>5. inf = [info EXCEPT ![f] = new]
      BY <2>2 DEF new
    <2> HIDE DEF inf
    <2> QED
      BY <2>1, <2>4, <2>5
  <1> HIDE DEF inf
  <1>6. SameInfos(inf)
    <2>1. \A g \in Rk!Frames : inf[g] = NoInfo <=> info[g] = NoInfo
      BY <1>4, <1>5, RkTypes, NoInfoAssumption
    <2>2. \A g \in Rk!Known :
            /\ inf[g].request = info[g].request
            /\ inf[g].param = info[g].param /\ inf[g].stat = info[g].stat
            /\ inf[g].filled = info[g].filled
      BY <1>5, RkTypes
    <2> QED
      BY <1>5, <2>1, <2>2 DEF SameInfos
  <1>7. ASSUME RkClean PROVE StillClean(r, inf)
    <2>1. RkRequests /\ RkBuffers /\ RkDevices /\ RkPools
      BY <1>7 DEF RkClean
    <2>2. \A g \in Rk!Known : info[g].param = p => g = f
      BY <1>4, <2>1 DEF RkPools
    <2>3. f \notin actions /\ ~info[f].dequeued
      BY <1>2, <2>1, <2>2 DEF RkDevices
    <2>4. \A g \in Rk!Known : /\ g # f => inf[g] = info[g]
                              /\ inf[g].request = info[g].request
                              /\ inf[g].param = info[g].param
                              /\ inf[g].stat = info[g].stat
                              /\ inf[g].processed = info[g].processed
      BY <1>5, RkTypes
    <2>5. ASSUME NEW g \in Rk!Known
          PROVE  /\ g \in actions => ~inf[g].dequeued /\ ~inf[g].processed
                 /\ g \notin actions =>
                      /\ inf[g].dequeued \/ inf[g].param \in param'
                      /\ inf[g].processed \/ inf[g].stat \in stat'
                 /\ inf[g].request # r => \/ inf[g].request \in pending'
                                          \/ ~inf[g].processed
                                          \/ ~inf[g].dequeued
      <3>1. CASE g = f
        <4>1. info[f].processed \/ info[f].stat \in stat
          BY <1>4, <2>1, <2>3 DEF RkBuffers
        <4> QED
          BY <1>2, <1>5, <2>3, <3>1, <4>1
      <3>2. CASE g # f
        <4>1. inf[g] = info[g] /\ info[g].param # p
          BY <2>2, <2>4, <3>2
        <4>2. /\ g \in actions => ~info[g].dequeued /\ ~info[g].processed
              /\ g \notin actions => /\ info[g].dequeued \/ info[g].param \in param
                                     /\ info[g].processed \/ info[g].stat \in stat
              /\ info[g].request \in pending \/ ~info[g].processed
                   \/ ~info[g].dequeued
          BY <2>1 DEF RkBuffers, RkRequests
        <4> QED
          BY <1>2, <4>1, <4>2
      <3> QED
        BY <3>1, <3>2
    <2>6. ASSUME NEW x \in param'
          PROVE  \E g \in Rk!Known :
                    inf[g].param = x /\ ~inf[g].dequeued /\ g \notin actions
      <3>1. x \in param /\ x # p
        BY <1>2, <2>6
      <3>2. PICK g \in Rk!Known :
              info[g].param = x /\ ~info[g].dequeued /\ g \notin actions
        BY <2>1, <3>1 DEF RkDevices
      <3>3. g # f
        BY <1>4, <3>1, <3>2
      <3> QED
        BY <2>4, <3>2, <3>3
    <2>7. \A x \in stat' : \E g \in Rk!Known :
            inf[g].stat = x /\ ~inf[g].processed /\ g \notin actions
      BY <1>2, <2>1, <2>4 DEF RkDevices
    <2> QED
      BY <2>5, <2>6, <2>7 DEF StillClean
  <1>8. Rk!TryCompleteRequest(r, inf)
    BY <1>1 DEF inf
  <1> HIDE DEF r
  <1> QED
    BY <1>3, <1>6, <1>7, <1>8, RkHandled

(* statReady(): the statistics buffer comes back, and the algorithms have  *)
(* processed it.                                                           *)
LEMMA RkStatReady ==
  ASSUME RkInv, NEW p \in Addresses, Rk!StatReady(p)
  PROVE  /\ RkInv' /\ Forsaken' = Forsaken /\ refused' = refused
         /\ Fifo!Next \/ UNCHANGED <<queue, complete>>
  <1>2. /\ p \in stat /\ stat' = stat \ {p} /\ pending' = pending
        /\ UNCHANGED <<phase, dropped, refused, frame, actions, video, param>>
        /\ UNCHANGED <<paramCache, statCache, sequence>>
    BY DEF Rk!StatReady, Rk!cacheVars
  <1>3. BufferTaken
    <2>1. frame \in Nat /\ sequence \in Nat /\ video \subseteq pending
      BY DEF RkInv, Rk!TypeOK, RkActions
    <2>2. frame <= frame
      BY <2>1
    <2> QED
      BY <1>2, <2>1, <2>2 DEF BufferTaken
  <1>4. CASE /\ Rk!OfStat(p) = {}
             /\ UNCHANGED <<info, queue, complete, Rk!poolVars>>
    <2>1. UNCHANGED <<info, queue, complete, availableParam, availableStat>>
      BY <1>4 DEF Rk!poolVars
    <2>2. ~RkDevices
      BY <1>2, <1>4 DEF RkDevices, Rk!OfStat
    <2>3. refused # {} \/ Forsaken # {}
      BY <2>2 DEF RkInv, RkClean
    <2>4. Forsaken' = Forsaken
      BY <1>2, <2>1 DEF Forsaken
    <2>5. Rk!TypeOK' /\ QueueInv'
      BY <1>2, <2>1 DEF RkInv, Rk!TypeOK, QueueInv
    <2>6. Rk!Known' = Rk!Known /\ Waiting' = Waiting
      BY <2>1 DEF Rk!Known, Waiting
    <2>7. RkInfos' /\ RkActions'
      BY <1>2, <2>1, <2>6 DEF RkInv, RkInfos, RkActions
    <2>8. RkStopped'
      BY <1>2 DEF RkInv, RkStopped
    <2> QED
      BY <1>2, <2>1, <2>3, <2>4, <2>5, <2>7, <2>8 DEF RkInv
  <1>5. ASSUME NEW f \in Rk!OfStat(p), Rk!MetadataReady(f)
        PROVE  /\ RkInv' /\ Forsaken' = Forsaken /\ refused' = refused
               /\ Fifo!Next \/ UNCHANGED <<queue, complete>>
    <2> DEFINE inf == [info EXCEPT ![f].processed = TRUE]
               r == info[f].request
    <2>1. Rk!TryCompleteRequest(r, inf)
      BY <1>5 DEF Rk!MetadataReady
    <2>2. f \in Rk!Known /\ info[f].stat = p
      BY DEF Rk!OfStat
    <2>3. /\ inf \in [Rk!Frames -> Rk!FrameInfo \cup {NoInfo}]
          /\ inf[f] \in Rk!FrameInfo
          /\ inf[f].request = info[f].request /\ inf[f].param = info[f].param
          /\ inf[f].stat = info[f].stat /\ inf[f].filled = info[f].filled
          /\ inf[f].dequeued = info[f].dequeued /\ inf[f].processed
          /\ \A g \in Rk!Frames : g # f => inf[g] = info[g]
      <3>1. info \in [Rk!Frames -> Rk!FrameInfo \cup {NoInfo}] /\ f \in Rk!Frames
        BY <2>2, RkTypes
      <3>2. inf = [info EXCEPT ![f] = [info[f] EXCEPT !.processed = TRUE]]
        BY <3>1
      <3>3. info[f] \in Rk!FrameInfo
        BY <2>2, RkTypes
      <3> DEFINE new == [info[f] EXCEPT !.processed = TRUE]
      <3>4. /\ new \in Rk!FrameInfo
            /\ new.request = info[f].request /\ new.param = info[f].param
            /\ new.stat = info[f].stat /\ new.filled = info[f].filled
            /\ new.dequeued = info[f].dequeued /\ new.processed
        BY <3>3 DEF Rk!FrameInfo
      <3> HIDE DEF new
      <3>5. inf = [info EXCEPT ![f] = new]
        BY <3>2 DEF new
      <3> HIDE DEF inf
      <3> QED
        BY <3>1, <3>4, <3>5
    <2> HIDE DEF inf
    <2>4. SameInfos(inf)
      <3>1. \A g \in Rk!Frames : inf[g] = NoInfo <=> info[g] = NoInfo
        BY <2>2, <2>3, RkTypes, NoInfoAssumption
      <3>2. \A g \in Rk!Known :
              /\ inf[g].request = info[g].request
              /\ inf[g].param = info[g].param /\ inf[g].stat = info[g].stat
              /\ inf[g].filled = info[g].filled
        BY <2>3, RkTypes
      <3> QED
        BY <2>3, <3>1, <3>2 DEF SameInfos
    <2>5. ASSUME RkClean PROVE StillClean(r, inf)
      <3>1. RkRequests /\ RkBuffers /\ RkDevices /\ RkPools
        BY <2>5 DEF RkClean
      <3>2. \A g \in Rk!Known : info[g].stat = p => g = f
        BY <2>2, <3>1 DEF RkPools
      <3>3. f \notin actions /\ ~info[f].processed
        BY <1>2, <3>1, <3>2 DEF RkDevices
      <3>4. \A g \in Rk!Known : /\ g # f => inf[g] = info[g]
                                /\ inf[g].request = info[g].request
                                /\ inf[g].param = info[g].param
                                /\ inf[g].stat = info[g].stat
                                /\ inf[g].dequeued = info[g].dequeued
        BY <2>3, RkTypes
      <3>5. ASSUME NEW g \in Rk!Known
            PROVE  /\ g \in actions => ~inf[g].dequeued /\ ~inf[g].processed
                   /\ g \notin actions =>
                        /\ inf[g].dequeued \/ inf[g].param \in param'
                        /\ inf[g].processed \/ inf[g].stat \in stat'
                   /\ inf[g].request # r => \/ inf[g].request \in pending'
                                            \/ ~inf[g].processed
                                            \/ ~inf[g].dequeued
        <4>1. CASE g = f
          <5>1. info[f].dequeued \/ info[f].param \in param
            BY <2>2, <3>1, <3>3 DEF RkBuffers
          <5> QED
            BY <1>2, <2>3, <3>3, <4>1, <5>1
        <4>2. CASE g # f
          <5>1. inf[g] = info[g] /\ info[g].stat # p
            BY <3>2, <3>4, <4>2
          <5>2. /\ g \in actions => ~info[g].dequeued /\ ~info[g].processed
                /\ g \notin actions => /\ info[g].dequeued \/ info[g].param \in param
                                       /\ info[g].processed \/ info[g].stat \in stat
                /\ info[g].request \in pending \/ ~info[g].processed
                     \/ ~info[g].dequeued
            BY <3>1 DEF RkBuffers, RkRequests
          <5> QED
            BY <1>2, <5>1, <5>2
        <4> QED
          BY <4>1, <4>2
      <3>6. ASSUME NEW x \in stat'
            PROVE  \E g \in Rk!Known :
                      inf[g].stat = x /\ ~inf[g].processed /\ g \notin actions
        <4>1. x \in stat /\ x # p
          BY <1>2, <3>6
        <4>2. PICK g \in Rk!Known :
                info[g].stat = x /\ ~info[g].processed /\ g \notin actions
          BY <3>1, <4>1 DEF RkDevices
        <4>3. g # f
          BY <2>2, <4>1, <4>2
        <4> QED
          BY <3>4, <4>2, <4>3
      <3>7. \A x \in param' : \E g \in Rk!Known :
              inf[g].param = x /\ ~inf[g].dequeued /\ g \notin actions
        BY <1>2, <3>1, <3>4 DEF RkDevices
      <3> QED
        BY <3>5, <3>6, <3>7 DEF StillClean
    <2> HIDE DEF r
    <2> QED
      BY <1>3, <2>1, <2>4, <2>5, RkHandled
  <1> QED
    BY <1>4, <1>5 DEF Rk!StatReady

(* RkISP1ActionQueueBuffers::run(): the devices take all three buffers, or *)
(* not all of them.                                                        *)
LEMMA RkQueued ==
  ASSUME NEW i, i.filled, Rk!QueueBuffers(i)
  PROVE  /\ param \subseteq param' /\ param' \subseteq param \cup {i.param}
         /\ stat \subseteq stat' /\ stat' \subseteq stat \cup {i.stat}
         /\ video \subseteq video' /\ video' \subseteq video \cup {i.request}
         /\ \/ /\ param' = param \cup {i.param} /\ stat' = stat \cup {i.stat}
               /\ video' = video \cup {i.request} /\ refused' = refused
            \/ /\ param' = param \/ stat' = stat \/ video' = video
               /\ refused' = refused \cup {i.request}
  <1>1. PICK takes \in [{"param", "stat", "video"} -> BOOLEAN] :
          /\ param' = Rk!Queued(param, i.param, i.filled /\ takes["param"])
          /\ stat' = Rk!Queued(stat, i.stat, takes["stat"])
          /\ video' = Rk!Queued(video, i.request, takes["video"])
          /\ \/ /\ \A d \in DOMAIN takes : takes[d]
                /\ refused' = refused
             \/ /\ \E d \in DOMAIN takes : ~takes[d]
                /\ refused' = refused \cup {i.request}
    BY DEF Rk!QueueBuffers
  <1>2. DOMAIN takes = {"param", "stat", "video"}
    OBVIOUS
  <1> QED
    BY <1>1, <1>2 DEF Rk!Queued

(* In a clean state a step that leaves the info of r without a buffer that *)
(* it waits for loses r, and no other request.                             *)
LEMMA RkLoses ==
  ASSUME RkInv, RkClean, QueueInv', NEW r \in Waiting', NEW f \in Rk!Known',
         info'[f].request = r, f \notin actions',
         \A g \in Rk!Known' : info'[g].request = r => g = f,
         \A q \in Waiting' \ {r} : q \in Waiting,
         \A g \in Rk!Known : info[g].request # r =>
             /\ g \in Rk!Known' /\ info'[g] = info[g]
             /\ g \in actions => g \in actions',
         param \subseteq param', stat \subseteq stat', video \subseteq video',
         pending' \subseteq pending \cup {r},
         \/ ~info'[f].dequeued /\ info'[f].param \notin param'
         \/ ~info'[f].processed /\ info'[f].stat \notin stat'
         \/ r \in pending' /\ r \notin video'
  PROVE  Rk!Lost' = {r}
  <1>1. (Rk!Queue \ complete)' = Waiting' /\ Waiting' \subseteq Requests
    BY QueueElements DEF QueueInv, Rk!Queue, Rk!Elements, Waiting, ToSet
  <1>2. \A q, g : g \in Rk!OfRequest(q, info)'
                    <=> g \in Rk!Known' /\ info'[g].request = q
    BY DEF Rk!OfRequest, Rk!Known
  <1>3. Rk!Stuck(r)'
    BY <1>1, <1>2 DEF Rk!Stuck
  <1>4. ASSUME NEW q \in Requests, q # r, Rk!Stuck(q)' PROVE FALSE
    <2>1. q \in Waiting
      BY <1>1, <1>4 DEF Rk!Stuck
    <2>2. PICK g \in Rk!Known : info[g].request = q
      BY <2>1 DEF RkClean, RkRequests
    <2>3. /\ g \in Rk!Known' /\ info'[g] = info[g]
          /\ g \in actions => g \in actions'
      BY <1>4, <2>2
    <2>4. /\ g \notin actions'
          /\ \/ ~info[g].dequeued /\ info[g].param \notin param'
             \/ ~info[g].processed /\ info[g].stat \notin stat'
             \/ q \in pending' /\ q \notin video'
      BY <1>2, <1>4, <2>2, <2>3 DEF Rk!Stuck
    <2> QED
      BY <1>4, <2>2, <2>3, <2>4 DEF RkClean, RkBuffers
  <1> QED
    BY <1>1, <1>3, <1>4 DEF Rk!Lost

(* queueRequestDevice(): the request gets an info with buffers from the    *)
(* pools, and its buffers are queued at once or scheduled.                 *)
LEMMA RkQueueRequest ==
  ASSUME RkInv, NEW r \in Requests, Rk!QueueRequest(r)
  PROVE  /\ RkInv' /\ refused \subseteq refused'
         /\ (refused' = {} => Forsaken' = Forsaken)
         /\ (RkClean /\ refused = {} /\ refused' # {} => Rk!Lost' = refused')
         /\ Fifo!Next \/ UNCHANGED <<queue, complete>>
  <1> DEFINE p == Head(availableParam)
             s == Head(availableStat)
             new == Rk!ParamFilled(Rk!NewInfo(r))
  <1>1. /\ phase = "running" /\ phase' = "running"
        /\ frame < MaxFrame /\ frame' = frame + 1
        /\ availableParam # <<>> /\ availableStat # <<>>
        /\ queue' = Append(queue, r) /\ pending' = pending \cup {r}
        /\ info' = [info EXCEPT ![frame] = new]
        /\ availableParam' = Tail(availableParam)
        /\ availableStat' = Tail(availableStat)
        /\ UNCHANGED <<complete, dropped, paramCache, statCache, sequence>>
    BY DEF Rk!QueueRequest, Rk!Underrun, Rk!cacheVars
  <1>2. \/ /\ actions' = actions \cup {frame}
           /\ UNCHANGED <<video, param, stat, refused>>
        \/ Rk!QueueBuffers(info'[frame]) /\ actions' = actions
    BY DEF Rk!QueueRequest, Rk!deviceVars
  <1>3. /\ QueueInv /\ frame \in Nat /\ Rk!Frames \subseteq Nat
        /\ frame \in Rk!Frames
        /\ pending \subseteq Waiting /\ video \subseteq pending
        /\ video \subseteq Requests /\ param \subseteq Addresses
        /\ stat \subseteq Addresses
    BY <1>1, BoundsAssumption DEF RkInv, Rk!TypeOK, RkActions, Rk!Frames
  <1>4. r \notin ToSet(queue)
    BY <1>3, QueueElements DEF Rk!QueueRequest, QueueInv
  <1>5. /\ QueueInv' /\ Waiting' = Waiting \cup {r}
        /\ Fifo!Submit(r)
    BY <1>1, <1>3, <1>4, QueueSubmits
  <1>6. r \notin Waiting /\ r \notin pending /\ r \notin video
    BY <1>3, <1>4 DEF Waiting
  <1>7. /\ p \in Addresses /\ s \in Addresses
        /\ availableParam' \in Seq(Addresses) /\ availableStat' \in Seq(Addresses)
        /\ ToSet(availableParam') \subseteq ToSet(availableParam)
        /\ ToSet(availableStat') \subseteq ToSet(availableStat)
        /\ p \in ToSet(availableParam) /\ s \in ToSet(availableStat)
        /\ IsInjective(availableParam) =>
             IsInjective(availableParam') /\ p \notin ToSet(availableParam')
        /\ IsInjective(availableStat) =>
             IsInjective(availableStat') /\ s \notin ToSet(availableStat')
    <2>1. availableParam \in Seq(Addresses) /\ availableStat \in Seq(Addresses)
      BY RkTypes
    <2> QED
      BY <1>1, <2>1, PopFront
  <1>8. /\ new \in Rk!FrameInfo /\ new # NoInfo
        /\ new.request = r /\ new.param = p /\ new.stat = s
        /\ new.filled /\ ~new.dequeued /\ ~new.processed
    <2> DEFINE old == Rk!NewInfo(r)
    <2>1. old = [request |-> r, param |-> p, stat |-> s, filled |-> FALSE,
                 dequeued |-> FALSE, processed |-> FALSE]
      BY DEF Rk!NewInfo
    <2>2. new = [old EXCEPT !.filled = TRUE]
      BY DEF Rk!ParamFilled
    <2> HIDE DEF old, new, p, s
    <2>3. /\ old \in Rk!FrameInfo
          /\ old.request = r /\ old.param = p /\ old.stat = s
          /\ ~old.dequeued /\ ~old.processed
      BY <1>7, <2>1 DEF Rk!FrameInfo
    <2>4. /\ new \in Rk!FrameInfo
          /\ new.request = old.request /\ new.param = old.param
          /\ new.stat = old.stat /\ new.dequeued = old.dequeued
          /\ new.processed = old.processed /\ new.filled
      BY <2>2, <2>3 DEF Rk!FrameInfo
    <2> QED
      BY <2>3, <2>4, NoInfoAssumption
  <1> HIDE DEF new, p, s
  <1>9. /\ info' \in [Rk!Frames -> Rk!FrameInfo \cup {NoInfo}]
        /\ info'[frame] = new
        /\ \A f \in Rk!Frames : f # frame => info'[f] = info[f]
    BY <1>1, <1>3, <1>8, RkTypes
  <1>10. /\ Rk!Known' = Rk!Known \cup {frame}
         /\ \A f \in Rk!Known : f # frame => info'[f] = info[f]
    BY <1>3, <1>8, <1>9 DEF Rk!Known
  <1>11. \A f \in actions : /\ f \in Rk!Known /\ f # frame /\ f \in Nat
                            /\ f < frame + 1
                            /\ info[f].request \in pending \ video
    BY <1>3 DEF RkInv, RkActions, Rk!TypeOK
  <1>19. \/ /\ actions' = actions \cup {frame}
            /\ UNCHANGED <<video, param, stat, refused>>
         \/ /\ actions' = actions
            /\ param' = param \cup {p} /\ stat' = stat \cup {s}
            /\ video' = video \cup {r} /\ refused' = refused
         \/ /\ actions' = actions
            /\ param \subseteq param' /\ param' \subseteq param \cup {p}
            /\ stat \subseteq stat' /\ stat' \subseteq stat \cup {s}
            /\ video \subseteq video' /\ video' \subseteq video \cup {r}
            /\ param' = param \/ stat' = stat \/ video' = video
            /\ refused' = refused \cup {r}
    BY <1>2, <1>8, <1>9, RkQueued
  <1>12. /\ \/ /\ actions' = actions \cup {frame}
               /\ UNCHANGED <<video, param, stat>>
            \/ /\ actions' = actions
               /\ param' \subseteq param \cup {p} /\ stat' \subseteq stat \cup {s}
               /\ video' \subseteq video \cup {r}
         /\ refused \subseteq refused' /\ refused' \subseteq refused \cup {r}
    BY <1>19
  <1>13. RkInfos'
    <2>1. \A f \in Rk!Known' : info'[f].request \in Waiting' /\ info'[f].filled
      BY <1>5, <1>8, <1>9, <1>10, RkTypes
    <2>2. ASSUME NEW f \in Rk!Known', NEW g \in Rk!Known',
                 info'[f].request = info'[g].request
          PROVE  f = g
      <3>1. \A h \in Rk!Known : info[h].request # r
        BY <1>6, RkTypes
      <3>2. \A h, k \in Rk!Known : info[h].request = info[k].request => h = k
        BY DEF RkInv, RkInfos
      <3> QED
        BY <1>8, <1>9, <1>10, <2>2, <3>1, <3>2
    <2> QED
      BY <2>1, <2>2 DEF RkInfos
  <1>14. RkActions'
    <2>1. ASSUME NEW f \in actions'
          PROVE  /\ f \in Rk!Known' /\ f < frame'
                 /\ info'[f].request \in pending' \ video'
      <3>1. CASE f \in actions
        BY <1>1, <1>6, <1>10, <1>11, <1>12, <3>1
      <3>2. CASE f \notin actions
        <4>1. f = frame /\ video' = video
          BY <1>12, <2>1, <3>2
        <4>2. frame < frame'
          BY <1>1, <1>3
        <4> QED
          BY <1>1, <1>6, <1>8, <1>9, <1>10, <4>1, <4>2
      <3> QED
        BY <3>1, <3>2
    <2>2. video' \subseteq pending' /\ pending' \subseteq Waiting'
      BY <1>1, <1>3, <1>5, <1>12
    <2> QED
      BY <2>1, <2>2 DEF RkActions
  <1>15. RkStopped'
    BY <1>1 DEF RkStopped
  <1>16. Rk!TypeOK'
    <2>1. queue' \in Seq(Requests) /\ complete' \subseteq Rk!Elements(queue)'
      BY <1>5 DEF QueueInv, Rk!Elements, ToSet
    <2>2. /\ video' \subseteq Requests /\ param' \subseteq Addresses
          /\ stat' \subseteq Addresses /\ pending' \subseteq Requests
          /\ frame' \in Nat
      BY <1>1, <1>3, <1>7, <1>12, RkTypes
    <2>3. actions' \subseteq Rk!Frames
      BY <1>3, <1>12 DEF RkInv, Rk!TypeOK
    <2>4. refused' \subseteq Requests
      BY <1>12 DEF RkInv, Rk!TypeOK
    <2> QED
      BY <1>1, <1>7, <1>9, <2>1, <2>2, <2>3, <2>4 DEF RkInv, Rk!TypeOK
  <1>17. ASSUME refused' = {} PROVE Forsaken' = Forsaken
    <2>10. \/ /\ actions' = actions \cup {frame}
              /\ UNCHANGED <<video, param, stat>>
           \/ /\ actions' = actions
              /\ param' = param \cup {p} /\ stat' = stat \cup {s}
              /\ video' = video \cup {r}
      BY <1>17, <1>19
    <2>1. ASSUME NEW q \in pending \ video
          PROVE  (\A f \in Rk!OfRequest(q, info') : f \notin actions')
                   <=> (\A f \in Rk!OfRequest(q, info) : f \notin actions)
      <3>1. q # r
        BY <1>6
      <3>2. \A f \in actions : f \in Rk!OfRequest(q, info')
                                 <=> f \in Rk!OfRequest(q, info)
        <4>1. \A f \in actions : f \in Rk!Frames /\ info'[f] = info[f]
          BY <1>10, <1>11, RkTypes
        <4> QED
          BY <4>1 DEF Rk!OfRequest
      <3>3. frame \notin Rk!OfRequest(q, info')
        BY <1>8, <1>9, <3>1 DEF Rk!OfRequest
      <3>4. actions \subseteq actions' /\ actions' \subseteq actions \cup {frame}
        BY <2>10
      <3> QED
        BY <3>2, <3>3, <3>4
    <2>2. r \in pending' \ video' =>
            ~ (\A f \in Rk!OfRequest(r, info') : f \notin actions')
      <3>1. frame \in Rk!OfRequest(r, info')
        BY <1>3, <1>8, <1>9 DEF Rk!OfRequest
      <3>2. r \notin video' => frame \in actions'
        BY <2>10
      <3> QED
        BY <3>1, <3>2
    <2>3. (pending' \ video') \ {r} = pending \ video
      BY <1>1, <1>6, <2>10
    <2>4. r \notin Forsaken /\ r \notin Forsaken'
      BY <1>6, <2>2 DEF Forsaken
    <2>5. ASSUME NEW q, q # r PROVE q \in Forsaken' <=> q \in Forsaken
      BY <2>1, <2>3, <2>5 DEF Forsaken
    <2> QED
      BY <2>4, <2>5
  <1>18. ASSUME RkClean, refused' = {} PROVE RkClean'
    <2>10. \/ /\ actions' = actions \cup {frame}
              /\ UNCHANGED <<video, param, stat>>
           \/ /\ actions' = actions
              /\ param' = param \cup {p} /\ stat' = stat \cup {s}
              /\ video' = video \cup {r}
      BY <1>18, <1>19
    <2>1. RkRequests /\ RkBuffers /\ RkDevices /\ RkPools
      BY <1>18 DEF RkClean
    <2>2. \A f \in Rk!Known : f \in Nat /\ f < frame /\ f # frame
      <3>1. \A f \in Rk!Known : f \in Nat
        BY <1>3 DEF Rk!Known
      <3>2. \A f \in Rk!Known : f < frame
        BY <2>1 DEF RkRequests
      <3> QED
        BY <1>3, <3>1, <3>2
    <2>3. \A f \in Rk!Known : info'[f] = info[f] /\ info[f].request # r
      BY <1>6, <1>10, <2>2, RkTypes
    <2>4. RkRequests'
      <3>1. \A q \in Waiting' : \E f \in Rk!Known' : info'[f].request = q
        BY <1>5, <1>8, <1>9, <1>10, <2>1, <2>3 DEF RkRequests
      <3>2. ASSUME NEW f \in Rk!Known'
            PROVE  /\ f < frame'
                   /\ info'[f].request \in pending' \/ ~info'[f].processed
                        \/ ~info'[f].dequeued
        <4>1. CASE f = frame
          BY <1>1, <1>3, <1>8, <1>9, <4>1
        <4>2. CASE f \in Rk!Known
          <5>1. f < frame'
            BY <1>1, <1>3, <2>2, <4>2
          <5> QED
            BY <1>1, <2>1, <2>3, <4>2, <5>1 DEF RkRequests
        <4> QED
          BY <1>10, <3>2, <4>1, <4>2
      <3> QED
        BY <3>1, <3>2 DEF RkRequests
    <2>5. RkBuffers'
      <3> SUFFICES ASSUME NEW f \in Rk!Known'
                   PROVE  /\ f \in actions' => ~info'[f].dequeued /\ ~info'[f].processed
                          /\ f \notin actions' =>
                               /\ info'[f].request \in pending' => info'[f].request \in video'
                               /\ info'[f].dequeued \/ info'[f].param \in param'
                               /\ info'[f].processed \/ info'[f].stat \in stat'
        BY DEF RkBuffers
      <3>1. CASE f = frame
        BY <1>8, <1>9, <2>10, <3>1
      <3>2. CASE f \in Rk!Known
        <4>1. f \in actions' <=> f \in actions
          BY <2>10, <2>2, <3>2
        <4>2. video \subseteq video' /\ param \subseteq param' /\ stat \subseteq stat'
          BY <2>10
        <4> QED
          BY <1>1, <2>1, <2>3, <3>2, <4>1, <4>2 DEF RkBuffers
      <3> QED
        BY <1>10, <3>1, <3>2
    <2>6. RkDevices'
      <3>1. \A f \in Rk!Known : f \in Rk!Known' /\ (f \notin actions => f \notin actions')
        BY <1>10, <2>10, <2>2
      <3>2. ASSUME NEW x \in param'
            PROVE  \E f \in Rk!Known' : /\ info'[f].param = x /\ ~info'[f].dequeued
                                        /\ f \notin actions'
        <4>1. CASE x \in param
          BY <2>1, <2>3, <3>1, <4>1 DEF RkDevices
        <4>2. CASE x \notin param
          <5>1. x = p /\ actions' = actions
            BY <2>10, <3>2, <4>2
          <5>2. frame \notin actions'
            BY <1>11, <5>1
          <5> QED
            BY <1>8, <1>9, <1>10, <5>1, <5>2
        <4> QED
          BY <4>1, <4>2
      <3>3. ASSUME NEW x \in stat'
            PROVE  \E f \in Rk!Known' : /\ info'[f].stat = x /\ ~info'[f].processed
                                        /\ f \notin actions'
        <4>1. CASE x \in stat
          BY <2>1, <2>3, <3>1, <4>1 DEF RkDevices
        <4>2. CASE x \notin stat
          <5>1. x = s /\ actions' = actions
            BY <2>10, <3>3, <4>2
          <5>2. frame \notin actions'
            BY <1>11, <5>1
          <5> QED
            BY <1>8, <1>9, <1>10, <5>1, <5>2
        <4> QED
          BY <4>1, <4>2
      <3> QED
        BY <3>2, <3>3 DEF RkDevices
    <2>7. RkPools'
      <3>1. /\ IsInjective(availableParam) /\ IsInjective(availableStat)
            /\ \A f \in Rk!Known : /\ info[f].param \notin ToSet(availableParam)
                                   /\ info[f].stat \notin ToSet(availableStat)
            /\ \A f, g \in Rk!Known :
                 info[f].param = info[g].param \/ info[f].stat = info[g].stat => f = g
        BY <2>1 DEF RkPools
      <3>2. \A f \in Rk!Known : info[f].param # p /\ info[f].stat # s
        BY <1>7, <3>1
      <3>3. \A f \in Rk!Known' : /\ info'[f].param \notin ToSet(availableParam')
                                 /\ info'[f].stat \notin ToSet(availableStat')
        BY <1>7, <1>8, <1>9, <1>10, <2>3, <3>1
      <3>4. \A f, g \in Rk!Known' :
              info'[f].param = info'[g].param \/ info'[f].stat = info'[g].stat => f = g
        BY <1>8, <1>9, <1>10, <2>3, <3>1, <3>2
      <3> QED
        BY <1>7, <3>1, <3>3, <3>4 DEF RkPools
    <2> QED
      BY <2>4, <2>5, <2>6, <2>7 DEF RkClean
  <1>20. ASSUME RkClean, refused = {}, refused' # {} PROVE Rk!Lost' = refused'
    <2>1. RkRequests /\ RkDevices /\ RkPools
      BY <1>20 DEF RkClean
    <2>2. /\ actions' = actions
          /\ param \subseteq param' /\ stat \subseteq stat'
          /\ video \subseteq video'
          /\ param' = param \/ stat' = stat \/ video' = video
          /\ refused' = {r}
      BY <1>19, <1>20
    <2>3. \A g \in Rk!Known : g \in Nat /\ g # frame
      <3>1. \A g \in Rk!Known : g \in Nat
        BY <1>3 DEF Rk!Known
      <3>2. \A g \in Rk!Known : g < frame
        BY <2>1 DEF RkRequests
      <3> QED
        BY <1>3, <3>1, <3>2
    <2>4. \A g \in Rk!Known : /\ g \in Rk!Known' /\ info'[g] = info[g]
                               /\ info[g].param # p /\ info[g].stat # s
      BY <1>7, <1>10, <2>1, <2>3 DEF RkPools
    <2>5. p \notin param /\ s \notin stat
      BY <2>1, <2>4 DEF RkDevices
    <2>6. /\ frame \in Rk!Known' /\ info'[frame].request = r
          /\ frame \notin actions' /\ r \in Waiting'
      BY <1>5, <1>8, <1>9, <1>10, <1>11, <2>2
    <2>7. \A g \in Rk!Known' : info'[g].request = r => g = frame
      BY <1>13, <2>6 DEF RkInfos
    <2>8. \/ ~info'[frame].dequeued /\ info'[frame].param \notin param'
          \/ ~info'[frame].processed /\ info'[frame].stat \notin stat'
          \/ r \in pending' /\ r \notin video'
      BY <1>1, <1>6, <1>8, <1>9, <2>2, <2>5
    <2>9. Rk!Lost' = {r}
      BY <1>1, <1>5, <1>20, <2>2, <2>4, <2>6, <2>7, <2>8, RkLoses
    <2> QED
      BY <2>2, <2>9
  <1> QED
    BY <1>5, <1>12, <1>13, <1>14, <1>15, <1>16, <1>17, <1>18, <1>20
       DEF RkInv, Fifo!Next

(* Timeline::timeout() runs an action: what was scheduled is now in the    *)
(* devices.                                                                *)
LEMMA RkTimeout ==
  ASSUME RkInv, NEW f \in Rk!Frames, Rk!Timeout(f)
  PROVE  /\ RkInv' /\ refused \subseteq refused'
         /\ (refused' = {} => Forsaken' = Forsaken)
         /\ (RkClean /\ refused = {} /\ refused' # {} => Rk!Lost' = refused')
         /\ UNCHANGED <<queue, complete>>
  <1> DEFINE r == info[f].request
  <1>1. /\ phase = "running" /\ f \in actions /\ actions' = actions \ {f}
        /\ Rk!QueueBuffers(info[f])
        /\ UNCHANGED <<phase, queue, complete, pending, dropped, frame, info,
                       availableParam, availableStat, paramCache, statCache,
                       sequence>>
    BY DEF Rk!Timeout, Rk!requestVars, Rk!poolVars, Rk!cacheVars
  <1>2. /\ f \in Rk!Known /\ r \in pending \ video
        /\ \A g \in actions : g \in Rk!Known /\ info[g].request \in pending \ video
        /\ \A g, h \in Rk!Known : info[g].request = info[h].request => g = h
        /\ video \subseteq pending
    BY <1>1 DEF RkInv, RkActions, RkInfos
  <1>11. /\ info[f].param \in Addresses /\ info[f].stat \in Addresses
         /\ r \in Requests /\ info[f].filled
    BY <1>1, <1>2, RkTypes
  <1>12. \/ /\ param' = param \cup {info[f].param}
            /\ stat' = stat \cup {info[f].stat}
            /\ video' = video \cup {r} /\ refused' = refused
         \/ /\ param' = param \/ stat' = stat \/ video' = video
            /\ refused' = refused \cup {r}
    BY <1>1, <1>11, RkQueued
  <1>3. /\ param \subseteq param' /\ param' \subseteq param \cup {info[f].param}
        /\ stat \subseteq stat' /\ stat' \subseteq stat \cup {info[f].stat}
        /\ video \subseteq video' /\ video' \subseteq video \cup {r}
        /\ info[f].param \in Addresses /\ info[f].stat \in Addresses
        /\ r \in Requests
        /\ refused \subseteq refused' /\ refused' \subseteq refused \cup {r}
    BY <1>1, <1>11, RkQueued
  <1>4. Rk!Known' = Rk!Known /\ Waiting' = Waiting
    BY <1>1 DEF Rk!Known, Waiting
  <1>5. Rk!TypeOK' /\ QueueInv'
    <2>1. QueueInv'
      BY <1>1 DEF RkInv, QueueInv
    <2>2. /\ video' \subseteq Requests /\ param' \subseteq Addresses
          /\ stat' \subseteq Addresses /\ refused' \subseteq Requests
      BY <1>3 DEF RkInv, Rk!TypeOK
    <2>3. actions' \subseteq Rk!Frames
      BY <1>1 DEF RkInv, Rk!TypeOK
    <2> QED
      BY <1>1, <2>1, <2>2, <2>3 DEF RkInv, Rk!TypeOK
  <1>6. RkInfos' /\ RkStopped'
    BY <1>1, <1>4 DEF RkInv, RkInfos, RkStopped
  <1> HIDE DEF r
  <1>7. \A g \in actions' : info[g].request # r /\ g \in actions
    BY <1>1, <1>2 DEF r
  <1>8. RkActions'
    BY <1>1, <1>2, <1>3, <1>4, <1>7 DEF RkInv, RkActions
  <1>9. ASSUME refused' = {} PROVE Forsaken' = Forsaken
    <2>10. /\ param' = param \cup {info[f].param}
           /\ stat' = stat \cup {info[f].stat} /\ video' = video \cup {r}
      BY <1>9, <1>12
    <2>1. f \in Rk!OfRequest(r, info)
      BY <1>2 DEF Rk!OfRequest, Rk!Known, r
    <2>2. r \notin Forsaken
      BY <1>1, <2>1 DEF Forsaken
    <2>3. r \notin Forsaken'
      BY <2>10 DEF Forsaken
    <2>4. ASSUME NEW q, q # r PROVE q \in Forsaken' <=> q \in Forsaken
      <3>1. f \notin Rk!OfRequest(q, info)
        BY <2>4 DEF Rk!OfRequest, r
      <3> QED
        BY <1>1, <2>10, <2>4, <3>1 DEF Forsaken
    <2> QED
      BY <2>2, <2>3, <2>4
  <1>10. ASSUME RkClean, refused' = {} PROVE RkClean'
    <2>10. /\ param' = param \cup {info[f].param}
           /\ stat' = stat \cup {info[f].stat} /\ video' = video \cup {r}
      BY <1>10, <1>12
    <2>1. RkRequests /\ RkBuffers /\ RkDevices /\ RkPools
      BY <1>10 DEF RkClean
    <2>2. RkRequests' /\ RkPools'
      BY <1>1, <1>4, <2>1 DEF RkRequests, RkPools
    <2>3. ~info[f].dequeued /\ ~info[f].processed
      BY <1>1, <1>2, <2>1 DEF RkBuffers
    <2>4. ASSUME NEW g \in Rk!Known
          PROVE  /\ g \in actions' => ~info[g].dequeued /\ ~info[g].processed
                 /\ g \notin actions' =>
                      /\ info[g].request \in pending => info[g].request \in video'
                      /\ info[g].dequeued \/ info[g].param \in param'
                      /\ info[g].processed \/ info[g].stat \in stat'
      <3>1. CASE g = f
        BY <1>1, <2>10, <3>1 DEF r
      <3>2. CASE g # f
        <4>1. g \in actions' <=> g \in actions
          BY <1>1, <3>2
        <4>2. video \subseteq video' /\ param \subseteq param' /\ stat \subseteq stat'
          BY <2>10
        <4> QED
          BY <2>1, <4>1, <4>2 DEF RkBuffers
      <3> QED
        BY <3>1, <3>2
    <2>5. RkBuffers'
      BY <1>1, <1>4, <2>4 DEF RkBuffers
    <2>6. ASSUME NEW x \in param'
          PROVE  \E g \in Rk!Known :
                    info[g].param = x /\ ~info[g].dequeued /\ g \notin actions'
      <3>1. CASE x \in param
        BY <1>1, <2>1, <3>1 DEF RkDevices
      <3>2. CASE x = info[f].param
        BY <1>1, <1>2, <2>3, <3>2
      <3> QED
        BY <2>10, <2>6, <3>1, <3>2
    <2>7. ASSUME NEW x \in stat'
          PROVE  \E g \in Rk!Known :
                    info[g].stat = x /\ ~info[g].processed /\ g \notin actions'
      <3>1. CASE x \in stat
        BY <1>1, <2>1, <3>1 DEF RkDevices
      <3>2. CASE x = info[f].stat
        BY <1>1, <1>2, <2>3, <3>2
      <3> QED
        BY <2>10, <2>7, <3>1, <3>2
    <2>8. RkDevices'
      BY <1>1, <1>4, <2>6, <2>7 DEF RkDevices
    <2> QED
      BY <2>2, <2>5, <2>8 DEF RkClean
  <1>13. ASSUME RkClean, refused = {}, refused' # {} PROVE Rk!Lost' = refused'
    <2>1. RkBuffers /\ RkDevices /\ RkPools
      BY <1>13 DEF RkClean
    <2>2. /\ param' = param \/ stat' = stat \/ video' = video
          /\ refused' = {r}
      BY <1>12, <1>13
    <2>3. info[f].param \notin param /\ info[f].stat \notin stat
      BY <1>1, <1>2, <2>1 DEF RkDevices, RkPools
    <2>4. ~info[f].dequeued /\ ~info[f].processed
      BY <1>1, <1>2, <2>1 DEF RkBuffers
    <2>5. /\ f \in Rk!Known' /\ info'[f].request = r /\ f \notin actions'
          /\ r \in Waiting'
      BY <1>1, <1>2, <1>4, <1>8 DEF RkActions, r
    <2>6. /\ \A g \in Rk!Known' : info'[g].request = r => g = f
          /\ \A g \in Rk!Known : info[g].request # r =>
               /\ g \in Rk!Known' /\ info'[g] = info[g]
               /\ g \in actions => g \in actions'
      BY <1>1, <1>2, <1>4 DEF r
    <2>7. \/ ~info'[f].dequeued /\ info'[f].param \notin param'
          \/ ~info'[f].processed /\ info'[f].stat \notin stat'
          \/ r \in pending' /\ r \notin video'
      BY <1>1, <1>2, <2>2, <2>3, <2>4
    <2>8. Rk!Lost' = {r}
      BY <1>1, <1>3, <1>4, <1>5, <1>13, <2>5, <2>6, <2>7, RkLoses
    <2> QED
      BY <2>2, <2>8
  <1> QED
    BY <1>1, <1>3, <1>5, <1>6, <1>8, <1>9, <1>10, <1>13 DEF RkInv

(* A step that only moves stop() on, refuses a request or fails to         *)
(* allocate buffers.                                                       *)
LEMMA RkIdle ==
  ASSUME RkInv,
         \/ Rk!AllocateBuffersFails \/ Rk!Stop
         \/ Rk!VideoStopped \/ Rk!StatStopped
         \/ \E r \in Requests : Rk!QueueRequestFails(r)
  PROVE  /\ RkInv' /\ Forsaken' = Forsaken /\ refused' = refused
         /\ phase' = "stopped" => phase = "stopped"
         /\ UNCHANGED <<queue, complete>>
  <1>1. /\ UNCHANGED <<queue, complete, pending, refused, frame, info, actions,
                       availableParam, availableStat, video, param, stat,
                       statCache, sequence>>
    BY DEF Rk!AllocateBuffersFails, Rk!Stop, Rk!VideoStopped, Rk!StatStopped,
           Rk!QueueRequestFails, Rk!requestVars, Rk!poolVars, Rk!deviceVars,
           Rk!cacheVars
  <1>2. /\ phase \in {"stopped", "running", "stopVideo", "stopStat", "stopParam"}
        /\ dropped \subseteq Requests /\ paramCache \in BOOLEAN
    BY DEF RkInv, Rk!TypeOK
  <1>3. dropped' \subseteq Requests /\ paramCache' \in BOOLEAN
    BY <1>2 DEF Rk!AllocateBuffersFails, Rk!Stop, Rk!VideoStopped,
                Rk!StatStopped, Rk!QueueRequestFails, Rk!requestVars,
                Rk!cacheVars
  <1>4. \/ phase' = phase
        \/ phase = "running" /\ phase' = "stopVideo"
        \/ phase = "stopVideo" /\ phase' = "stopStat" /\ video = {}
        \/ phase = "stopStat" /\ phase' = "stopParam" /\ stat = {}
    BY DEF Rk!AllocateBuffersFails, Rk!Stop, Rk!VideoStopped, Rk!StatStopped,
           Rk!QueueRequestFails
  <1>5. Rk!TypeOK'
    BY <1>1, <1>2, <1>3, <1>4 DEF RkInv, Rk!TypeOK
  <1>6. RkStopped'
    BY <1>1, <1>4 DEF RkInv, RkStopped
  <1>7. Rk!Known' = Rk!Known /\ Waiting' = Waiting /\ Forsaken' = Forsaken
    BY <1>1 DEF Rk!Known, Waiting, Forsaken
  <1>8. QueueInv' /\ RkInfos' /\ RkActions'
    BY <1>1, <1>7 DEF RkInv, QueueInv, RkInfos, RkActions
  <1>9. RkClean => RkClean'
    BY <1>1, <1>7 DEF RkClean, RkRequests, RkBuffers, RkDevices, RkPools
  <1> QED
    BY <1>1, <1>4, <1>5, <1>6, <1>7, <1>8, <1>9 DEF RkInv

(* A session begins or ends with empty devices: unless a request was left  *)
(* behind, no request is in the queue and there is no info.                *)
LEMMA RkSession ==
  ASSUME RkInv,
         UNCHANGED <<queue, complete, pending, dropped, refused, info>>,
         UNCHANGED <<video, param, stat>>,
         sequence' \in Nat,
         video = {}, param = {}, stat = {}, actions' = {},
         phase' \in {"stopped", "running"}, frame' \in Nat,
         availableParam' \in Seq(Addresses), availableStat' \in Seq(Addresses),
         IsInjective(availableParam'), IsInjective(availableStat'),
         paramCache' \in BOOLEAN, statCache' \in BOOLEAN
  PROVE  RkInv' /\ Forsaken \subseteq Forsaken'
  <1>1. /\ UNCHANGED <<queue, complete, pending, dropped, refused, info>>
        /\ UNCHANGED <<video, param, stat>>
    OBVIOUS
  <1>2. Rk!TypeOK'
    BY <1>1 DEF RkInv, Rk!TypeOK
  <1>3. Rk!Known' = Rk!Known /\ Waiting' = Waiting
    BY <1>1 DEF Rk!Known, Waiting
  <1>4. QueueInv' /\ RkInfos' /\ RkActions' /\ RkStopped'
    BY <1>1, <1>3 DEF RkInv, QueueInv, RkInfos, RkActions, RkStopped
  <1>5. Forsaken' = pending
    BY <1>1 DEF Forsaken
  <1>6. Forsaken \subseteq Forsaken'
    BY <1>5 DEF Forsaken
  <1>7. ASSUME refused' = {}, Forsaken' = {} PROVE RkClean'
    <2>1. RkRequests /\ RkBuffers /\ pending = {}
      BY <1>1, <1>5, <1>6, <1>7 DEF RkInv, RkClean
    <2>2. actions = {}
      BY <2>1 DEF RkInv, RkActions
    <2>3. Rk!Known = {}
      BY <2>1, <2>2 DEF RkRequests, RkBuffers
    <2>4. Waiting = {}
      BY <2>1, <2>3 DEF RkRequests
    <2> QED
      BY <1>1, <1>3, <2>3, <2>4
         DEF RkClean, RkRequests, RkBuffers, RkDevices, RkPools
  <1> QED
    BY <1>2, <1>4, <1>6, <1>7 DEF RkInv

(* start(), in success and in failure, and the end of stop().              *)
LEMMA RkStartStop ==
  ASSUME RkInv,
         \/ \E A \in Rk!Allocations : Rk!Start(A)
         \/ Rk!StreamOnFails \/ Rk!ParamStopped
  PROVE  /\ RkInv' /\ UNCHANGED <<queue, complete, refused>>
         /\ phase = "stopped" => Forsaken' = Forsaken
         /\ phase' # "stopped" => phase = "stopped"
         /\ phase # "stopped" => Rk!ParamStopped
  <1>1. /\ phase \in {"stopped", "stopParam"}
        /\ phase = "stopParam" => param = {}
    BY DEF Rk!Start, Rk!StreamOnFails, Rk!ParamStopped
  <1>2. video = {} /\ param = {} /\ stat = {}
    BY <1>1 DEF RkInv, RkStopped
  <1>3. /\ UNCHANGED <<queue, complete, pending, dropped, refused, info>>
        /\ UNCHANGED <<video, param, stat>>
    BY DEF Rk!Start, Rk!StreamOnFails, Rk!ParamStopped, Rk!requestVars,
           Rk!deviceVars
  <1>4. /\ sequence' \in Nat /\ frame' \in Nat /\ phase' \in {"stopped", "running"}
        /\ paramCache' \in BOOLEAN /\ statCache' \in BOOLEAN
    <2>1. sequence \in Nat /\ frame \in Nat
      BY DEF RkInv, Rk!TypeOK
    <2>2. CASE \E A \in Rk!Allocations : Rk!Start(A)
      BY <2>2 DEF Rk!Start
    <2>3. CASE Rk!StreamOnFails
      BY <2>1, <2>3, <1>1 DEF Rk!StreamOnFails, Rk!FreeBuffers
    <2>4. CASE Rk!ParamStopped
      BY <2>1, <2>4 DEF Rk!ParamStopped, Rk!FreeBuffers
    <2> QED
      BY <2>2, <2>3, <2>4
  <1>5. actions' = {}
    BY DEF RkInv, RkStopped, Rk!Start, Rk!StreamOnFails, Rk!ParamStopped
  <1>6. /\ availableParam' \in Seq(Addresses) /\ availableStat' \in Seq(Addresses)
        /\ IsInjective(availableParam') /\ IsInjective(availableStat')
    <2>1. CASE availableParam' = <<>> /\ availableStat' = <<>>
      BY <2>1 DEF IsInjective
    <2>2. ASSUME NEW A \in Rk!Allocations
          PROVE  A \in Seq(Addresses) /\ IsInjective(A)
      <3>1. /\ A \in [1 .. BufferCount -> Addresses] /\ BufferCount \in Nat
            /\ Addresses \subseteq Nat
            /\ \A i, j \in 1 .. BufferCount : i < j => A[i] < A[j]
        BY BoundsAssumption DEF Rk!Allocations
      <3>2. ASSUME NEW i \in 1 .. BufferCount, NEW j \in 1 .. BufferCount,
                   A[i] = A[j]
            PROVE  i = j
        <4>1. A[i] \in Nat /\ A[j] \in Nat /\ i \in Nat /\ j \in Nat
          <5>1. A[i] \in Addresses /\ A[j] \in Addresses
            BY <3>1
          <5>2. i \in Nat /\ j \in Nat
            OBVIOUS
          <5>3. Addresses \subseteq Nat
            BY BoundsAssumption
          <5> QED
            BY <5>1, <5>2, <5>3
        <4>2. ~(i < j) /\ ~(j < i)
          BY <3>1, <3>2, <4>1
        <4> QED
          BY <4>1, <4>2
      <3>3. IsInjective(A)
        BY <3>1, <3>2 DEF IsInjective
      <3> QED
        BY <3>1, <3>3
    <2> QED
      BY <2>1, <2>2 DEF Rk!Start, Rk!StreamOnFails, Rk!ParamStopped,
                        Rk!FreeBuffers
  <1>7. RkInv'
    BY <1>2, <1>3, <1>4, <1>5, <1>6, RkSession
  <1>8. phase = "stopped" => Forsaken' = Forsaken
    <2>1. phase = "stopped" => actions = {}
      BY DEF RkInv, RkStopped
    <2> QED
      BY <1>3, <1>5, <2>1 DEF Forsaken
  <1>9. /\ phase' # "stopped" => phase = "stopped"
        /\ phase # "stopped" => Rk!ParamStopped
    BY DEF Rk!Start, Rk!StreamOnFails, Rk!ParamStopped
  <1> QED
    BY <1>3, <1>7, <1>8, <1>9

(* The end of stop() from a clean state: the requests that are still there *)
(* are those whose action has not run, and they are lost.                  *)
LEMMA RkStopDrops ==
  ASSUME RkInv, RkClean, Rk!ParamStopped
  PROVE  Rk!Lost' = {info[f].request : f \in actions}
  <1>1. /\ phase = "stopParam" /\ param = {} /\ actions' = {}
        /\ UNCHANGED <<queue, complete, pending, info, video, param, stat>>
    BY DEF Rk!ParamStopped, Rk!requestVars, Rk!deviceVars
  <1>2. video = {} /\ stat = {}
    BY <1>1 DEF RkInv, RkStopped
  <1>3. RkRequests /\ RkBuffers
    BY DEF RkClean
  <1>4. Rk!Known \subseteq actions
    BY <1>1, <1>2, <1>3 DEF RkRequests, RkBuffers
  <1>5. /\ (Rk!Queue \ complete)' = Waiting /\ Waiting \subseteq Requests
        /\ \A f \in Rk!Known : info[f].request \in Waiting
    BY <1>1, QueueElements
       DEF RkInv, RkInfos, QueueInv, Rk!Queue, Rk!Elements, Waiting, ToSet
  <1>6. \A q, g : g \in Rk!OfRequest(q, info)'
                    <=> g \in Rk!Known /\ info[g].request = q
    BY <1>1 DEF Rk!OfRequest, Rk!Known
  <1>7. \A f \in actions : /\ f \in Rk!Known
                            /\ info[f].request \in pending
    BY DEF RkInv, RkActions
  <1>8. ASSUME NEW q \in Requests
        PROVE  Rk!Stuck(q)' <=> q \in Waiting
    <2>1. ASSUME NEW f \in Rk!OfRequest(q, info)' PROVE q \in pending
      BY <1>4, <1>6, <1>7, <2>1
    <2> QED
      BY <1>1, <1>2, <1>5, <2>1 DEF Rk!Stuck
  <1>9. Waiting = {info[f].request : f \in actions}
    BY <1>3, <1>4, <1>5, <1>7 DEF RkRequests
  <1> QED
    BY <1>5, <1>8, <1>9 DEF Rk!Lost

(* The pipeline handler that no one has started.                           *)
LEMMA RkInit == Rk!Init => RkInv
  <1> SUFFICES ASSUME Rk!Init PROVE RkInv
    OBVIOUS
  <1>1. /\ queue = <<>> /\ complete = {} /\ pending = {} /\ actions = {}
        /\ video = {} /\ param = {} /\ stat = {}
        /\ availableParam = <<>> /\ availableStat = <<>>
        /\ info = [f \in Rk!Frames |-> NoInfo] /\ refused = {}
    BY DEF Rk!Init
  <1>2. ToSet(<<>>) = {} /\ IsInjective(<<>>)
    BY DEF ToSet, IsInjective
  <1>3. Rk!Known = {}
    BY <1>1 DEF Rk!Known
  <1>4. QueueInv /\ Waiting = {}
    BY <1>1, <1>2 DEF QueueInv, Waiting
  <1>5. Rk!TypeOK
    <2>1. info \in [Rk!Frames -> Rk!FrameInfo \cup {NoInfo}]
      BY <1>1
    <2>2. complete \subseteq Rk!Elements(queue)
      BY <1>1
    <2>3. /\ queue \in Seq(Requests)
          /\ availableParam \in Seq(Addresses) /\ availableStat \in Seq(Addresses)
      BY <1>1
    <2>4. /\ phase = "stopped" /\ dropped = {} /\ frame = 0 /\ sequence = 0
          /\ paramCache = FALSE /\ statCache = FALSE
      BY DEF Rk!Init
    <2> QED
      BY <1>1, <2>1, <2>2, <2>3, <2>4 DEF Rk!TypeOK
  <1>6. RkInfos /\ RkActions /\ RkStopped
    BY <1>1, <1>3 DEF RkInfos, RkActions, RkStopped
  <1>7. RkClean
    BY <1>1, <1>2, <1>3, <1>4 DEF RkClean, RkRequests, RkBuffers, RkDevices,
                                  RkPools
  <1> QED
    BY <1>4, <1>5, <1>6, <1>7 DEF RkInv

(* What the invariant says: as long as no buffer was refused, a request is *)
(* lost exactly if one was left behind, and until then the internal        *)
(* buffers are accounted for.                                              *)
LEMMA RkSafe ==
  ASSUME RkInv
  PROVE  /\ Rk!TypeOK /\ Rk!BuffersAccounted
         /\ refused = {} => (Rk!Lost = {} <=> Forsaken = {})
  <1>1. Rk!Queue \ complete = Waiting
    BY QueueElements DEF RkInv, QueueInv, Rk!Queue, Waiting
  <1>2. \A r \in Requests, f \in Rk!Frames :
          f \in Rk!OfRequest(r, info) <=> f \in Rk!Known /\ info[f].request = r
    BY DEF Rk!OfRequest, Rk!Known
  <1>3. \A r : Rk!OfRequest(r, info) \subseteq Rk!Frames
    BY DEF Rk!OfRequest
  <1>4. Forsaken \subseteq Rk!Lost
    <2> SUFFICES ASSUME NEW r \in Forsaken PROVE r \in Requests /\ Rk!Stuck(r)
      BY DEF Rk!Lost
    <2>1. /\ r \in pending \ video /\ r \in Waiting /\ r \in Requests
          /\ \A f \in Rk!OfRequest(r, info) : f \notin actions
      BY RkTypes DEF Forsaken, RkInv, RkActions
    <2> QED
      BY <1>1, <2>1 DEF Rk!Stuck
  <1>5. ASSUME RkClean PROVE Rk!Lost = {}
    <2> SUFFICES ASSUME NEW r \in Requests, Rk!Stuck(r) PROVE FALSE
      BY DEF Rk!Lost
    <2>1. r \in Waiting
      BY <1>1 DEF Rk!Stuck
    <2>2. PICK f \in Rk!Known : info[f].request = r
      BY <1>5, <2>1 DEF RkClean, RkRequests
    <2>3. f \in Rk!OfRequest(r, info)
      BY <1>2, <2>2, RkTypes
    <2>4. /\ f \notin actions
          /\ \/ ~info[f].dequeued /\ info[f].param \notin param
             \/ ~info[f].processed /\ info[f].stat \notin stat
             \/ r \in pending /\ r \notin video
      BY <2>3 DEF Rk!Stuck
    <2> QED
      BY <1>5, <2>2, <2>4 DEF RkClean, RkBuffers
  <1>6. refused = {} => (Rk!Lost = {} <=> Forsaken = {})
    BY <1>4, <1>5 DEF RkInv
  <1>7. actions \subseteq Rk!Known
    BY DEF RkInv, RkActions
  <1>8. ASSUME refused = {}, Rk!Lost = {}
        PROVE  /\ \A p \in param : Rk!OfParam(p) # {}
               /\ Rk!Elements(availableParam) \cap param = {}
               /\ Rk!Elements(availableStat) \cap stat = {}
    <2>1. RkDevices /\ RkPools
      BY <1>6, <1>8 DEF RkInv, RkClean
    <2>2. /\ Rk!Elements(availableParam) = ToSet(availableParam)
          /\ Rk!Elements(availableStat) = ToSet(availableStat)
      BY RkTypes DEF Rk!Elements, ToSet
    <2> QED
      BY <2>1, <2>2 DEF RkDevices, RkPools, Rk!OfParam
  <1> QED
    BY <1>6, <1>7, <1>8 DEF RkInv, Rk!BuffersAccounted

(* The same in the next state.                                             *)
LEMMA RkSafeNext ==
    RkInv' => (refused = {} => (Rk!Lost = {} <=> Forsaken = {}))'
  <1>1. RkInv => (refused = {} => (Rk!Lost = {} <=> Forsaken = {}))
    BY RkSafe
  <1> QED
    BY <1>1, PTL

(* Every step of RkISP1 preserves the invariant, loses requests only as    *)
(* Losses says, and is a step of RequestFifo or invisible to it.           *)
LEMMA RkStep ==
  ASSUME RkInv, Rk!Next
  PROVE  /\ RkInv' /\ Rk!Losses
         /\ Fifo!Next \/ UNCHANGED <<queue, complete>>
  <1>1. phase = "stopped" => actions = {}
    BY DEF RkInv, RkStopped
  <1>2. refused = {} /\ Rk!Lost = {} => Forsaken = {} /\ RkClean
    BY RkSafe DEF RkInv
  <1>3. ASSUME RkInv', Forsaken' = Forsaken, refused' = refused,
               phase' = "stopped" => phase = "stopped"
        PROVE  Rk!Losses
    BY <1>1, <1>2, <1>3, RkSafeNext DEF Rk!Losses
  <1>4. ASSUME RkInv', refused' = {} => Forsaken' = Forsaken,
               RkClean /\ refused = {} /\ refused' # {} => Rk!Lost' = refused',
               phase' # "stopped"
        PROVE  Rk!Losses
    BY <1>2, <1>4, RkSafeNext DEF Rk!Losses
  <1>5. CASE \E r \in Requests : Rk!QueueRequest(r)
    <2>1. phase' # "stopped"
      BY <1>5 DEF Rk!QueueRequest
    <2> QED
      BY <1>4, <1>5, <2>1, RkQueueRequest
  <1>6. CASE \/ \E A \in Rk!Allocations : Rk!Start(A)
             \/ Rk!StreamOnFails \/ Rk!ParamStopped
    <2>1. /\ RkInv' /\ UNCHANGED <<queue, complete, refused>>
          /\ phase = "stopped" => Forsaken' = Forsaken
          /\ phase' # "stopped" => phase = "stopped"
          /\ phase # "stopped" => Rk!ParamStopped
      BY <1>6, RkStartStop
    <2>2. CASE phase = "stopped"
      BY <1>3, <2>1, <2>2
    <2>3. CASE phase # "stopped"
      BY <1>2, <2>1, <2>3, RkStopDrops DEF Rk!Losses
    <2> QED
      BY <2>1, <2>2, <2>3
  <1>7. CASE \/ Rk!AllocateBuffersFails \/ Rk!Stop
             \/ Rk!VideoStopped \/ Rk!StatStopped
             \/ \E r \in Requests : Rk!QueueRequestFails(r)
    BY <1>3, <1>7, RkIdle
  <1>8. CASE \E r \in Requests, seq \in {sequence, sequence + 1} :
               Rk!BufferReady(r, seq)
    <2>1. phase' = phase
      BY <1>8 DEF Rk!BufferReady
    <2> QED
      BY <1>3, <1>8, <2>1, RkBufferReady
  <1>9. CASE \E p \in Addresses : Rk!ParamReady(p)
    <2>1. phase' = phase
      BY <1>9 DEF Rk!ParamReady
    <2> QED
      BY <1>3, <1>9, <2>1, RkParamReady
  <1>10. CASE \E s \in Addresses : Rk!StatReady(s)
    <2>1. phase' = phase
      BY <1>10 DEF Rk!StatReady
    <2> QED
      BY <1>3, <1>10, <2>1, RkStatReady
  <1>11. CASE \E f \in Rk!Frames : Rk!Timeout(f)
    <2>1. phase' # "stopped"
      BY <1>11 DEF Rk!Timeout
    <2> QED
      BY <1>4, <1>11, <2>1, RkTimeout
  <1> QED
    BY <1>5, <1>6, <1>7, <1>8, <1>9, <1>10, <1>11
       DEF Rk!Next, Rk!Handlers, Rk!Stopping

-----------------------------------------------------------------------------
(***************************************************************************)
(* The theorems.                                                           *)
(***************************************************************************)

(* The first state of any of the pipeline handlers.                        *)
LEMMA PipelinesInit == Init => PipelinesInv
  BY RkInit, IpuInit DEF Init, InitRkISP1, InitIPU3, InitSingle,
                         NothingQueued, PipelinesInv

(* A step of the composition, as RequestFifo and the losses see it.        *)
LEMMA PipelinesStep ==
  ASSUME PipelinesInv, [Next]_vars
  PROVE  /\ PipelinesInv'
         /\ Fifo!Next \/ UNCHANGED <<queue, complete>>
         /\ pipeline = "rkisp1" => Rk!Losses
         /\ pipeline' = pipeline
  <1>1. CASE RkISP1(Rk!Next)
    BY <1>1, RkStep DEF RkISP1, PipelinesInv
  <1>2. CASE IPU3(Ipu3!Next)
    BY <1>2, IpuStep DEF IPU3, PipelinesInv
  <1>3. CASE SingleStream(Single!SingleNext)
    BY <1>3 DEF SingleStream, queueVars, PipelinesInv
  <1>4. CASE UNCHANGED vars
    <2>1. /\ UNCHANGED <<pipeline, phase, queue, complete, pending, dropped>>
          /\ UNCHANGED <<refused, frame, info, actions>>
          /\ UNCHANGED <<availableParam, availableStat>>
          /\ UNCHANGED <<video, param, stat, paramCache, statCache, sequence>>
          /\ UNCHANGED <<links, config, configured, active, allocated, raw>>
          /\ UNCHANGED <<dev, filled>>
      BY <1>4 DEF vars, queueVars, rkisp1Vars, ipu3Vars
    <2>2. QueueInv => QueueInv'
      BY <2>1 DEF QueueInv
    <2>3. Rk!Known' = Rk!Known /\ Waiting' = Waiting /\ Forsaken' = Forsaken
      BY <2>1 DEF Rk!Known, Waiting, Forsaken
    <2>4. Rk!TypeOK => Rk!TypeOK'
      BY <2>1 DEF Rk!TypeOK
    <2>5. RkInfos /\ RkActions /\ RkStopped => RkInfos' /\ RkActions' /\ RkStopped'
      BY <2>1, <2>3 DEF RkInfos, RkActions, RkStopped
    <2>6. RkClean => RkClean'
      BY <2>1, <2>3 DEF RkClean, RkRequests, RkBuffers, RkDevices, RkPools
    <2>7. RkInv => RkInv'
      BY <2>1, <2>2, <2>3, <2>4, <2>5, <2>6 DEF RkInv
    <2>12. RkInv => Rk!Losses
      <3>1. Rk!Lost' = Rk!Lost
        BY <2>1 DEF Rk!Lost, Rk!Stuck, Rk!Queue, Rk!Elements, Rk!OfRequest
      <3>2. RkInv => (phase = "stopped" => actions = {})
        BY DEF RkInv, RkStopped
      <3> QED
        BY <2>1, <3>1, <3>2 DEF Rk!Losses
    <2>8. Ipu3!TypeOK => Ipu3!TypeOK'
      BY <2>1 DEF Ipu3!TypeOK, Ipu3!Queue
    <2>9. IpuConfig /\ IpuRaw /\ IpuCaches /\ IpuStopped
            => IpuConfig' /\ IpuRaw' /\ IpuCaches' /\ IpuStopped'
      BY <2>1 DEF IpuConfig, IpuRaw, IpuCaches, IpuStopped
    <2>10. IpuDevices => IpuDevices'
      BY <2>1, <2>3 DEF IpuDevices
    <2>11. IpuInv => IpuInv'
      BY <2>2, <2>8, <2>9, <2>10 DEF IpuInv
    <2> QED
      BY <2>1, <2>7, <2>11, <2>12 DEF PipelinesInv
  <1> QED
    BY <1>1, <1>2, <1>3, <1>4 DEF Next

(* The inductive invariant holds for ever.                                 *)
LEMMA PipelinesInvariance == Spec => []PipelinesInv
  <1>1. PipelinesInv /\ [Next]_vars => PipelinesInv'
    BY PipelinesStep
  <1> QED
    BY <1>1, PipelinesInit, PTL DEF Spec

(* The internal buffers of both pipeline handlers are where their tables   *)
(* say, for any number of buffers, slots and frames.                       *)
THEOREM InternalBuffers == Spec => []BuffersAccounted
  <1>1. PipelinesInv => BuffersAccounted
    BY RkSafe, IpuSafe DEF PipelinesInv, BuffersAccounted
  <1> QED
    BY <1>1, PipelinesInvariance, PTL

(* No request falls between the devices of the IPU3; RkISP1 forgets the    *)
(* request a buffer of which a device refuses, and exactly those whose     *)
(* action has not run when stop() ends, and no other.                      *)
THEOREM NoRequestForgotten == Spec => RequestsKept
  <1>1. PipelinesInv => NoRequestLost
    BY IpuSafe DEF PipelinesInv, NoRequestLost
  <1>2. PipelinesInv /\ [Next]_vars
          => [pipeline = "rkisp1" => Rk!Losses]_vars
    BY PipelinesStep
  <1> QED
    BY <1>1, <1>2, PipelinesInvariance, PTL
       DEF Spec, RequestsKept, RkISP1Losses

(* Requests return in submission order: both pipeline handlers implement   *)
(* RequestFifo.                                                            *)
THEOREM PipelinesInOrder == Spec => ImplementsFifo
  <1>1. Init => Fifo!Init
    BY DEF Init, InitRkISP1, InitIPU3, InitSingle, NothingQueued, Rk!Init,
           Ipu3!Init, Fifo!Init
  <1>2. PipelinesInv /\ [Next]_vars
          => [Fifo!Next]_<<queue, {queue[i] : i \in DOMAIN queue} \ complete>>
    BY PipelinesStep
  <1> QED
    BY <1>1, <1>2, PipelinesInvariance, PTL DEF Spec, ImplementsFifo, Fifo!Spec
=============================================================================
