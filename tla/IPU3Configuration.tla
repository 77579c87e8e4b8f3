-------------------------- MODULE IPU3Configuration --------------------------
(***************************************************************************)
(* What PipelineHandlerIPU3 makes of the sizes an application asks for:    *)
(* CameraSensor::getFormat(), IPU3CameraConfiguration::validate() and      *)
(* generateConfiguration() (camera_sensor.cpp, pipeline/ipu3/ipu3.cpp).    *)
(* A size is a pair <<width, height>>, a stream configuration a record of  *)
(* a size and of whether the pixel format is NV12.                         *)
(***************************************************************************)
EXTENDS Integers, Sequences, FiniteSets, SequencesExt

CONSTANT
    SensorSizes     \* sizes_ of the sensor, in ascending order

Streams == {"output", "viewfinder"}

(* CameraSensor::resolution()                                              *)
Resolution == Last(SensorSizes)

IsZero(size) == size[1] = 0 \/ size[2] = 0

NoSize == <<0, 0>>

Area(size) == size[1] * size[2]

(* A ratio is a float in the code, here a fixed-point number.              *)
Ratio(size) == (size[1] * 100000) \div size[2]

Distance(a, b) == IF a < b THEN b - a ELSE a - b

LargeEnough(sz, size) == sz[1] >= size[1] /\ sz[2] >= size[2]

(* Mistake: a size that has the best ratio so far is taken whatever its    *)
(* area.                                                                   *)
CloserByRatio(sz, best, size) ==
    best = NoSize \/ Distance(Ratio(sz), Ratio(size))
                        <= Distance(Ratio(best), Ratio(size))

(* The test in the loop of getFormat(): sz replaces the best size so far.  *)
Closer(sz, best, size) ==
    \/ best = NoSize
    \/ LET diff == Distance(Ratio(sz), Ratio(size))
           bestRatio == Distance(Ratio(best), Ratio(size))
       IN  diff < bestRatio \/ (diff = bestRatio /\ Area(sz) < Area(best))

(* For a height of zero the ratio asked for is infinite, and no size is    *)
(* near it, or not a number, and the area alone decides.                   *)
Better(sz, best, size) ==
    IF size[2] # 0 THEN Closer(sz, best, size)
    ELSE size[1] = 0 /\ (best = NoSize \/ Area(sz) < Area(best))

(* CameraSensor::getFormat(), zero when no size is large enough.           *)
GetFormat(size) ==
    FoldLeft(LAMBDA best, sz :
                 IF LargeEnough(sz, size) /\ Better(sz, best, size)
                   THEN sz ELSE best,
             NoSize, SensorSizes)

-----------------------------------------------------------------------------

LargestWidth(config) ==
    CHOOSE w \in {config[i].size[1] : i \in DOMAIN config} :
        \A i \in DOMAIN config : config[i].size[1] <= w

LargestHeight(config) ==
    CHOOSE h \in {config[i].size[2] : i \in DOMAIN config} :
        \A i \in DOMAIN config : config[i].size[2] <= h

(* The size that every stream fits in, or the largest one.                 *)
Wanted(config) ==
    LET size == <<LargestWidth(config), LargestHeight(config)>>
    IN  IF IsZero(size) THEN Resolution ELSE size

(* sensorFormat_.size                                                      *)
SensorFormat(wanted) ==
    IF GetFormat(wanted) = NoSize THEN Resolution ELSE GetFormat(wanted)

Align(size) == <<size[1] - (size[1] % 8), size[2] - (size[2] % 4)>>

(* adjustStream(): the output can only crop to the sensor's size, the      *)
(* viewfinder scales.                                                      *)
AdjustStream(cfg, stream, sensor) ==
    [nv12 |-> TRUE,
     size |-> Align(IF stream = "output" THEN sensor
                    ELSE IF IsZero(cfg.size)
                           THEN <<1280, (1280 * sensor[2]) \div sensor[1]>>
                           ELSE cfg.size)]

(* The stream of an entry: the one that suits it, or the one left.         *)
AssignStream(cfg, sensor, available) ==
    LET stream == IF cfg.size = sensor THEN "output" ELSE "viewfinder"
    IN  IF stream \in available THEN stream
                                ELSE CHOOSE s \in available : TRUE

(* validate(): the status, the adjusted entries, their streams, the size   *)
(* wanted from the sensor and the one it has.                              *)
Validate(config) ==
    IF config = <<>>
      THEN [status |-> "Invalid", entries |-> <<>>, streams |-> <<>>,
            wanted |-> NoSize, sensor |-> NoSize]
      ELSE LET capped == SubSeq(config, 1, IF Len(config) > 2 THEN 2
                                                              ELSE Len(config))
               wanted == Wanted(capped)
               sensor == SensorFormat(wanted)
               first == AssignStream(capped[1], sensor, Streams)
               streams == IF Len(capped) = 1
                            THEN <<first>>
                            ELSE <<first, AssignStream(capped[2], sensor,
                                                       Streams \ {first})>>
               entries == [i \in DOMAIN capped |->
                              AdjustStream(capped[i], streams[i], sensor)]
           IN  [status |-> IF entries = config THEN "Valid" ELSE "Adjusted",
                entries |-> entries, streams |-> streams, wanted |-> wanted,
                sensor |-> sensor]

(* generateConfiguration(): the entries for a sequence of roles, empty     *)
(* when some role has no stream left.  (Camera::generateConfiguration()    *)
(* admits at most as many roles as there are streams.)                     *)
MinOf(a, b) == IF a < b THEN a ELSE b

RoleSize(role) ==
    IF role = "StillCapture"
      THEN <<2560, 1920>>
      ELSE Align(<<MinOf(1280, Resolution[1]), MinOf(720, Resolution[2])>>)

RolesFit(roles) ==
    /\ Len(roles) <= Cardinality(Streams)
    /\ Cardinality({i \in DOMAIN roles : roles[i] # "StillCapture"}) <= 1

Generate(roles) ==
    [i \in DOMAIN roles |-> [nv12 |-> TRUE, size |-> RoleSize(roles[i])]]
=============================================================================
