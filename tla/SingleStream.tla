---------------------------- MODULE SingleStream ----------------------------
(***************************************************************************)
(* The configuration of a camera with one stream: what the UVC, vimc and   *)
(* RkISP1 pipeline handlers make of what an application asks for, and how  *)
(* Camera::configure() takes it to the devices (camera.cpp, stream.cpp,    *)
(* geometry.cpp, pipeline/).  Capturing is the subject of the other        *)
(* modules.                                                                *)
(*                                                                         *)
(* A size is a pair <<width, height>>, an entry of a configuration a       *)
(* record of a pixel format and a size.  A UVC application starts from an  *)
(* entry that generateConfiguration() returned: only those know the        *)
(* formats of the device.                                                  *)
(***************************************************************************)
EXTENDS Integers, Sequences, FiniteSets, SequencesExt

CONSTANTS
    SensorSizes,        \* of RkISP1's sensor, in ascending order
    UVCFormats,         \* pixel formats of the device, in their order
    UVCRanges,          \* the size ranges of each: [min, max] records
    DiscreteSizes,      \* rangeDiscreteSizes
    SingleEntries,      \* entries that an application may ask for
    MaxConfigures       \* bound: calls of Camera::configure()

Sensor == INSTANCE IPU3Configuration

VARIABLES
    handler,        \* "uvc", "vimc" or "rkisp1"
    asked,          \* what the application's configuration contained
    entries,        \* what validate() made of it
    status,         \* what validate() returned; "" before the first call
    camera,         \* Camera::state_, of an acquired camera
    applied,        \* Stream::configuration()
    chain,          \* the size set on each device of the pipeline
    tried,          \* history: the entries of failed configure() calls
                    \* since one succeeded
    configures      \* bound: calls of Camera::configure() so far

singleVars == <<handler, asked, entries, status, camera, applied, chain, tried,
                configures>>

NoEntry == [format |-> "none", size |-> <<0, 0>>]

-----------------------------------------------------------------------------
(***************************************************************************)
(* Sizes and formats.                                                      *)
(***************************************************************************)

Area(size) == size[1] * size[2]

(* operator<(Size, Size)                                                   *)
Smaller(a, b) ==
    IF a[1] < b[1] /\ a[2] < b[2] THEN TRUE
    ELSE IF a[1] >= b[1] /\ a[2] >= b[2] THEN FALSE
    ELSE Area(a) < Area(b) \/ (Area(a) = Area(b) /\ a[1] < b[1])

(* SizeRange::contains(), for a range without steps                        *)
InRange(range, size) ==
    /\ range.min[1] <= size[1] /\ size[1] <= range.max[1]
    /\ range.min[2] <= size[2] /\ size[2] <= range.max[2]

Discrete(ranges) == \A i \in DOMAIN ranges : ranges[i].min = ranges[i].max

(* StreamFormats::sizes(): discrete sizes as they are, or those of a list  *)
(* that are in the one range; sorted.                                      *)
SizesOf(ranges) ==
    LET sizes == IF Discrete(ranges)
                   THEN {ranges[i].min : i \in DOMAIN ranges}
                   ELSE {s \in DiscreteSizes : /\ Len(ranges) = 1
                                               /\ InRange(ranges[1], s)}
    IN  [i \in 1 .. Cardinality(sizes) |->
            CHOOSE s \in sizes :
                Cardinality({t \in sizes : Smaller(t, s)}) = i - 1]

Clamp(n, low, high) == IF n < low THEN low ELSE IF n > high THEN high ELSE n

-----------------------------------------------------------------------------
(***************************************************************************)
(* validate().  Each returns the entry it adjusts the first one to.        *)
(***************************************************************************)

(* Mistake: the loop takes the first size that is larger.                  *)
FirstLarger(sizes, size) ==
    LET larger == SelectInSeq(sizes, LAMBDA s : Smaller(size, s))
    IN  IF larger = 0 THEN Last(sizes) ELSE sizes[larger]

(* The loop of UVCCameraConfiguration::validate(): the size before the     *)
(* first that is larger.                                                   *)
LastNotLarger(sizes, size) ==
    LET larger == SelectInSeq(sizes, LAMBDA s : Smaller(size, s))
    IN  CASE larger = 0 -> Last(sizes)
          [] larger = 1 -> sizes[1]
          [] OTHER -> sizes[larger - 1]

AdjustUVC(cfg) ==
    LET format == IF cfg.format \in ToSet(UVCFormats) THEN cfg.format
                                                      ELSE UVCFormats[1]
    IN  [format |-> format,
         size |-> LastNotLarger(SizesOf(UVCRanges[format]), cfg.size)]

(* The scaler of vimc enlarges by three.                                   *)
VimcFormats == {"RGB888", "BGR888", "BGRA8888"}

AdjustVimc(cfg) ==
    LET w == Clamp(cfg.size[1], 48, 4096)
        h == Clamp(cfg.size[2], 48, 2160)
    IN  [format |-> IF cfg.format \in VimcFormats THEN cfg.format
                                                  ELSE "BGR888",
         size |-> <<w - (w % 3), h - (h % 3)>>]

RkISP1Formats == {"YUYV", "YVYU", "VYUY", "NV16", "NV61", "NV21", "NV12"}

(* The array of formats has one element more than it has initialisers: the *)
(* pixel format zero ("none") is found in it.                              *)
FormatsArray == RkISP1Formats \cup {"none"}

AdjustRkISP1(cfg) ==
    LET sensor == Sensor!SensorFormat(cfg.size)
        size == IF Sensor!IsZero(cfg.size)
                  THEN <<1280, (1280 * sensor[2]) \div sensor[1]>>
                  ELSE cfg.size
    IN  [format |-> IF cfg.format \in FormatsArray THEN cfg.format
                                                   ELSE "NV12",
         size |-> <<Clamp(size[1], 32, 4416), Clamp(size[2], 16, 3312)>>]

Adjust(cfg) ==
    CASE handler = "uvc" -> AdjustUVC(cfg)
      [] handler = "vimc" -> AdjustVimc(cfg)
      [] handler = "rkisp1" -> AdjustRkISP1(cfg)

(* validate(): an empty configuration is invalid, entries after the first  *)
(* are dropped.                                                            *)
Adjusted(config) == IF config = <<>> THEN <<>> ELSE <<Adjust(config[1])>>

StatusOf(config) ==
    IF config = <<>> THEN "Invalid"
    ELSE IF Adjusted(config) = config THEN "Valid" ELSE "Adjusted"

-----------------------------------------------------------------------------
(***************************************************************************)
(* Operations.                                                             *)
(***************************************************************************)

Stages ==
    CASE handler = "uvc" -> <<"video">>
      [] handler = "vimc" -> <<"sensor", "debayer0", "debayer1", "scaler0",
                               "scaler1", "video", "raw">>
      [] handler = "rkisp1" -> <<"links", "sensor", "dphy", "isp0", "isp2",
                                 "video", "param", "stat">>

(* The size that configure() sets on a device.                             *)
SizeAt(stage, cfg) ==
    CASE stage \in {"video", "scaler1"} -> cfg.size
      [] handler = "vimc" -> <<cfg.size[1] \div 3, cfg.size[2] \div 3>>
      [] stage \in {"links", "param", "stat"} -> <<0, 0>>
      [] OTHER -> Sensor!SensorFormat(cfg.size)

SingleInit ==
    /\ handler \in {"uvc", "vimc", "rkisp1"}
    /\ asked = <<>> /\ entries = <<>> /\ status = ""
    /\ camera = "acquired" /\ applied = NoEntry
    /\ chain = [i \in DOMAIN Stages |-> <<0, 0>>]
    /\ tried = {} /\ configures = 0

SingleTypeOK ==
    /\ status \in {"", "Valid", "Adjusted", "Invalid"}
    /\ camera \in {"acquired", "configured", "running"}
    /\ Len(entries) <= 1
    /\ DOMAIN chain = DOMAIN Stages
    /\ NoEntry \notin tried /\ configures \in 0 .. MaxConfigures

ValidateEntries(config) ==
    /\ asked' = config
    /\ entries' = Adjusted(config)
    /\ status' = StatusOf(config)
    /\ UNCHANGED <<handler, camera, applied, chain, tried, configures>>

(* generateConfiguration() for one role                                    *)
Default ==
    CASE handler = "uvc" -> [format |-> UVCFormats[1],
                             size |-> Last(SizesOf(UVCRanges[UVCFormats[1]]))]
      [] handler = "vimc" -> [format |-> "BGR888", size |-> <<1920, 1080>>]
      [] handler = "rkisp1" -> [format |-> "NV12",
                                size |-> Sensor!Resolution]

GenerateSingle == camera # "running" /\ ValidateEntries(<<Default>>)

(* The application changes its entries, or adds one, and validates them.   *)
ValidateSingle(config) == camera # "running" /\ ValidateEntries(config)

(* The devices that configure() has set when the one at failing refuses;   *)
(* zero: none refuses.                                                     *)
DoneBefore(failing) == IF failing = 0 THEN Len(Stages) ELSE failing - 1

(* The video device chose another format than it was given.                *)
Chosen == <<0, 0>>

(* Camera::configure(), which only takes a configuration that validate()   *)
(* leaves as it is, and the handler's configure().  One of the devices may *)
(* fail, or the video device choose another format, as it does when there  *)
(* is none: those before it keep what they were set to.  A camera that was *)
(* configured stays so, with the configuration it had.                     *)
ConfigureSingle(failing) ==
    /\ camera # "running" /\ configures < MaxConfigures
    /\ configures' = configures + 1
    /\ StatusOf(entries) = "Valid"
    /\ entries[1].format = "none" =>
         failing \in 1 .. SelectInSeq(Stages, LAMBDA st : st = "video")
    /\ \E video \in BOOLEAN :
         chain' = [i \in DOMAIN Stages |->
                      IF i <= DoneBefore(failing) THEN SizeAt(Stages[i], entries[1])
                      ELSE IF i = failing /\ Stages[i] = "video" /\ video
                             THEN Chosen
                      ELSE chain[i]]
    /\ IF failing = 0
         THEN camera' = "configured" /\ applied' = entries[1] /\ tried' = {}
         ELSE tried' = tried \cup {entries[1]} /\ UNCHANGED <<camera, applied>>
    /\ UNCHANGED <<handler, asked, entries, status>>

StartSingle ==
    /\ camera = "configured"
    /\ camera' = "running"
    /\ UNCHANGED <<handler, asked, entries, status, applied, chain, tried,
                   configures>>

StopSingle ==
    /\ camera = "running"
    /\ camera' = "configured"
    /\ UNCHANGED <<handler, asked, entries, status, applied, chain, tried,
                   configures>>

SingleNext ==
    \/ GenerateSingle
    \/ \E cfg \in SingleEntries :
         ValidateSingle(<<cfg>>) \/ ValidateSingle(<<cfg, cfg>>)
    \/ ValidateSingle(<<>>)
    \/ \E failing \in 0 .. Len(Stages) : ConfigureSingle(failing)
    \/ StartSingle \/ StopSingle

-----------------------------------------------------------------------------
(***************************************************************************)
(* Properties.                                                             *)
(***************************************************************************)

(* What a device can do: UVC has the sizes it lists, vimc a third of the   *)
(* size on its sensor, RkISP1 its bounds.                                  *)
Supported(cfg) ==
    CASE handler = "uvc" ->
           /\ cfg.format \in ToSet(UVCFormats)
           /\ cfg.size \in ToSet(SizesOf(UVCRanges[cfg.format]))
      [] handler = "vimc" ->
           /\ cfg.format \in VimcFormats
           /\ \A i \in {1, 2} : cfg.size[i] = 3 * (cfg.size[i] \div 3)
           /\ cfg.size \in (48 .. 4096) \X (48 .. 2160)
      [] handler = "rkisp1" ->
           /\ cfg.format \in RkISP1Formats
           /\ cfg.size \in (32 .. 4416) \X (16 .. 3312)

(* The size of UVC is the largest one that is not larger than what was     *)
(* asked for, if there is one.                                             *)
Nearest(cfg, size) ==
    LET sizes == ToSet(SizesOf(UVCRanges[cfg.format]))
        fitting == {s \in sizes : ~Smaller(size, s)}
    IN  /\ fitting # {} => cfg.size \in fitting
        /\ \A s \in fitting : ~Smaller(cfg.size, s)

(* The configuration "has been adjusted and is now valid"                  *)
(* (CameraConfiguration::validate): what comes out of validate() is        *)
(* accepted by Camera::configure() and as near as can be to what was asked *)
(* for, and the device supports it.  Against that documentation, RkISP1    *)
(* lets an entry without a pixel format pass; but no camera is configured  *)
(* with anything its device does not support.  Each device is set to what  *)
(* the camera's stream says, or to what a configure() that failed since    *)
(* then had got to.                                                        *)
SingleSound ==
    /\ SingleTypeOK
    /\ status \in {"Valid", "Adjusted"} =>
         /\ StatusOf(entries) = "Valid"
         /\ \/ Supported(entries[1])
            \/ /\ handler = "rkisp1" /\ asked[1].format = "none"
               /\ entries[1].format = "none"
               /\ Supported([entries[1] EXCEPT !.format = "NV12"])
         /\ handler = "uvc" => Nearest(entries[1], asked[1].size)
    /\ camera # "acquired" =>
         /\ Supported(applied)
         /\ \A i \in DOMAIN Stages :
              \/ \E cfg \in {applied} \cup tried :
                   chain[i] = SizeAt(Stages[i], cfg)
              \/ tried # {} /\ Stages[i] = "video" /\ chain[i] = Chosen
=============================================================================
