--------------------------- MODULE MCCameraThread ---------------------------
EXTENDS CameraThread

CONSTANTS uvc1, uvc2, vimc, v1, v2, s1

(* Two devices of one pipeline handler, which follows removals, and one of *)
(* another, which does not.                                                *)
MCDevices == {uvc1, vimc, uvc2}

MCFactories == <<"uvcvideo", "vimc">>

MCFactoryOf ==
    [d \in MCDevices |-> IF d = vimc THEN "vimc" ELSE "uvcvideo"]

(* Two streams: two buffers for the first, one for the second, so that     *)
(* requests complete out of order.                                         *)
MCBuffers == {v1, v2, s1}

MCStreamOf == [b \in MCBuffers |-> IF b = s1 THEN "still" ELSE "viewfinder"]
=============================================================================
