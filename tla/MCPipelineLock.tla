--------------------------- MODULE MCPipelineLock ---------------------------
(* Two cameras of one pipeline handler in the first process, one camera in *)
(* the second; each is driven by a thread.                                 *)
EXTENDS PipelineLock

CONSTANTS t1, t2, t3, c1, c2, c3, p1, p2

ThreeThreads == {t1, t2, t3}
ThreeCameras == {c1, c2, c3}
TwoInstances == {p1, p2}
OneEach == [t \in ThreeThreads |->
               CASE t = t1 -> c1 [] t = t2 -> c2 [] t = t3 -> c3]
CamerasShared == [c \in ThreeCameras |-> IF c = c3 THEN p2 ELSE p1]
=============================================================================
