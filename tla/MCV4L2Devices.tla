--------------------------- MODULE MCV4L2Devices ---------------------------
EXTENDS V4L2Devices

CONSTANTS t1, t2, t3, c1, c2, c3, p1, p2, p3, m1, m2, n1, n2

(* One camera, driven by one thread, in each of three processes.           *)
ThreeThreads == {t1, t2, t3}
ThreeCameras == {c1, c2, c3}
ThreeInstances == {p1, p2, p3}
CamerasApart == [t \in ThreeThreads |->
                    CASE t = t1 -> c1 [] t = t2 -> c2 [] t = t3 -> c3]
InstancesApart == [c \in ThreeCameras |->
                    CASE c = c1 -> p1 [] c = c2 -> p2 [] c = c3 -> p3]

(* A media device with two nodes, one of which two entities share, and one *)
(* whose topology is broken: a pad belongs to no entity.                   *)
PadLink(i, s, t) == [id |-> i, source |-> s, sink |-> t, interface |-> FALSE]

InterfaceLink(i, s, t) == [id |-> i, source |-> s, sink |-> t, interface |-> TRUE]

SomeTopology ==
    m1 :> [entities |-> {1, 2, 3},
           interfaces |-> {[id |-> 10, devnum |-> n1], [id |-> 11, devnum |-> n2]},
           pads |-> {[id |-> 4, entity |-> 1], [id |-> 5, entity |-> 2],
                     [id |-> 6, entity |-> 3]},
           links |-> {PadLink(7, 4, 5), InterfaceLink(8, 10, 1),
                      InterfaceLink(9, 10, 2), InterfaceLink(12, 11, 3)}]
    @@ m2 :> [entities |-> {1}, interfaces |-> {},
              pads |-> {[id |-> 2, entity |-> 4]}, links |-> {}]
=============================================================================
