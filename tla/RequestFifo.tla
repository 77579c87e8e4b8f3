---------------------------- MODULE RequestFifo ----------------------------
(***************************************************************************)
(* What PipelineHandler promises about queued requests: they are returned  *)
(* in the order they were queued, a request is returned only when the      *)
(* hardware is done with it, and none that could be returned is kept       *)
(* ("This method ensures that requests will be returned to the application *)
(* in submission order", PipelineHandler::completeRequest()).              *)
(***************************************************************************)
EXTENDS Naturals, Sequences

CONSTANT Requests

VARIABLES
    queue,    \* requests the camera holds, in submission order
    busy      \* those the hardware is not done with

InOrder == {queue[i] : i \in 1 .. Len(queue)}

Init == queue = <<>> /\ busy = {}

(* A request that the camera does not hold is submitted.                   *)
Submit(r) ==
    /\ r \notin InOrder
    /\ queue' = Append(queue, r)
    /\ busy' = busy \cup {r}

(* The hardware finishes the requests in S; the longest prefix of the      *)
(* queue without a busy request goes back to the application.              *)
Finish(S, n) ==
    /\ busy' = busy \ S
    /\ \A i \in 1 .. n : queue[i] \notin busy'
    /\ n < Len(queue) => queue[n + 1] \in busy'
    /\ queue' = SubSeq(queue, n + 1, Len(queue))

Next ==
    \/ \E r \in Requests : Submit(r)
    \/ \E S \in SUBSET busy : \E n \in 0 .. Len(queue) : Finish(S, n)

Spec == Init /\ [][Next]_<<queue, busy>>
=============================================================================
