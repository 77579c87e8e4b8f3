--------------------------- MODULE MCMessageLoop ---------------------------
(* MessageLoop with two threads, a parent and its child, and two calls on  *)
(* the child, one of them blocking.                                        *)
EXTENDS MessageLoop

CONSTANTS parent, child, queued, blocking, worker, other

MCObjects == {parent, child}

MCCalls == {queued, blocking}

MCReceiverOf == [c \in MCCalls |-> child]

MCChildrenOf == [o \in MCObjects |-> IF o = parent THEN <<child>> ELSE <<>>]

MCHomeOf == [o \in MCObjects |-> worker]
=============================================================================
