SPECIFICATION FairSpec
CONSTANTS
    parent = parent
    child = child
    queued = queued
    blocking = blocking
    worker = worker
    other = other
    Threads = {worker, other}
    Objects <- MCObjects
    Calls <- MCCalls
    Blocking = {blocking}
    ReceiverOf <- MCReceiverOf
    ChildrenOf <- MCChildrenOf
    HomeOf <- MCHomeOf
    Synchronised = TRUE
    MaxStarts = 1
    MaxMoves = 2
    NoCall = NoCall
    NoThread = NoThread
INVARIANTS
    MessagesAtHome
    PendingInOrder
PROPERTIES
    LoopProgress
CHECK_DEADLOCK FALSE
