CONSTANTS
    c1 = c1
    c2 = c2
    Empty = Empty
    NoTask = NoTask
    Workers = 2
    QueueSize = 1
    Clients <- TwoClients
    TasksPer = 2
SPECIFICATION FairSpec
CHECK_DEADLOCK FALSE
INVARIANTS AcceptedInOrder NoLostWakeup StopDrains
PROPERTIES StopReturns PromisedRun
