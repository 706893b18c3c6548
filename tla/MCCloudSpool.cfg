SPECIFICATION Spec
CONSTANTS
    t1 = t1
    t2 = t2
    Conn = Conn
    Bad = Bad
    NoItem = NoItem
    Task <- MCTask
    Worker = Worker
    MaxLen = 2
    NumMsg = 4
    MaxFaults = 2
    Leftovers <- MCLeftovers
CHECK_DEADLOCK FALSE
INVARIANTS TypeOK NothingSilent OnceAndInOrder RepetitionNeedsFailure
PROPERTIES EnqueueReturns RefinesOutbox
