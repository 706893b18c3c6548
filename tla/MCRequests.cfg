SPECIFICATION Spec
CONSTANTS
    k1 = k1
    k2 = k2
    None = None
    NoItem = NoItem
    Corr = {k1, k2}
    Setups <- MCSetups
    MaxCalls = 3
    Allowed = {"console", "datastore", "mailbox", "file", "shell", "spi", "pin"}
    PinLimit = 2
    MaxAttempts = 2
    MaxPush = 2
    MaxCut = 1
    MaxLen = 1
CHECK_DEADLOCK FALSE
INVARIANTS TypeOK OwnAnswer PushedKept NoPhantoms
PROPERTIES CallsEnd
