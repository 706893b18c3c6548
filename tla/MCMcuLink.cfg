SPECIFICATION Spec
CONSTANTS
    d1 = d1
    n1 = n1
    NoNonce = NoNonce
    Reliable = {"CMD_DATASTORE_PUT", "CMD_CONSOLE_WRITE"}
    Payload <- MCPayload
    HostSends <- AllCommands
    Sequence = {0, 1}
    Nonce <- MCNonce
    RetryLimit = {1, 256}
    DefaultRetryLimit = 2
    MaxPendingTx = 2
    RxHistorySize = 1
    CounterRange = 2
    Secret = {TRUE, FALSE}
    PostOutcome = {TRUE, FALSE}
INVARIANTS TypeOK AwaitingFrameInv PoolBalance FaultIsSafe
PROPERTIES AwaitedFrameKept AwaitingEnds
