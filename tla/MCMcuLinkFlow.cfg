SPECIFICATION Spec
CONSTANTS
    d1 = d1
    n1 = n1
    NoNonce = NoNonce
    Reliable = {"CMD_DATASTORE_PUT"}
    Payload <- MCPayload
    HostSends <- DaemonCommands
    Sequence = {0, 1}
    Nonce <- MCNonce
    RetryLimit = {1, 2}
    DefaultRetryLimit = 2
    MaxPendingTx = 1
    RxHistorySize = 1
    CounterRange = 2
    Secret = {TRUE}
    PostOutcome = {TRUE}
INVARIANT SafeStateReleasesFlowControl
