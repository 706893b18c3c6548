SPECIFICATION Spec
CONSTANTS
    Setups <- MCSetups
    MaxNonce = 3
    Threshold = 2
    CrcThreshold = 2
    MaxCounter = 2
    Room = 2
CHECK_DEADLOCK FALSE
INVARIANTS TypeOK KeyAgreement SyncVisible FreshAccepted
PROPERTIES VerdictReached
