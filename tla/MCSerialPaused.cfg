SPECIFICATION Spec
CONSTANTS
    t1 = t1
    b1 = b1
    b2 = b2
    Loop = Loop
    Run = Run
    None = None
    Task <- MCTask
    Responding = {"CMD_GET_VERSION"}
    AckOnly = {"CMD_CONSOLE_WRITE", "CMD_DIGITAL_WRITE"}
    Requests = {"CMD_DIGITAL_WRITE"}
    Buffer <- MCBuffer
    Large <- MCLarge
    NumChunks = 1
    QueueLimit = 1
    MaxAttempts = 2
PROPERTY PausedIsSilent
