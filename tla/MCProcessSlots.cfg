SPECIFICATION Spec
CONSTANTS
    p1 = p1
    p2 = p2
    p3 = p3
    h1 = h1
    None = None
    Proc <- MCProc
    Pid = {1, 2}
    PidOf <- MCPidOf
    Handler = {h1}
    MaxSlots = 2
CHECK_DEADLOCK FALSE
INVARIANTS TypeOK SlotsConserved
PROPERTIES PollRemovesItsOwn SlotComes
