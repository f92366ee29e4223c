\* Two requests that do not allocate on fill, to different blocks.
CONSTANTS
    num_entries = 2
    reserve = 0
    Addr = {0, 1}
    numSets = 2
    assoc = 2
    numTarget = 1
    memBlocks = 4
    Cmds = {"ReadReq", "LoadLockedReq", "SwapReq"}
    maxRequests = 3
SPECIFICATION Spec
INVARIANT TempBlockCleared
CHECK_DEADLOCK FALSE
