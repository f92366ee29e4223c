\* Three blocks in one set of two ways.
CONSTANTS
    num_entries = 2
    reserve = 0
    Addr = {0, 1, 2}
    numSets = 1
    assoc = 2
    numTarget = 1
    memBlocks = 4
    Cmds = {"ReadReq"}
    maxRequests = 4
SPECIFICATION Spec
INVARIANT VictimRemoved
CHECK_DEADLOCK FALSE
