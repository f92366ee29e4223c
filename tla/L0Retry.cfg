\* The first read of the assembled cache.
CONSTANTS
    num_entries = 2
    reserve = 0
    Addr = {0, 1, 2}
    numSets = 2
    assoc = 2
    numTarget = 1
    memBlocks = 4
    Cmds = {"ReadReq"}
    maxRequests = 4
    load0 = load0
    store = store
    Port = {load0, store}
    fifoCapacity <- MCfifoCapacity
SPECIFICATION L0Spec
INVARIANT RetryHasMiss
CHECK_DEADLOCK FALSE
