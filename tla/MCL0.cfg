\* Two ports racing for three blocks, with fewer MSHRs than blocks.
CONSTANTS
    num_entries = 2
    reserve = 0
    Addr = {0, 1, 2}
    numSets = 2
    assoc = 2
    numTarget = 1
    memBlocks = 4
    Cmds = {"ReadReq", "StoreCondReq", "LockedRMWReadReq"}
    maxRequests = 3
    load0 = load0
    store = store
    Port = {load0, store}
    fifoCapacity <- MCfifoCapacity
SPECIFICATION L0Spec
INVARIANTS
    PortOrder
PROPERTIES
    ImplementsLedger
    EveryRequestTaken
    ReadyMissServed
\* A failed assert ends the program, and the requests of a behaviour run out.
CHECK_DEADLOCK FALSE
