\* Every command the cache accepts, writebacks and locked writes included, and a
\* memory that ends at the last block requested.
CONSTANTS
    num_entries = 2
    reserve = 0
    Addr = {0, 1, 2}
    numSets = 1
    assoc = 2
    numTarget = 2
    memBlocks = 3
    Cmds = {"ReadReq", "WriteReq", "LoadLockedReq", "StoreCondReq", "WritebackDirty", "WritebackClean",
            "WriteClean", "LockedRMWReadReq", "LockedRMWWriteReq"}
    maxRequests = 4
SPECIFICATION Spec
INVARIANTS
    TypeOK
    RequestConservation
    SameBlockInOrder
    MissNotCached
    LockKeepsOthersOut
    OneMSHRPerBlock
    NoDuplicateBlock
    BlockedWhenFull
    NoTargetMSHRLive
    NoStrandedMiss
    NothingDeferred
    LockedBlockHasMSHR
    UnlockedBlockPermitted
\* A failed assert ends the program, and the requests of a behaviour run out.
CHECK_DEADLOCK FALSE
