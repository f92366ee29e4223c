\* Four packets: a miss in service, two deferred, and one more.
CONSTANTS
    blkSize = 2
    coalesceLimit = 2
    noAllocateLimit = 4
    delayThreshold = 2
    Blk = {0, 1, 2}
    Kind <- MCKind
    maxRequests = 4
SPECIFICATION Spec
INVARIANTS
    ServicedInOrder
    FlagsAgree
    WritablePending
    WholeLineCovered
PROPERTIES
    ServedByRightResponse
\* The packets of a behaviour run out.
CHECK_DEADLOCK FALSE
