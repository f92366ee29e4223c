SPECIFICATION Spec
CONSTANTS
    num_entries = 1
    reserve = 1
    Addr = {a1}
    Tick = {0, 1}
    MaxTargets = 3
INVARIANTS
    QueueConsistency
    TargetsMatchAllocation
PROPERTY
    ImplementsEntryPool
