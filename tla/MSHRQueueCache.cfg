SPECIFICATION CacheSpec
CONSTANTS
    num_entries = 3
    reserve = 0
    Addr = {a1, a2, a3, a4}
    Tick = {0, 1}
    MaxTargets = 2
INVARIANTS
    NoReadyEntryHidden
PROPERTY
    ReadyOrderKept
\* The clock does not advance, so misses that are not ready yet stay queued.
CHECK_DEADLOCK FALSE
