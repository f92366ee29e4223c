\* Two writers and two readers contend for three slots.
CONSTANTS
    m_size = 3
    T0 = T0
    Reader = {r1, r2}
    Writer = {w1, w2}
    maxWrites = 7
SPECIFICATION FifoSpec
INVARIANTS
    NoLostWakeup
PROPERTIES
    ImplementsFifo
    WriterResumed
