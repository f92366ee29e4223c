SPECIFICATION Spec
CONSTANTS
  Addrs = {a, b}
  Ticks = {1, 2}
  sanityLimit = 2
  maxPackets = 5
INVARIANTS
  PacketsConserved
  SameAddressInOrder
  ListByTick
  AbortsNeedRefusal
\* The program stops when an assertion fails or the list has been sent.
CHECK_DEADLOCK FALSE
