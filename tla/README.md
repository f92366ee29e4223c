# Verification of the Kuiper cache

A TLA+ development for the non-coherent cache in `src/`: a SystemC port of the
classic gem5 cache. It models the path of a request from a CPU fifo through the
cache to the memory and back, and the classes on that path that are wider than
the program uses them (MSHR target lists, write allocator, packet queue, tags
and load locks, tagged prefetcher). TLC checks it on small instances, and TLAPS
proves the parts listed in section 5 for every size.

## 1. Inventory of the system

| Part | State | Operations | Hard behaviour |
|---|---|---|---|
| `Queue<Entry>`, `MSHRQueue` | free, allocated and ready list, iterators kept in the entries, two counters | allocate, deallocate, markInService, markPending, moveToFront, delay, forceDeallocateTarget | long call sequences; erasing through stored iterators; counters and reserve at the limit |
| MSHR | target list, deferred targets, summary flags, in-service and pending-modified flags | allocate, allocateTarget, extractServiceableTargets, promoteDeferredTargets, promoteReadable, promoteWritable | whether a target may join or must be deferred; flags that summarise a list |
| Write allocator | mode, stream, delay counters | updateMode, delay, resetDelay, reset | a mode that outlives its stream; a miss held back again and again |
| `BaseCache`/`NoncoherentCache` | MSHR queue, tags, tempBlock, blocking causes, noTargetMSHR | recvTimingReq (hit, miss, writeback, locked read-modify-write), sendMSHRQueuePacket, recvTimingResp | coalescing, fills racing writebacks, locked blocks, blocking |
| Packet queue of a port | transmit list, waitingOnRetry, sendEvent and its thread | schedSendTiming, schedSendEvent, sendDeferredPacket, retry | immediate notifications that collapse or get lost; a refused packet put back |
| Tags, indexing, random replacement, blocks | sets of ways, a second valid bit in the replacement data, load locks | findBlock, findVictim, insertBlock, invalidate, moveBlock, trackLoadLocked, checkWrite | full sets; state of a way that outlives its line; overlapping locks |
| L0 assembly, ports | three fifos, one ReqMonitor each | fifo write, ReqMonitor | ports racing; nobody looks at `blocked` |
| `sc_fifo` | ring buffer, three counters, two events | read, write, update | values that become visible one delta cycle later; several waiters on one event |
| Tagged prefetcher | queue of lines, two counters | notify, getPacket | a queued line that is stale when it is taken |
| Memory, TLM initiator | an array | b_transport | bounds check at the last block |
| Write queue | as Queue | allocate, markInService | its allocate aborts (inverted asserts) |
| Packets and requests | commands, flags | – | – |

SystemC processes are cooperative and no handler waits in the middle, so every
handler is one atomic action and the interleavings are those of whole handlers.
`b_transport` is a call: the memory answers within the step that sends the miss.
The build keeps asserts (no `NDEBUG`), so a failing assert ends the program; the
models record it (`abort`, `failed`, `assertFailed`) and take no step afterwards. `curTick()` is
never advanced and returns 0.

## 2. Modules

| Module | Models |
|---|---|
| `Lists` | a `std::list` as a sequence: erasing and inserting at a place |
| `Queue` | the queue object as a record; each method is an operator from record to record |
| `MSHRQueue` | the class driven by every order of calls its asserts allow (`Spec`) and as the cache drives it (`CacheSpec`) |
| `EntryPool` | abstract specification: an entry is free, pending or in flight |
| `NoncoherentCache` | the cache: `recvTimingReq`, `processSendEvent`, `retry` |
| `L0`, `MCL0` | the assembly: fifos, ReqMonitor processes, the send process; `retry` is left out because nothing calls it |
| `RequestLedger` | abstract specification for requestors: answered at most once, only after submission |
| `ScFifo` | the fifo of a port at the grain of delta cycles: `read`, `write`, `update` |
| `BoundedFifo` | abstract specification: a sequence with a capacity |
| `MSHR`, `WriteAllocator` | the two objects as records; each method is an operator |
| `MissPath`, `MCMissPath` | the handlers of the miss path that drive them: `handleTimingReqMiss`, `sendMSHRQueuePacket`, `recvTimingResp` |
| `TagStore`, `MCTagStore` | tags, index arithmetic, random replacement and the lock lists of blocks |
| `LineStore` | abstract specification: a set of lines, some dirty, and bytes reserved by contexts |
| `PacketQueue` | the base class `PacketQueue` with its thread, and a peer that may refuse |
| `Prefetch`, `MCPrefetch` | the tagged prefetcher beside the cache it watches |
| `QueueProofs`, `MSHRQueueProofs`, `MissPathProofs`, `TagStoreProofs`, `CacheProofs`, `L0Proofs`, `PortProofs`, `PrefetchProofs` | lemmas and proofs |

State and actions keep the names of the code.

**The program.** `NoncoherentCache` and `L0` are the program as it is. A block
address stands for the address and its secure bit. A packet is its number,
command and block. Data is left out: `satisfyRequest` is commented out in the
code and moves none. The write buffer is always empty because the first attempt
to fill it aborts. No code gives the cache a prefetcher (`sim.cpp` constructs one
and attaches it to nothing) or a write allocator (its initialiser is commented
out). Both pointers are therefore uninitialised; the model covers the executions
in which they are null, since any other value makes the first miss follow an
invalid pointer. The MSHR queue of the cache has no overflow entries (the
constructor passes 0); the queue modules keep `reserve` as a parameter because
the write buffer uses it. `NoncoherentCache` offers every public entry point,
`retry` included, so its results do not depend on who calls it.

**The classes.** `MissPath`, `TagStore`, `PacketQueue` and `Prefetch` model
classes by their interface, which is wider than what the program reaches:

* `MissPath` lets the response come any time after the send, readable or
  writable, and includes the write allocator, masked writes and maintenance
  requests. Of `sendMSHRQueuePacket` it has the branch that leaves the MSHR in
  service; the branch in which the memory answers at once is in
  `NoncoherentCache`. A miss the write allocator holds back is asked for again any
  number of times, because the call that would bring it back at a set time
  (`cache_base.cpp:1723`) is commented out.
* `TagStore` includes invalidation, moves and load-locked accesses, whose callers
  are commented out. Block size, sets and ways are arbitrary; the shifts of the
  code are the divisions by these sizes.
* `PacketQueue` has `schedSendTiming`, which nothing calls, and a `sendTiming`
  that may refuse, accept, and be interrupted by another packet.
* `Prefetch` shows accesses to the prefetcher where the two commented-out probe
  calls of `recvTimingReq` stand. All priorities are 0, as `Tagged` sets them;
  `addToQueue`'s insertion in the middle and `alreadyInQueue`'s change of
  priority matter only for others and are left out. The fill is an action of its
  own, `recvTimingResp`, some time after the send, so that accesses and prefetches
  come in between; the memory of the program answers within the send, which is
  the case in which nothing does. A miss that needs an MSHR when none
  is free fails an assert of the queue, so no step is given for it. The accesses `observeAccess` returns early on (fetches, reads,
  writes, invalidations and those never shown) are kinds of access.

Variables that are not in the code record history for a property: `received`,
`answered` (`NoncoherentCache`), `from` (`L0`), `written`, `output` (`ScFifo`),
`arrived`, `serviced`, `stream` (`MissPath`), `last` (`TagStore`),
`sent`, `refused`, `overtaken` (`PacketQueue`), `demanded` (`Prefetch`).

## 3. Runs

| Run | Module, configuration | Result | Shows |
|---|---|---|---|
| queue_api | MSHRQueue, MSHRQueueAPI | pass | lists, iterators, counters and targets stay consistent under any call sequence, and implement `EntryPool` |
| queue_cache | MSHRQueue, MSHRQueueCache | pass | `getNext` hides no ready entry; pending misses keep their order |
| cache_all | NoncoherentCache, NoncoherentCacheAll | pass | demand requests, locked accesses, writebacks and a memory that refuses its last block: requests conserved and answered in order, locks that keep others out, one MSHR and one way per block, blocking causes, wake-ups |
| l0 | MCL0, MCL0 | pass | two racing ports: `RequestLedger` implemented, order per port and block, every packet taken, a ready miss served while no retry is awaited |
| fifo | ScFifo, ScFifo | pass | `BoundedFifo` implemented, no wake-up lost, blocked writers go on |
| miss_path | MCMissPath, MCMissPath | pass | targets served in order, with right flags, by a response that can serve them; whole-line writes covered |
| tags | MCTagStore, MCTagStore | pass | `LineStore` implemented; a fill fails only in a full set |
| packet_queue | PacketQueue, PacketQueue | pass | packets conserved and in order, the limit exceeded by two at most; the asserts of the thread need a refusal |
| prefetch | MCPrefetch, MCPrefetch | pass | useful prefetches counted once, throttle within its degree, no line fetched twice, no demanded line left in the queue |
| cache_victim | NoncoherentCache, CacheVictim | violation | a fill into a full set aborts |
| cache_temp | NoncoherentCache, CacheTemp | violation | the second request that does not allocate on fill finds tempBlock still valid and aborts |
| l0_retry | MCL0, L0Retry | violation | a successful send leaves the queue waiting for a retry |

Bounds.

* The queue runs need two entries for a list order and three for an insert in the
  middle; `queue_api` has 1 + 1 entries and three targets, `queue_cache` three
  entries and four addresses, so an address always lacks an entry.
* The cache runs have 2 or 3 MSHRs, 3 blocks in one or two sets of two ways, and
  four requests: enough for a full set, a full MSHR queue, coalescing beyond
  `numTarget`, a locked block with waiters, and a fill after a retry.
  `maxRequests` is the only bound on behaviours; identifiers are consecutive, so
  no case is lost below it. `l0` has three requests, two MSHRs for three blocks
  and fifos of one and two slots, because TLC checks liveness on the whole graph.
* `fifo`: two readers and two writers contend for three slots, and seven packets
  wrap the ring twice.
* `miss_path`: blocks of two bytes, so that a write can be partial; four packets
  are a miss in service, two deferred and one more; three blocks let a stream
  cross both limits of the write allocator.
* `tags`: two sets of two ways and four lines, three of them in one set and two of
  these with one address and different secure bits; two contexts and requests of
  one and two bytes, so that locks overlap partly.
* `packet_queue`: a limit of two packets instead of 128, two addresses and two
  ticks, five packets.
* `prefetch`: six lines in two pages, a queue of two, two candidates for an access,
  four configurations of filter, squash, snoop, observed accesses and throttle,
  at most four issued.

Deadlock checking is off where the model ends by design: after an abort, or when
the bounded requests are used up. It is on in `queue_api`, `fifo` and `prefetch`.

Fairness. `L0Fairness`: weak fairness of each ReqMonitor and of the send process,
which is what the SystemC scheduler gives a runnable process; none for the CPU
processes, which need not write. `ScFifo!FifoFairness`: weak fairness of every
runnable process and of the end of the delta cycle.

Three properties name the exception the code makes for a cache above that writes a
block back. A dirty writeback allocates a block whose MSHR is still pending, so
later requests hit while earlier ones wait (`SameBlockInOrder`, `PortOrder`) and the
miss is for a block that is there (`MissNotCached`, where the assert of
`createMissPacket` then fails). A writeback also makes a locked block writable, though not
readable, so a write gets in before the locked write (`LockKeepsOthersOut`).
`ListByTick` is about lists without `forceOrder` and excludes the
one case in which `sendDeferredPacket` breaks the order itself, by putting a
refused packet back ahead of one enqueued in the middle of its send.

## 4. Where the program stops

The model of the cache reaches these aborts: a fill into a full set; a second
fill through tempBlock, which `invalidateBlock` leaves valid because its body is
commented out; a locked read that misses, when its fill arrives
(`serviceMSHRTargets` expects no target left); a locked write (the virtual
`recvTimingResp` it calls asserts `isRead()`); a writeback or WriteClean without a
block; a WriteClean on a locked block (write queue); a writeback before a pending
miss is sent (`createMissPacket`); a miss with no free MSHR, since ReqMonitor
does not look at `blocked`; the last block of the memory; and a wake-up while a
retry is awaited (`schedSendEvent` notifies although its header says "if we are
not already waiting for a retry"). The first two have a run of their own, as has
the retry that is awaited for nothing. Load-locked requests reach the second:
`cache_base.h:214` counts LLSC among the requests that allocate on fill, and
`allocOnFill` leaves it out.

Three more places where the classes do not do what a comment or an assert says:

* `MSHRQueue::delay` is said to move "MSHRs that will be ready earlier than this
  entry to the top of the list" (`mshr_queue.h:66`); its search starts at the
  delayed entry, so nothing moves. The cache delays only MSHRs a write allocator
  holds back, and has none.
* `PacketQueue::sendDeferredPacket` says "if we succeeded and are not waiting for a
  retry, schedule the next send" (`cache_packet_queue.cpp:127`); the thread's own
  notification comes before its `wait` and is lost, so the rest of the list stays
  until somebody enqueues at its front.
* `MSHR::promoteWritable` asserts that the targets need no writable block, which
  fails when a cache clean waits behind a write to the same block (theorem
  `AbortOnlyAtClean` shows that this is the only way).

## 5. Proofs

All theorems hold for every value of the constants that the named assumptions of
the modules allow. In each case the properties of the runs are not inductive alone.

* `MSHRQueueProofs`, for every number of entries, reserve and addresses:
  `QueueStaysConsistent`, `TargetsFollowAllocation`, `ReserveStaysAvailable`,
  `QueueImplementsPool`. The inductive invariant adds "free entries are idle".
  `QueueProofs` says what erase and insert do to the range, length and distinctness
  of a list, and shows that each method preserves the consistency of the queue
  object; `MSHRQueueProofs` has one step per action. The counters need the
  partition, because a decrement is right only if the erased entry was in the list.
  For the queue as the cache drives it (`CacheSpec`): `NoReadyMissIsHidden` and
  `PendingMissesKeepOrder`. The invariant there adds that the ready list is sorted
  by ready time (`ReadySorted`): `addToReadyList` inserts behind every entry that is
  not later, so an insertion keeps the order of the others and the first entry is
  the earliest.
* `MissPathProofs`, for every block size, limit and mix of requests:
  `TargetsServicedInOrder`, `FlagsAlwaysAgree`, `WritableAlwaysPending`,
  `WholeLineAlwaysCovered`, `ResponsesServeRightly`, `AbortOnlyAtClean`,
  `WriteAllocatorBounded`. There is one lemma per method and property of
  target lists; the invariant adds why a target may be deferred: a maintenance
  request is at the head of one of the two lists, or the request in service did not
  ask for a writable block. `ResponsesServeRightly` follows for the targets that
  were there from the permission the miss asked for, and for a promoted one from
  the rule that promoted it; a cache clean may be promoted among ordinary requests,
  and needs no permission.
* `TagStoreProofs`, for every geometry: `TagStoreTyped`, `FreeBlocksAlwaysBlank`,
  `FillNeverFailsEarly`, `WritebacksGoHome`, `LocksStayDisjoint`,
  `TagStoreImplementsLines`. The invariant is the types, blank free blocks,
  agreement of the two valid bits, unique tags in a set, and disjoint locks within
  their block: the refinement of a fill needs blank free blocks, that of a store
  conditional needs disjoint locks, and lookup needs that an address cut into tag
  and set can be put together again.

* `CacheProofs` and `L0Proofs`, for every number of MSHRs, targets, sets, ways,
  blocks, ports and requests.
  * `CacheProofs` proves the inductive invariant `CacheInv` (theorem
    `CacheInvariant`), with every command and every order of `recvTimingReq`,
    `processSendEvent` and `retry`, and derives all properties of `cache_all`
    from it: `CacheTypeCorrect`,
    `RequestsConserved`, `MSHRsAreUnique`, `BlocksAreUnique`,
    `BlockingFollowsOccupancy`, `NoTargetPointerLive`, `NoWakeupLost`,
    `NeverDefers`, `LockKeepsMSHR`, `OnlyLocksTakePermissions`. `CacheInv`
    has five parts. `MissInv`: the queue is consistent, an entry has
    targets while it is allocated, and one in service waits for a writable block.
    `BlockInv`: what sets and clears the blocking causes. `TagInv`: each block is in
    one way of its set, and accessible unless an MSHR in service locks it.
    `WakeInv`: a ready entry has the send process notified. `LedgerInv`: a request
    is waiting in one place or answered. They need each other: a response is given
    once because the entry that carries the target is unique, nothing is deferred
    because only a locked read leaves an entry in service, and that entry's
    permission comes from the block being cached. `BlockInv`
    has the comparison of counters `isFull`; that it means an empty free list follows
    from the partition in `MissInv`.
  * In `L0Proofs`, `L0Invariant` carries `CacheInv` over to the assembled program, whose fifos hand
    packets over in any interleaving, and `L0ImplementsLedger` is the refinement of
    `RequestLedger`: the step of a handler answers a set of requests that were
    received before or in this step and had no answer.
  * `RequestsInOrder`, `MissesAreNotCached`, `LocksKeepOthersOut`, and `PortsInOrder`
    for the assembled program, with every command. `CacheProofs` says what each
    handler does to the MSHRs and the tags (`CallCases`, `SendCases`). From this
    follows `AllocInv`: unless its block was written back, a pending MSHR's block is
    not cached, and that of an MSHR in service is cached without permissions. So a hit
    finds no waiting request for its block, and a response answers all of them: a
    step that answers a request, other than a store conditional, leaves none for the
    same block (`Drains`). Order then follows from the order of arrival, and per port
    from `PortSequence`. `LockInv` says that after the answer to a locked read its
    block has an MSHR in service and is not readable, and not writable either until a
    writeback arrives; every later request then fails its lookup and waits,
    but for a write after a writeback.
    It is proved of `NoncoherentCache`, where requests are numbered as they arrive.
* `PortProofs`, on the base class `PacketQueue`, for every set of addresses and ticks
  and every limit: `PacketsAreConserved`, `AddressesInOrder`, `ListStaysByTick`,
  `AcceptingPeerNeverAborts`. The invariant `PacketInv` is about the packets sent
  followed by those in the list: each number appears once, the list exceeds its limit
  by two at most, and two packets of one
  address appear, with `forceOrder`, in the order they were handed over, because an
  insertion then goes behind the last packet of its address. `NotifiedWithCause` says that until a
  packet is refused no retry is awaited and the thread is notified only while there
  is a packet to send, from which its asserts follow.
* `PortProofs`, on `ScFifo`, for every capacity and any readers and writers:
  `SlotsAccountedAlways`, `NoWakeupIsLost`, `AssertsNeverFail`,
  `RingImplementsFifo`. The invariant ties the indices of the ring to the number of
  free slots; a wake-up is not lost because a waiter that sees the fifo empty has
  seen all that was readable, and what is written later in the delta cycle notifies.
* `PrefetchProofs`, for every page size, queue size, degree and configuration:
  `LinesFetchedOnce`, `UsefulCountedOnce`, `NoPrefetchQueuedBehindDemand`,
  `ThrottleBounded`. The
  invariant `PrefetchInv` says that a marked line is cached, that a cached line has
  no MSHR and no line has two, and that the useful prefetches, the marked blocks and
  the MSHRs that still belong to a prefetch are together no more than the issued
  ones. The throttle rests on this: with no more useful than issued prefetches the
  accuracy is at most 100, and a share of the candidates at most all of them
  (`ShareWithin`). `BehindInv` adds that every line shown to the prefetcher is cached or has an
  MSHR, and so is refused by the snoop of `insert` from then on; the squash at the
  access itself removes what was queued before. Both loops of `notify` are recursive
  functions over their rounds. That no round lets a demanded line in is shown by the
  least round that would (`NoFirstRound`), which rests on the natural numbers being
  well-founded rather than on an induction rule.

Only model-checked: liveness (`EveryRequestTaken`, `ReadyMissServed`,
`WriterResumed`), which is out of the prover's reach, as is `ENABLED`.

## 6. Not modelled

* Most lines under `src/` are the vendored SystemC and spdlog libraries. Of these
  only `sc_fifo` is modelled. The SystemC kernel appears as atomicity, immediate
  notification and fairness.
* Functional, atomic, drain and serialisation paths: commented out in the code.
* The write queue beyond its first allocation, which aborts: no execution has a
  later state, so a model of it would be about a different program.
* Snoops of the MSHR: nothing in a non-coherent cache calls them.
* Address translation of the prefetcher: there is no MMU, and candidates do not
  leave their page.
* Data contents, payload sizes and the memory array: the cache returns no data.
* Statistics, probes without listeners, logging, the skewed index, the empty
  coherent `Cache` subclass, and utilities of the base library.
