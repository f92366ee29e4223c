--------------------------- MODULE NoncoherentCache ---------------------------
(***************************************************************************)
(* The cache itself: NoncoherentCache (cache/cache_noncoherent.cpp) on     *)
(* BaseCache (cache/cache_base.cpp), with its tags, its MSHR queue, its    *)
(* request packet queue and the SystemC process that drains it.            *)
(*                                                                         *)
(* Two kinds of process call the cache: a CpuSidePort process calls        *)
(* recvTimingReq, and pktQueueProcess calls processSendEvent.  SystemC     *)
(* processes are cooperative and neither handler waits, so each handler is *)
(* one atomic step and the steps interleave freely.  An assert that fails  *)
(* aborts the program (the build keeps asserts): `abort' names it and      *)
(* nothing happens afterwards.                                             *)
(*                                                                         *)
(* Data is left out: BaseCache::satisfyRequest moves none.  The write      *)
(* buffer is always empty, because the first attempt to fill it aborts     *)
(* (WriteQueueEntry::allocate).  No code gives the cache a prefetcher or a *)
(* write allocator: both pointers are left uninitialised, and the model    *)
(* covers the executions in which they are null.                           *)
(***************************************************************************)
EXTENDS Queue

CONSTANTS numSets,     \* sets of the tags
          assoc,       \* ways of a set
          numTarget,   \* targets an MSHR takes before the cache blocks
          memBlocks,   \* blocks of the memory below
          Cmds,        \* commands the CPU side issues
          maxRequests  \* bound: requests in one behaviour

\* The constructor gives the MSHR queue no overflow entries.
ASSUME CacheAssumption ==
    /\ reserve = 0
    /\ numSets \in Nat \ {0} /\ assoc \in Nat \ {0}
    /\ numTarget \in Nat /\ memBlocks \in Nat
    /\ Addr \subseteq 0 .. memBlocks - 1
    /\ Cmds \subseteq {"ReadReq", "WriteReq", "WritebackDirty", "WritebackClean",
                       "WriteClean", "LoadLockedReq", "StoreCondReq",
                       "LockedRMWReadReq", "LockedRMWWriteReq", "SwapReq"}
    /\ maxRequests \in Nat

VARIABLES q,               \* mshrQueue
          targets,         \* entry -> its targets, oldest first
          deferred,        \* entry -> its deferredTargets
          pendingModified, \* entry -> its pendingModified
          tags,            \* set -> way -> [blk, bits]
          tempValid,       \* tempBlock->isValid()
          blocked,         \* causes the access path is blocked for
          noTargetMSHR,
          waitingOnRetry,  \* of the request packet queue
          proc,            \* pktQueueProcess: "waiting" for sendEvent or "runnable"
          received,        \* the requests accepted so far
          answered,        \* request -> times it was made a response
          abort            \* the assert that failed, or "none"

missVars == <<q, targets, deferred, pendingModified>>
vars == <<missVars, tags, tempValid, blocked, noTargetMSHR, waitingOnRetry,
          proc, received, answered, abort>>

Request == 1 .. maxRequests

\* A target that is not a request of the CPU side: the copy a locked read
\* leaves in its MSHR.
Copy == 0

Packet == [id : Request \cup {Copy}, cmd : Cmds, blk : Addr]

NoBlk == -1

Bits == {"Readable", "Writable", "Dirty"}

(***************************************************************************)
(* Command attributes                                                      *)
(***************************************************************************)

needsWritable(cmd) ==
    cmd \in {"WriteReq", "StoreCondReq", "LockedRMWReadReq",
             "LockedRMWWriteReq", "SwapReq"}

isWriteback(cmd) == cmd \in {"WritebackDirty", "WritebackClean"}

needsResponse(cmd) == ~isWriteback(cmd) /\ cmd # "WriteClean"

allocOnFill(cmd) == cmd \in {"ReadReq", "WriteReq"}

(***************************************************************************)
(* Tags                                                                    *)
(***************************************************************************)

Way == 1 .. assoc

extractSet(b) == b % numSets

\* Mutant: the search starts at the second way.
findBlockFromSecond(b) ==
    LET hit == {w \in Way \ {1} : tags[extractSet(b)][w].blk = b}
    IN  IF hit = {} THEN Null ELSE CHOOSE w \in hit : \A v \in hit : w <= v

\* The way that holds block b, or Null.
findBlock(b) ==
    LET hit == {w \in Way : tags[extractSet(b)][w].blk = b}
    IN  IF hit = {} THEN Null ELSE CHOOSE w \in hit : \A v \in hit : w <= v

Cached(b) == findBlock(b) # Null

isSet(b, bit) == Cached(b) /\ bit \in tags[extractSet(b)][findBlock(b)].bits

\* What findVictim may return: the first invalid way, or any way at random.
findVictim(b) ==
    LET free == {w \in Way : tags[extractSet(b)][w].blk = NoBlk}
    IN  IF free = {} THEN Way ELSE {CHOOSE w \in free : \A v \in free : w <= v}

\* BaseTags::insertBlock asserts that the victim is invalid; handleEvictions,
\* which should have seen to it, does nothing.
canAllocateBlock(b) == \E w \in findVictim(b) : tags[extractSet(b)][w].blk = NoBlk

\* Mutant: a new block is never writable.
allocateBlockShared(b, bits) ==
    LET s == extractSet(b)
        w == CHOOSE v \in findVictim(b) : TRUE
    IN  [tags EXCEPT ![s] = [@ EXCEPT ![w] = [blk |-> b, bits |-> bits \ {"Writable"}]]]

\* The tags with block b inserted, its coherence bits set to `bits'.
allocateBlock(b, bits) ==
    LET s == extractSet(b)
        w == CHOOSE v \in findVictim(b) : TRUE
    IN  [tags EXCEPT ![s] = [@ EXCEPT ![w] = [blk |-> b, bits |-> bits]]]

\* Mutant: bits are set and never cleared.
setBitsOnly(b, bits) ==
    LET s == extractSet(b)
        w == findBlock(b)
    IN  [tags EXCEPT ![s] = [@ EXCEPT ![w] = [@ EXCEPT !.bits = @ \cup bits]]]

\* The tags with the coherence bits of the cached block b changed.
setBits(b, bits) ==
    LET s == extractSet(b)
        w == findBlock(b)
    IN  [tags EXCEPT ![s] = [@ EXCEPT ![w] = [blk |-> b, bits |-> bits]]]

bitsOf(b) == tags[extractSet(b)][findBlock(b)].bits

(***************************************************************************)
(* Initial state: the constructor                                          *)
(***************************************************************************)

Init ==
    /\ q = NewQueue(CHOOSE a \in Addr : TRUE)  \* no blkAddr is read before it is set
    /\ targets = [e \in Entry |-> << >>]
    /\ deferred = [e \in Entry |-> << >>]
    /\ pendingModified = [e \in Entry |-> FALSE]
    /\ tags = [s \in 0 .. numSets - 1 |-> [w \in Way |-> [blk |-> NoBlk, bits |-> {}]]]
    /\ tempValid = FALSE
    /\ blocked = {}
    /\ noTargetMSHR = Null
    /\ waitingOnRetry = FALSE
    /\ proc = "waiting"
    /\ received = {}
    /\ answered = [r \in Request |-> 0]
    /\ abort = "none"

\* The asserts and error returns that may end the program.
Asserts ==
    {"access: blk && blk->isValid()", "insertBlock: !blk->isValid()",
     "WriteQueueEntry::allocate", "handleTimingReqHit: !findMatch",
     "allocate: !freeList.empty()", "recvTimingReq: locked block",
     "handleTimingReqHit: mshr", "recvTimingResp: pkt->isRead()",
     "handleTimingReqMiss: mshr || !blk", "createMissPacket: !blk",
     "Read: response", "setValid: !isValid()",
     "serviceMSHRTargets: no targets left", "processSendEvent: !waitingOnRetry"}

\* A failed assert ends the program.
Abort(assertion) ==
    /\ abort' = assertion
    /\ UNCHANGED <<missVars, tags, tempValid, blocked, noTargetMSHR,
                   waitingOnRetry, proc, received, answered>>

(***************************************************************************)
(* recvTimingReq: one action per way through access(),                     *)
(* handleTimingReqHit() and handleTimingReqMiss()                          *)
(***************************************************************************)

Received(p) == received' = received \cup {p}

\* Mutant: a request is made a response twice.
RespondTwice(ids) == answered' = [r \in Request |-> answered[r] + IF r \in ids THEN 2 ELSE 0]

Respond(ids) == answered' = [r \in Request |-> answered[r] + IF r \in ids THEN 1 ELSE 0]

\* Mutant: a read needs no permission.
PermittedRead(p) == IF needsWritable(p.cmd) THEN isSet(p.blk, "Writable") ELSE Cached(p.blk)

\* access() finds the block with the permission the command needs.
Permitted(p) ==
    isSet(p.blk, IF needsWritable(p.cmd) THEN "Writable" ELSE "Readable")

\* A store conditional without a block fails, and that satisfies it.
FailedStoreCond(p) == p.cmd = "StoreCondReq" /\ ~Cached(p.blk)

\* Mutant: the process is woken only when the MSHR queue was empty.
schedSendEventWhenEmpty == proc' = IF q.allocated = 0 THEN "runnable" ELSE proc

\* Mutant: the process is not woken.
schedSendEventLost == UNCHANGED proc

\* sendEvent.notify(): wakes pktQueueProcess whether or not a retry is due.
schedSendEvent == proc' = "runnable"

\* Mutant: the cause of the write buffer is set.
setBlockedWrongCause(newq) ==
    blocked' = IF isFull(newq) THEN blocked \cup {"NoWBBuffers"} ELSE blocked

setBlocked(newq) ==
    blocked' = IF isFull(newq) THEN blocked \cup {"NoMSHRs"} ELSE blocked

Hit(p) ==
    /\ p.cmd \notin {"LockedRMWReadReq", "LockedRMWWriteReq"} /\ ~isWriteback(p.cmd)
    /\ Permitted(p) \/ FailedStoreCond(p)
    /\ tags' = IF p.cmd = "WriteClean"
               THEN setBits(p.blk, bitsOf(p.blk) \cup {"Writable"}) ELSE tags
    /\ Received(p)
    /\ Respond(IF needsResponse(p.cmd) THEN {p.id} ELSE {})
    /\ UNCHANGED <<missVars, tempValid, blocked, noTargetMSHR, waitingOnRetry,
                   proc, abort>>

\* A clean writeback to a block with an outstanding MSHR is dropped, but
\* NoncoherentCache::access still asks for the block and makes it writable.
DropCleanWriteback(p) ==
    /\ p.cmd = "WritebackClean" /\ findMatch(q, p.blk) # Null
    /\ \/ /\ Cached(p.blk)
          /\ tags' = setBits(p.blk, bitsOf(p.blk) \cup {"Writable"})
          /\ Received(p)
          /\ UNCHANGED <<missVars, tempValid, blocked, noTargetMSHR,
                         waitingOnRetry, proc, answered, abort>>
       \/ ~Cached(p.blk) /\ Abort("access: blk && blk->isValid()")

\* Any other writeback is written into the block it finds or allocates.
Writeback(p) ==
    LET dirty == IF p.cmd = "WritebackDirty" THEN {"Dirty"} ELSE {}
    IN  /\ isWriteback(p.cmd)
        /\ ~(p.cmd = "WritebackClean" /\ findMatch(q, p.blk) # Null)
        /\ \/ /\ Cached(p.blk)
              /\ tags' = setBits(p.blk, bitsOf(p.blk) \cup dirty \cup {"Writable"})
              /\ Received(p)
              /\ UNCHANGED <<missVars, tempValid, blocked, noTargetMSHR,
                             waitingOnRetry, proc, answered, abort>>
           \/ /\ ~Cached(p.blk) /\ canAllocateBlock(p.blk)
              /\ tags' = allocateBlock(p.blk, {"Readable", "Writable"} \cup dirty)
              /\ Received(p)
              /\ UNCHANGED <<missVars, tempValid, blocked, noTargetMSHR,
                             waitingOnRetry, proc, answered, abort>>
           \/ /\ ~Cached(p.blk) /\ ~canAllocateBlock(p.blk)
              /\ Abort("insertBlock: !blk->isValid()")

\* A WriteClean that does not hit needs the write buffer, or a block.
WriteCleanMiss(p) ==
    /\ p.cmd = "WriteClean" /\ ~Permitted(p)
    /\ Abort(IF Cached(p.blk) THEN "WriteQueueEntry::allocate"
                              ELSE "access: blk && blk->isValid()")

\* A locked read that hits locks the block: it allocates an MSHR, marks it in
\* service so that it is never sent, and takes the permissions away.
LockedReadHit(p) ==
    LET e    == Head(q.freeList)
        newq == allocateEntry(q, p.blk, curTick)
    IN  /\ p.cmd = "LockedRMWReadReq" /\ Permitted(p)
        /\ \/ /\ findMatch(q, p.blk) # Null
              /\ Abort("handleTimingReqHit: !findMatch")
           \/ /\ findMatch(q, p.blk) = Null /\ q.freeList = << >>
              /\ Abort("allocate: !freeList.empty()")
           \/ /\ findMatch(q, p.blk) = Null /\ q.freeList # << >>
              /\ q' = markInService(newq, e)
              /\ targets' = [targets EXCEPT ![e] = <<[p EXCEPT !.id = Copy]>>]
              /\ pendingModified' = [pendingModified EXCEPT ![e] = needsWritable(p.cmd)]
              /\ setBlocked(newq)
              /\ schedSendEvent
              /\ tags' = setBits(p.blk, bitsOf(p.blk) \ {"Readable", "Writable"})
              /\ Received(p)
              /\ Respond({p.id})
              /\ UNCHANGED <<deferred, tempValid, noTargetMSHR, waitingOnRetry, abort>>

\* A locked write restores the permissions, hits, and answers the pending
\* locked read with a LockedRMWWriteResp, which NoncoherentCache::recvTimingResp
\* takes for an error: it accepts only read responses.
LockedWrite(p) ==
    /\ p.cmd = "LockedRMWWriteReq"
    /\ Abort(IF ~Cached(p.blk) \/ bitsOf(p.blk) \cap {"Readable", "Writable"} # {}
             THEN "recvTimingReq: locked block"
             ELSE IF findMatch(q, p.blk) = Null THEN "handleTimingReqHit: mshr"
             ELSE "recvTimingResp: pkt->isRead()")

Miss(p) ==
    /\ ~isWriteback(p.cmd) /\ p.cmd \notin {"WriteClean", "LockedRMWWriteReq"}
    /\ ~Permitted(p) /\ ~FailedStoreCond(p)

\* Mutant: a pending writable response does not count.
mustDeferAlways(e, p) ==
    \/ deferred[e] # << >>
    \/ q.inService[e] /\ needsWritable(p.cmd)

\* MSHR::allocateTarget: whether a target has to wait for another response.
mustDefer(e, p) ==
    \/ deferred[e] # << >>
    \/ q.inService[e] /\ needsWritable(p.cmd) /\ ~pendingModified[e]

\* A miss to a block with an MSHR becomes one of its targets.
MissCoalesced(p) ==
    LET e    == findMatch(q, p.blk)
        more == Len(targets[e]) + Len(deferred[e]) + 1
    IN  /\ Miss(p) /\ e # Null
        /\ targets' = IF mustDefer(e, p) THEN targets
                      ELSE [targets EXCEPT ![e] = Append(@, p)]
        /\ deferred' = IF mustDefer(e, p) THEN [deferred EXCEPT ![e] = Append(@, p)]
                       ELSE deferred
        /\ noTargetMSHR' = IF more >= numTarget THEN e ELSE noTargetMSHR
        /\ blocked' = IF more >= numTarget THEN blocked \cup {"NoTargets"} ELSE blocked
        /\ Received(p)
        /\ UNCHANGED <<q, pendingModified, tags, tempValid, waitingOnRetry, proc,
                       answered, abort>>

\* Any other miss allocates an MSHR, full or not, and wakes pktQueueProcess.
MissAllocated(p) ==
    LET newq == allocateEntry(q, p.blk, curTick)
    IN  /\ Miss(p) /\ findMatch(q, p.blk) = Null
        /\ \/ /\ Cached(p.blk) \/ q.freeList = << >>
              /\ Abort(IF Cached(p.blk) THEN "handleTimingReqMiss: mshr || !blk"
                                        ELSE "allocate: !freeList.empty()")
           \/ /\ ~Cached(p.blk) /\ q.freeList # << >>
              /\ q' = newq
              /\ targets' = [targets EXCEPT ![Head(q.freeList)] = <<p>>]
              /\ setBlocked(newq)
              /\ schedSendEvent
              /\ Received(p)
              /\ UNCHANGED <<deferred, pendingModified, tags, tempValid,
                             noTargetMSHR, waitingOnRetry, answered, abort>>

recvTimingReq(p) ==
    /\ abort = "none"
    /\ \/ Hit(p) \/ DropCleanWriteback(p) \/ Writeback(p) \/ WriteCleanMiss(p)
       \/ LockedReadHit(p) \/ LockedWrite(p)
       \/ MissCoalesced(p) \/ MissAllocated(p)

(***************************************************************************)
(* sendDeferredPacket: send the next MSHR and handle the answer, which the *)
(* memory gives within the call                                            *)
(***************************************************************************)

\* Memory::check_address on a whole block: the last block is refused.
check_address(b) == b + 1 < memBlocks

allocOnFillOf(e) == \E i \in 1 .. Len(targets[e]) : allocOnFill(targets[e][i].cmd)

\* extractServiceableTargets leaves a locked read and what follows it.
TargetsLeft(e) ==
    \/ deferred[e] # << >>
    \/ \E i \in 1 .. Len(targets[e]) : targets[e][i].cmd = "LockedRMWReadReq"

\* The first assert that stops the miss of entry e, or "none".
MissFails(e) ==
    LET b == q.blkAddr[e]
    IN  CASE Cached(b)                                  -> "createMissPacket: !blk"
          [] ~Cached(b) /\ ~check_address(b)            -> "Read: response"
          [] ~Cached(b) /\ check_address(b) /\ allocOnFillOf(e)
               /\ ~canAllocateBlock(b)                  -> "insertBlock: !blk->isValid()"
          [] ~Cached(b) /\ check_address(b) /\ ~allocOnFillOf(e)
               /\ tempValid                             -> "setValid: !isValid()"
          [] OTHER -> IF TargetsLeft(e) THEN "serviceMSHRTargets: no targets left"
                                        ELSE "none"

\* handleFill: into the tags when a target allocates, else into tempBlock,
\* which nothing invalidates afterwards.
handleFill(e) ==
    /\ tags' = IF allocOnFillOf(e)
               THEN allocateBlock(q.blkAddr[e], {"Readable", "Writable"}) ELSE tags
    /\ tempValid' = (tempValid \/ ~allocOnFillOf(e))

\* Mutant: only the first target is answered.
ServicedFirstOnly(e) == {Head(targets[e]).id}

\* Mutant: only the newest target is answered.
ServicedNewestOnly(e) == {targets[e][Len(targets[e])].id}

\* extractServiceableTargets, with no locked read among them: all targets.
ServicedTargets(e) == {targets[e][i].id : i \in 1 .. Len(targets[e])}

\* Mutant: the pointer is kept when its MSHR is answered.
noTargetKept(e) == noTargetMSHR

\* noTargetMSHR once the response of MSHR e has been taken.
noTargetAfter(e) == IF noTargetMSHR = e THEN Null ELSE noTargetMSHR

\* recvTimingResp: unblock, fill, answer every target, free the MSHR.
recvTimingResp(e) ==
    LET newq  == deallocateEntry(q, e)
        freed == (IF noTargetMSHR = e THEN {"NoTargets"} ELSE {})
                   \cup (IF isFull(q) /\ ~isFull(newq) THEN {"NoMSHRs"} ELSE {})
    IN  /\ noTargetMSHR' = noTargetAfter(e)
        /\ handleFill(e)
        /\ Respond(ServicedTargets(e))
        /\ targets' = [targets EXCEPT ![e] = << >>]
        /\ q' = newq
        /\ blocked' = blocked \ freed

\* sendMSHRQueuePacket returns TRUE when the send succeeded, and
\* sendDeferredPacket takes TRUE to mean that a retry is due.
SendMSHR(e) ==
    IF MissFails(e) # "none" THEN Abort(MissFails(e))
    ELSE /\ recvTimingResp(e)
         /\ waitingOnRetry' = TRUE
         /\ UNCHANGED <<deferred, pendingModified, received, abort>>

\* pktQueueProcess after its wait.  With nothing to send, schedSendEvent
\* notifies the event of the process that is running: nobody is waiting for
\* it, and the notification is lost.
processSendEvent ==
    LET e == getNext(q)
    IN  /\ abort = "none" /\ proc = "runnable"
        /\ \/ waitingOnRetry /\ Abort("processSendEvent: !waitingOnRetry")
           \/ /\ ~waitingOnRetry /\ e = Null
              /\ proc' = "waiting"
              /\ UNCHANGED <<missVars, tags, tempValid, blocked, noTargetMSHR,
                             waitingOnRetry, received, answered, abort>>
           \/ /\ ~waitingOnRetry /\ e # Null
              /\ SendMSHR(e)
              /\ proc' = IF MissFails(e) = "none" THEN "waiting" ELSE proc

\* PacketQueue::retry, called by the process that owns the port below: it
\* sends the next MSHR or, with nothing to send, wakes pktQueueProcess.
retry ==
    LET e == getNext(q)
    IN  /\ abort = "none" /\ waitingOnRetry
        /\ \/ /\ e = Null
              /\ waitingOnRetry' = FALSE
              /\ schedSendEvent
              /\ UNCHANGED <<missVars, tags, tempValid, blocked, noTargetMSHR,
                             received, answered, abort>>
           \/ /\ e # Null
              /\ SendMSHR(e)
              /\ UNCHANGED proc

(***************************************************************************)
(* The cache under every order of calls                                    *)
(***************************************************************************)

\* Requests arrive with consecutive numbers.
Arrive == \E r \in Request, c \in Cmds, b \in Addr :
             /\ {p.id : p \in received} = 1 .. r - 1
             /\ recvTimingReq([id |-> r, cmd |-> c, blk |-> b])

Next == Arrive \/ processSendEvent \/ retry

Spec == Init /\ [][Next]_vars

(***************************************************************************)
(* Properties                                                              *)
(***************************************************************************)

TypeOK ==
    /\ q \in QueueType
    /\ targets \in [Entry -> Seq(Packet)]
    /\ deferred \in [Entry -> Seq(Packet)]
    /\ pendingModified \in [Entry -> BOOLEAN]
    /\ tags \in [0 .. numSets - 1 ->
                   [Way -> [blk : Addr \cup {NoBlk}, bits : SUBSET Bits]]]
    /\ tempValid \in BOOLEAN
    /\ blocked \subseteq {"NoMSHRs", "NoTargets"}
    /\ noTargetMSHR \in Entry \cup {Null}
    /\ waitingOnRetry \in BOOLEAN
    /\ proc \in {"waiting", "runnable"}
    /\ received \subseteq Packet
    /\ answered \in [Request -> Nat]
    /\ abort \in {"none"} \cup Asserts

Outstanding == Range(q.allocatedList)

\* Where request p waits: the places it has in the target lists of MSHRs
\* allocated for its own block.
Places(p) ==
    {x \in UNION {{e} \X (1 .. Len(targets[e])) : e \in Outstanding} :
        q.blkAddr[x[1]] = p.blk /\ targets[x[1]][x[2]] = p}

\* No request is lost, duplicated or answered twice: a request that needs a
\* response is either a target, in one place, of an MSHR for its block, or has
\* been made a response exactly once (handleTimingReqHit, serviceMSHRTargets);
\* one that needs no response is never answered and never waits.
RequestConservation ==
    \A p \in received :
        IF needsResponse(p.cmd) /\ answered[p.id] = 0
        THEN \E x \in Places(p) : Places(p) = {x}
        ELSE Places(p) = {} /\ answered[p.id] = IF needsResponse(p.cmd) THEN 1 ELSE 0

\* A cache above has written block b back.
WrittenBack(b) == \E w \in received : isWriteback(w.cmd) /\ w.blk = b

\* Requests to one block are answered in the order they arrived, although
\* hits, coalesced misses and locked blocks answer at different times.  There
\* are two exceptions: access() answers a failing store conditional at once,
\* and a writeback to the block lets later requests hit while earlier ones wait.
SameBlockInOrder ==
    \A p, r \in received :
        (/\ p.blk = r.blk /\ p.id < r.id
         /\ needsResponse(p.cmd) /\ r.cmd # "StoreCondReq"
         /\ answered[r.id] > 0) => answered[p.id] > 0 \/ WrittenBack(p.blk)

\* handleTimingReqMiss coalesces: a block has one MSHR at a time.
OneMSHRPerBlock ==
    \A d, e \in Outstanding : q.blkAddr[d] = q.blkAddr[e] => d = e

\* The block of an MSHR still to be sent is not in the tags, as createMissPacket
\* asserts ("A miss can happen only due to missing block"), unless a cache above
\* has written this very block back: fills, locks and writebacks to other blocks
\* never bring it in.
MissNotCached ==
    \A e \in Range(q.readyList) : Cached(q.blkAddr[e]) => WrittenBack(q.blkAddr[e])

\* A block is in one way at most.
NoDuplicateBlock ==
    \A s \in 0 .. numSets - 1 : \A v, w \in Way :
        tags[s][v].blk = tags[s][w].blk /\ tags[s][v].blk # NoBlk => v = w

\* Blocked_NoMSHRs is set exactly while no MSHR is free: set by allocateMissBuffer
\* and cleared by recvTimingResp, which ask isFull, a comparison of counters.
BlockedWhenFull == "NoMSHRs" \in blocked <=> q.freeList = << >>

\* noTargetMSHR never dangles: while the cache is blocked for targets it points
\* at an allocated MSHR with at least numTarget targets, and otherwise at none.
NoTargetMSHRLive ==
    IF "NoTargets" \in blocked
    THEN noTargetMSHR \in Outstanding /\ Len(targets[noTargetMSHR]) >= numTarget
    ELSE noTargetMSHR = Null

\* No lost wake-up: when the packet queue is not waiting for a retry and an
\* MSHR is ready, pktQueueProcess has been notified and will run.
NoStrandedMiss ==
    abort = "none" /\ ~waitingOnRetry /\ getNext(q) # Null => proc = "runnable"

\* A locked read makes its block inaccessible "to make sure no one gets in before
\* the write" (recvTimingReq).  No later request to the block is answered, with
\* one exception: NoncoherentCache::access makes the block writable again, though
\* not readable, when a cache above writes it back, and then a write gets in.
LockKeepsOthersOut ==
    \A l, p \in received :
        (/\ l.cmd = "LockedRMWReadReq" /\ answered[l.id] > 0
         /\ p.blk = l.blk /\ l.id < p.id /\ answered[p.id] > 0)
            => /\ needsWritable(p.cmd)
               /\ \E w \in received : /\ isWriteback(w.cmd) /\ w.blk = l.blk
                                      /\ l.id < w.id /\ w.id < p.id

\* Every response brings in a writable block, so no target is ever deferred
\* (serviceMSHRTargets, "there should be no deferred targets").
NothingDeferred == \A e \in Entry : deferred[e] = << >>

\* A block that is cached without permissions always has the MSHR that locked it,
\* whatever arrived in between: neither the assert of handleTimingReqMiss on a miss
\* to a cached block fires, nor the one of handleTimingReqHit on a locked write.
LockedBlockHasMSHR ==
    abort \notin {"handleTimingReqMiss: mshr || !blk", "handleTimingReqHit: mshr"}

\* A cached block that is not locked can be read and written: permissions are
\* lost only to a locked read, and "we can always write to a non coherent cache
\* if the block is present" otherwise (NoncoherentCache::handleTimingReqMiss).
UnlockedBlockPermitted ==
    \A b \in Addr :
        Cached(b) => \/ {"Readable", "Writable"} \subseteq bitsOf(b)
                     \/ \E e \in Outstanding : q.blkAddr[e] = b /\ q.inService[e]

(***************************************************************************)
(* What comments, declarations and asserts of the code say, and the code   *)
(* does not keep                                                           *)
(***************************************************************************)

\* insertBlock: "Previous block, if existed, has been removed".
VictimRemoved == abort # "insertBlock: !blk->isValid()"

\* recvTimingResp: "if we used temp block, check to see if its valid and then
\* clear it".  A fill that needs tempBlock therefore finds it invalid.
TempBlockCleared == abort # "setValid: !isValid()"

\* sendMSHRQueuePacket returns "True if the port is waiting for a retry", "and
\* will be creating a new packet when we get the opportunity": a miss that has
\* not been sent is still there to be sent again.
RetryHasMiss == waitingOnRetry => q.readyList # << >>

=============================================================================
