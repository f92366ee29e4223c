------------------------------- MODULE MissPath -------------------------------
(***************************************************************************)
(* The miss path of BaseCache (cache/cache_base.cpp) for a few blocks: an  *)
(* MSHR for each, the write allocator, and the three handlers that drive   *)
(* them: handleTimingReqMiss, sendMSHRQueuePacket and recvTimingResp.      *)
(*                                                                         *)
(* This is the interface of the classes with every answer of the memory    *)
(* side BaseCache provides for: the response may come any time after the   *)
(* send, bring in a readable or a writable block, or an invalidation.  The *)
(* program of this repository uses a part of it, in module                 *)
(* NoncoherentCache: no write allocator, and an answer within the send.    *)
(***************************************************************************)
EXTENDS MSHR, WriteAllocator, FiniteSets

CONSTANTS Blk,         \* block numbers
          Kind,        \* [cmd, bytes, special, masked, blk]: what a packet may be
          maxRequests  \* bound: packets in a behaviour

ASSUME SizeAssumption ==
    /\ blkSize \in Nat \ {0} /\ maxRequests \in Nat
    /\ coalesceLimit \in Nat /\ noAllocateLimit \in Nat /\ delayThreshold \in Nat

ASSUME KindAssumption ==
    /\ Blk \subseteq Nat
    /\ Kind \subseteq [cmd : Cmd, bytes : SUBSET Byte, special : BOOLEAN, masked : BOOLEAN, blk : Blk]
    /\ \A k \in Kind : isWrite(k) <=> k.bytes # {}

VARIABLES mshr,      \* block -> its MSHR, or a free one
          wa,        \* the write allocator
          arrived,   \* block -> packets that missed on it, in order
          serviced,  \* block -> packets answered, in order
          abort,     \* an assert failed
          stream     \* [end, size]: the run of consecutive writes seen last

vars == <<mshr, wa, arrived, serviced, abort, stream>>

\* An MSHR on the free list.
Free == [targets |-> EmptyList, deferred |-> EmptyList, inService |-> FALSE,
         pendingModified |-> FALSE, wasWholeLineWrite |-> FALSE]

Init ==
    /\ mshr = [b \in Blk |-> Free]
    /\ wa = NewWriteAllocator(Blk)
    /\ arrived = [b \in Blk |-> << >>] /\ serviced = [b \in Blk |-> << >>]
    /\ abort = FALSE
    /\ stream = [end |-> 0, size |-> 0]

InUse(b) == mshr[b].targets.list # << >>

\* Address of the first byte of write p.
getAddr(p) == p.blk * blkSize + Min(p.bytes)

\* The write allocator sees a write that misses.
observeWrite(p) ==
    LET n == Cardinality(p.bytes)
    IN  IF isWrite(p)
        THEN /\ wa' = updateMode(wa, getAddr(p), n, p.blk)
             /\ stream' = [end |-> getAddr(p) + n,
                           size |-> n + IF stream.end = getAddr(p) THEN stream.size ELSE 0]
        ELSE UNCHANGED <<wa, stream>>

\* A packet misses: it becomes a target of the MSHR of its block or gets one.
\* A prefetch is issued only for a block without an MSHR (getNextQueueEntry).
handleTimingReqMiss(p) ==
    /\ ~abort
    /\ isPrefetch(p) => ~InUse(p.blk)
    /\ observeWrite(p)
    /\ mshr' = [mshr EXCEPT ![p.blk] = IF InUse(p.blk) THEN allocateTarget(@, p) ELSE allocate(p)]
    /\ arrived' = [arrived EXCEPT ![p.blk] = Append(@, p)]
    /\ UNCHANGED <<serviced, abort>>

\* The write allocator is streaming, and this miss is a write that is not whole.
partialWrite(b) ==
    /\ coalesce(wa) /\ isWrite(Head(mshr[b].targets.list))
    /\ ~isWholeLineWrite(mshr[b].targets)

\* The miss of block b is sent, or held back for the rest of its line.  The code
\* gives up a miss it holds back (its call of mshrQueue.delay is commented out)
\* until something else asks for the next MSHR: the model lets that happen any
\* number of times, so it covers every such moment.  A send that the memory
\* answers at once is in module NoncoherentCache.
sendMSHRQueuePacket(b, pending_modified_resp) ==
    /\ ~abort /\ InUse(b) /\ ~mshr[b].inService
    /\ IF partialWrite(b) /\ wa.delayCtr[b] > 0
       THEN /\ wa' = delay(wa, b)
            /\ UNCHANGED mshr
       ELSE /\ wa' = IF partialWrite(b) THEN reset(wa)
                     ELSE IF coalesce(wa) /\ isWrite(Head(mshr[b].targets.list))
                     THEN resetDelay(wa, b) ELSE wa
            /\ mshr' = [mshr EXCEPT ![b] = markInService(@, pending_modified_resp)]
    /\ UNCHANGED <<arrived, serviced, abort, stream>>

\* What the memory side may answer, and the state of the block afterwards.
Response(m) ==
    LET head == Head(m.targets.list)
    IN  IF isCacheInvalidate(head) THEN {[cmd |-> "CleanInvalidResp", blk |-> "none"]}
        ELSE IF isCacheMaintenance(head)
        THEN [cmd : {"CleanSharedResp"}, blk : {"none", "readable", "writable"}]
        ELSE IF m.pendingModified THEN {[cmd |-> "ReadResp", blk |-> "writable"]}
        ELSE [cmd : {"ReadResp"}, blk : {"readable", "writable"}]
                 \cup {[cmd |-> "ReadRespWithInvalidate", blk |-> "readable"]}

\* Deferred targets the response can serve as well become targets.
afterPromoteReadable(m, r) ==
    IF r.cmd = "CleanSharedResp" /\ r.blk # "none" THEN promoteReadable(m) ELSE m

afterPromoteWritable(m, r) == IF r.blk = "writable" THEN promoteWritable(m) ELSE m

\* No target is left: deallocate(), which asserts that the deferred targets
\* have left no flag behind.
isDone(m) == m.targets.list = << >> /\ m.deferred.list = << >>

\* deallocate, or markPending with what is left.
afterService(m) ==
    IF isDone(m) THEN Free
    ELSE [promoteDeferredTargets(m) EXCEPT !.inService = FALSE]

recvTimingResp(b, r) ==
    LET m1 == afterPromoteReadable(mshr[b], r)
        m2 == afterPromoteWritable(m1, r)
        m3 == withoutServiceable(m2, r.cmd)
    IN  /\ ~abort /\ InUse(b) /\ mshr[b].inService
        /\ IF \/ r.blk = "writable" /\ promoteWritableAborts(m1)
              \/ isDone(m3) /\ ~isReset(m3.deferred)
           THEN abort' = TRUE /\ UNCHANGED <<mshr, serviced>>
           ELSE /\ serviced' = [serviced EXCEPT ![b] = @ \o extractServiceableTargets(m2, r.cmd)]
                /\ mshr' = [mshr EXCEPT ![b] = afterService(m3)]
                /\ UNCHANGED abort
        /\ UNCHANGED <<wa, arrived, stream>>

Requests == FoldFunction(LAMBDA s, n : Len(s) + n, 0, arrived)

Next ==
    \/ \E p \in Kind : Requests < maxRequests /\ handleTimingReqMiss(p)
    \/ \E b \in Blk, pmr \in BOOLEAN : sendMSHRQueuePacket(b, pmr)
    \/ \E b \in Blk : InUse(b) /\ \E r \in Response(mshr[b]) : recvTimingResp(b, r)

Spec == Init /\ [][Next]_vars

(***************************************************************************)
(* Properties                                                              *)
(***************************************************************************)

ListType ==
    [list : Seq(Kind), needsWritable : BOOLEAN, hasUpgrade : BOOLEAN, allocOnFill : BOOLEAN,
     hasFromCache : BOOLEAN, canMergeWrites : BOOLEAN, writes : SUBSET Byte]

MSHRType ==
    [targets : ListType, deferred : ListType, inService : BOOLEAN,
     pendingModified : BOOLEAN, wasWholeLineWrite : BOOLEAN]

TypeOK ==
    /\ mshr \in [Blk -> MSHRType]
    /\ wa \in [mode : Mode, byteCount : Nat, nextAddr : Nat, delayCtr : [Blk -> 0 .. delayThreshold]]
    /\ arrived \in [Blk -> Seq(Kind)] /\ serviced \in [Blk -> Seq(Kind)]
    /\ abort \in BOOLEAN /\ stream \in [end : Nat, size : Nat]

\* Packets waiting in the MSHR of block b, in the order they will be served.
Waiting(b) == mshr[b].targets.list \o mshr[b].deferred.list

\* Deferral and promotion lose, repeat and reorder nothing: the packets to a
\* block are served in the order they arrived, whichever list they wait in and
\* however many requests it takes to serve them.
ServicedInOrder == \A b \in Blk : serviced[b] \o Waiting(b) = arrived[b]

Agrees(l) ==
    LET Has(P(_)) == \E i \in DOMAIN l.list : P(l.list[i])
    IN  /\ l.needsWritable <=> Has(needsWritable)
        /\ l.hasUpgrade <=> Has(isUpgrade)
        /\ l.allocOnFill <=> Has(allocOnFill)
        /\ l.hasFromCache <=> Has(fromCache)

\* The flags of both lists say what their targets say whenever another handler
\* can read them, although promoteIf() leaves those of the targets behind
\* (populateFlags: "the flags are consistent with the properties of packets").
FlagsAgree == \A b \in Blk : Agrees(mshr[b].targets) /\ Agrees(mshr[b].deferred)

\* A request in service asked for a writable block if one of the targets it
\* will serve needs one, late arrivals included (allocateTarget).
WritablePending ==
    \A b \in Blk :
        (/\ InUse(b) /\ mshr[b].inService
         /\ \E i \in DOMAIN mshr[b].targets.list : needsWritable(mshr[b].targets.list[i]))
            => mshr[b].pendingModified

\* A miss sent as a whole-line write fetches no data, so the targets it serves
\* begin with writes that cover the line, masked ones not counted: no read is
\* served a byte nobody wrote (a prefetch is served none).
WholeLineCovered ==
    \A b \in Blk :
        (InUse(b) /\ mshr[b].inService /\ mshr[b].wasWholeLineWrite) =>
            LET list == mshr[b].targets.list
            IN  \E n \in DOMAIN list :
                    /\ \A i \in 1 .. n : isWrite(list[i]) \/ isPrefetch(list[i])
                    /\ UNION {mergedBytes(list[i]) : i \in 1 .. n} = Byte

\* Response r can serve packet p: it brings in the permission p needs, and an
\* invalidation serves cache invalidations and nothing else.
Serves(r, p) ==
    /\ needsWritable(p) => r.blk = "writable"
    /\ ~isCacheMaintenance(p) => r.blk # "none"
    /\ isCacheInvalidate(p) <=> r.cmd = "CleanInvalidResp"

\* A response serves no packet it cannot serve, although recvTimingResp promotes
\* deferred targets, cache cleans among them, before it looks at the targets.
ServedByRightResponse ==
    [][\A b \in Blk : InUse(b) => \A r \in Response(mshr[b]) :
           recvTimingResp(b, r) /\ ~abort' =>
               \A i \in Len(serviced[b]) + 1 .. Len(serviced'[b]) :
                   Serves(r, serviced'[b][i])]_vars

\* promoteWritable's assert(!targets.needsWritable) and deallocate's
\* assert(deferredTargets.isReset()) hold unless a cache clean waits behind a
\* write for the same block.
AbortNeedsClean ==
    abort => \E b \in Blk :
        /\ InUse(b) /\ mshr[b].pendingModified
        /\ Head(mshr[b].deferred.list).cmd = "CleanSharedReq"

\* Writes are coalesced, or kept out of the cache, only in a stream: the last
\* consecutive writes amount to more than the limit of the mode, although
\* reset() and writes to other addresses intervene.
StreamBacksMode ==
    /\ wa.mode # "ALLOCATE" => stream.size > coalesceLimit
    /\ wa.mode = "NO_ALLOCATE" => stream.size > noAllocateLimit

=============================================================================
