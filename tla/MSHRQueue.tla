------------------------------ MODULE MSHRQueue ------------------------------
(***************************************************************************)
(* The MSHR queue as a component: the queue object of module Queue, driven *)
(* by every public method of MSHRQueue in every order that the asserts of  *)
(* the methods allow, with the two target lists of each MSHR.              *)
(*                                                                         *)
(* A target is represented by its ready time, the only part of it that the *)
(* queue reads.  Whether MSHR::allocateTarget defers a target, and how     *)
(* many deferred targets MSHR::promoteDeferredTargets moves, depends on    *)
(* packets and is left open here.                                          *)
(***************************************************************************)
EXTENDS Queue

CONSTANTS Tick,        \* the ready times and delays callers use
          MaxTargets   \* bound on the targets of one MSHR

ASSUME MSHRQueueAssumption ==
    /\ Tick \subseteq Nat
    /\ Tick # {}
    /\ MaxTargets \in Nat \ {0}

VARIABLES q,        \* the queue object
          targets,  \* MSHR::targets of each entry
          deferred  \* MSHR::deferredTargets of each entry

vars == <<q, targets, deferred>>

Init ==
    /\ \E a \in Addr : q = NewQueue(a)
    /\ targets = [e \in Entry |-> << >>]
    /\ deferred = [e \in Entry |-> << >>]

Allocated == Range(q.allocatedList)

(***************************************************************************)
(* Methods                                                                 *)
(***************************************************************************)

\* MSHRQueue::allocate, with MSHR::allocate: the packet is the first target.
Allocate(a, t) ==
    /\ q.freeList # << >>
    /\ q' = allocateEntry(q, a, t)
    /\ targets' = [targets EXCEPT ![Head(q.freeList)] = <<t>>]
    /\ deferred' = [deferred EXCEPT ![Head(q.freeList)] = << >>]

\* MSHR::allocateTarget: behind the deferred targets once there are any.
AllocateTarget(e, t) ==
    /\ e \in Allocated
    /\ Len(targets[e]) + Len(deferred[e]) < MaxTargets
    /\ \/ /\ deferred[e] = << >>
          /\ targets' = [targets EXCEPT ![e] = Append(@, t)]
          /\ UNCHANGED deferred
       \/ /\ deferred' = [deferred EXCEPT ![e] = Append(@, t)]
          /\ UNCHANGED targets
    /\ UNCHANGED q

\* MSHRQueue::markInService; the MSHR asserts that it is not in service yet.
MarkInService(e) ==
    /\ e \in Allocated
    /\ ~q.inService[e]
    /\ q' = markInService(q, e)
    /\ UNCHANGED <<targets, deferred>>

\* MSHR::promoteDeferredTargets on an MSHR whose target list is empty: some
\* prefix of the deferred targets becomes the target list.
Promote(e, k) ==
    /\ targets' = [targets EXCEPT ![e] = SubSeq(deferred[e], 1, k)]
    /\ deferred' = [deferred EXCEPT ![e] = SubSeq(@, k + 1, Len(@))]

\* The ready time promoteDeferredTargets gives the MSHR.
PromotedReadyTime(e) ==
    LET t == Head(deferred[e]) IN IF t > curTick THEN t ELSE curTick

\* Mutant: the targets are left behind.
ReleaseKeepsTargets(e) ==
    /\ q' = deallocateEntry(q, e)
    /\ UNCHANGED <<targets, deferred>>

Release(e) ==
    /\ q' = deallocateEntry(q, e)
    /\ targets' = [targets EXCEPT ![e] = << >>]
    /\ UNCHANGED deferred

\* The end of BaseCache::recvTimingResp: the targets have been serviced, and
\* the MSHR is sent again for its deferred targets or given back.
Respond(e) ==
    /\ e \in Allocated
    /\ \/ /\ deferred[e] = << >>
          /\ Release(e)
       \/ /\ deferred[e] # << >>
          /\ q.inService[e]
          /\ \E k \in 1 .. Len(deferred[e]) : Promote(e, k)
          /\ q' = markPending(q, e, PromotedReadyTime(e))

MoveToFront(e) ==
    /\ e \in Allocated
    /\ q' = moveToFront(q, e)
    /\ UNCHANGED <<targets, deferred>>

\* MSHRQueue::delay; MSHR::delay asserts that the MSHR was already ready,
\* and readyIter is an iterator into the list only while it is pending.
Delay(e, t) ==
    /\ e \in Allocated
    /\ ~q.inService[e]
    /\ q.readyTime[e] <= curTick
    /\ q' = delay(q, e, t)
    /\ UNCHANGED <<targets, deferred>>

\* MSHRQueue::forceDeallocateTarget: pop a target; without any left promote
\* the deferred ones, which changes the ready time and not the ready list,
\* or free the MSHR.
ForceDeallocateTarget(e) ==
    /\ e \in Allocated
    /\ \/ /\ Len(targets[e]) > 1
          /\ targets' = [targets EXCEPT ![e] = Tail(@)]
          /\ UNCHANGED <<q, deferred>>
       \/ /\ Len(targets[e]) = 1
          /\ deferred[e] # << >>
          /\ \E k \in 1 .. Len(deferred[e]) : Promote(e, k)
          /\ q' = [q EXCEPT !.readyTime = [@ EXCEPT ![e] = PromotedReadyTime(e)]]
       \/ /\ Len(targets[e]) = 1
          /\ deferred[e] = << >>
          /\ Release(e)

Next ==
    \/ \E a \in Addr, t \in Tick : Allocate(a, t)
    \/ \E e \in Entry :
          \/ \E t \in Tick : AllocateTarget(e, t) \/ Delay(e, t)
          \/ MarkInService(e)
          \/ Respond(e)
          \/ MoveToFront(e)
          \/ ForceDeallocateTarget(e)

Spec == Init /\ [][Next]_vars

(***************************************************************************)
(* The queue as BaseCache drives it: moveToFront, delay and                *)
(* forceDeallocateTarget have no caller, a miss coalesces with the MSHR of *)
(* its block, and the entry sent is the one getNext returns.               *)
(***************************************************************************)

\* BaseCache::handleTimingReqMiss
Miss(a, t) ==
    LET m == findMatch(q, a)
    IN  IF m = Null THEN Allocate(a, t) ELSE AllocateTarget(m, t)

\* BaseCache::sendMSHRQueuePacket: answered at once, or accepted for later.
SendNext ==
    LET m == getNext(q)
    IN  /\ m # Null
        /\ MarkInService(m) \/ Respond(m)

CacheNext ==
    \/ \E a \in Addr, t \in Tick : Miss(a, t)
    \/ SendNext
    \/ \E e \in Entry : q.inService[e] /\ Respond(e)

CacheSpec == Init /\ [][CacheNext]_vars

(***************************************************************************)
(* Properties of every use of the class (Spec)                             *)
(***************************************************************************)

TypeOK ==
    /\ q \in QueueType
    /\ targets \in [Entry -> Seq(Tick)]
    /\ deferred \in [Entry -> Seq(Tick)]

\* No sequence of calls loses an entry, hands one out twice or erases through a
\* dead iterator: an entry is on exactly one of freeList and allocatedList, and
\* readyList ("entries that haven't been sent downstream") holds exactly the
\* allocated entries not in service, each once.  The two counters, which is all
\* that isFull, isEmpty and canPrefetch look at, agree with the lists.
QueueConsistency == Partitioned(q) /\ ReadyExact(q) /\ Counted(q)

\* allocate finds no targets on the entry it takes (assert in allocate) and
\* findMatch finds one on every entry it visits (assert in matchBlockAddr);
\* nothing is deferred behind an empty target list.
TargetsMatchAllocation ==
    \A e \in Entry :
        IF e \in Allocated THEN targets[e] # << >>
        ELSE targets[e] = << >> /\ deferred[e] = << >> /\ ~q.inService[e]

\* While isFull is false, the overflow entries and one more are free: a
\* caller that checks isFull may allocate reserve + 1 times ("@pre There are
\* free entries") before it checks again.
ReserveAvailable ==
    ~isFull(q) => Len(q.freeList) >= reserve + 1

\* The lists and counters implement the pool of module EntryPool.
Contract == INSTANCE EntryPool
    WITH Pool     <- Entry,
         pending  <- Range(q.readyList),
         inflight <- {e \in Allocated : q.inService[e]}

ImplementsEntryPool == Contract!PoolSpec

(***************************************************************************)
(* Properties of the queue as the cache uses it (CacheSpec)                *)
(***************************************************************************)

\* getNext looks only at the head of the ready list.  It still never answers
\* null while some pending entry is ready.
NoReadyEntryHidden ==
    (\E e \in Range(q.readyList) : q.readyTime[e] <= curTick)
        => getNext(q) # Null

\* Two pending misses are sent in the order in which they became pending
\* (for equal ready times): no later call lets one overtake the other.
ReadyOrderKept ==
    [][\A i, j \in 1 .. Len(q.readyList) :
          LET e == q.readyList[i]
              f == q.readyList[j]
          IN  /\ i < j
              /\ e \in Range(q'.readyList) /\ f \in Range(q'.readyList)
              => IndexOf(q'.readyList, e) < IndexOf(q'.readyList, f)]_vars

=============================================================================
