-------------------------------- MODULE Queue --------------------------------
(***************************************************************************)
(* The class template Queue<Entry> (cache/include/cache_queue.h), the base *)
(* of the MSHR queue and of the write queue, and the methods that          *)
(* MSHRQueue (mshr/mshr_queue.cpp) adds to it.                             *)
(*                                                                         *)
(* A queue object is a record; every method of the class is an operator    *)
(* from the object to the object it leaves behind, so that a caller that   *)
(* makes several calls in one step composes them.  The entries are the     *)
(* elements 1..numEntries of the vector `entries'; allocIter and readyIter,*)
(* the iterators an entry keeps to its own place in a list, are the places *)
(* themselves (IndexOf).  A block address stands for the pair of address   *)
(* and secure bit that every comparison in the class uses.                 *)
(***************************************************************************)
EXTENDS Lists, Functions

CONSTANTS num_entries,  \* entries asked for
          reserve,      \* overflow entries on top of them
          Addr          \* block addresses

ASSUME QueueAssumption ==
    /\ num_entries \in Nat \ {0}
    /\ reserve \in Nat
    /\ Addr # {}

numEntries == num_entries + reserve

Entry == 1 .. numEntries

\* nullptr, where a method returns an entry or none.
Null == 0

\* The universal clock: base/include/cur_tick.h never assigns it.
curTick == 0

QueueType == [freeList      : Seq(Entry),
              allocatedList : Seq(Entry),
              readyList     : Seq(Entry),
              inService     : [Entry -> BOOLEAN],
              readyTime     : [Entry -> Nat],
              blkAddr       : [Entry -> Addr],
              numInService  : Int,
              allocated     : Int]

\* The constructor: every entry is on the free list, in index order.  The
\* blkAddr of an entry that was never allocated is arbitrary.
NewQueue(anyAddr) ==
    [freeList      |-> [i \in Entry |-> i],
     allocatedList |-> << >>,
     readyList     |-> << >>,
     inService     |-> [e \in Entry |-> FALSE],
     readyTime     |-> [e \in Entry |-> 0],
     blkAddr       |-> [e \in Entry |-> anyAddr],
     numInService  |-> 0,
     allocated     |-> 0]

(***************************************************************************)
(* List plumbing                                                           *)
(***************************************************************************)

\* The place of e in a list: what allocIter and readyIter hold.
IndexOf(list, e) == CHOOSE i \in 1 .. Len(list) : list[i] = e

\* Mutant: the last element takes the place of the erased one.
eraseBySwap(list, e) ==
    LET n == Len(list)
    IN  [i \in 1 .. n - 1 |-> IF i = IndexOf(list, e) THEN list[n] ELSE list[i]]

\* std::list::erase at an entry's own iterator.
erase(list, e) == eraseAt(list, IndexOf(list, e))

\* Mutant: no search for the place.
addToReadyListEnd(q, e) == [q EXCEPT !.readyList = Append(@, e)]

\* Append when nothing in the list is ready later than e; otherwise insert
\* before the first entry that is.
addToReadyList(q, e) ==
    LET rl    == q.readyList
        later == {i \in 1 .. Len(rl) : q.readyTime[rl[i]] > q.readyTime[e]}
        first == CHOOSE i \in later : \A j \in later : i <= j
    IN  [q EXCEPT !.readyList =
            IF rl = << >> \/ q.readyTime[rl[Len(rl)]] <= q.readyTime[e]
            THEN Append(rl, e)
            ELSE insertAt(rl, first, e)]

(***************************************************************************)
(* Queries                                                                 *)
(***************************************************************************)

\* Mutant: off by one.
isFullLate(q) == q.allocated > numEntries - reserve

isFull(q) == q.allocated >= numEntries - reserve

\* Mutant: only entries in service are searched.
findMatchInService(q, a) ==
    LET al  == q.allocatedList
        hit == {i \in 1 .. Len(al) : q.blkAddr[al[i]] = a /\ q.inService[al[i]]}
    IN  IF hit = {} THEN Null
        ELSE al[CHOOSE i \in hit : \A j \in hit : i <= j]

\* Mutant: only entries not yet sent are searched.
findMatchReady(q, a) ==
    LET al  == q.allocatedList
        hit == {i \in 1 .. Len(al) : q.blkAddr[al[i]] = a /\ ~q.inService[al[i]]}
    IN  IF hit = {} THEN Null
        ELSE al[CHOOSE i \in hit : \A j \in hit : i <= j]

\* The first allocated entry for block address a.
findMatch(q, a) ==
    LET al  == q.allocatedList
        hit == {i \in 1 .. Len(al) : q.blkAddr[al[i]] = a}
    IN  IF hit = {} THEN Null
        ELSE al[CHOOSE i \in hit : \A j \in hit : i <= j]

\* The head of the ready list, unless it is not ready yet.
getNext(q) ==
    IF q.readyList = << >> \/ q.readyTime[Head(q.readyList)] > curTick
    THEN Null
    ELSE Head(q.readyList)

(***************************************************************************)
(* Updates                                                                 *)
(***************************************************************************)

\* Take the first free entry for address a, to be ready at `when'.  The two
\* allocate methods (MSHRQueue, WriteQueue) share this effect on the lists.
\* Precondition (asserted): the free list is not empty.
allocateEntry(q, a, when) ==
    LET e == Head(q.freeList)
    IN  addToReadyList(
          [q EXCEPT !.freeList      = Tail(@),
                    !.allocatedList = Append(@, e),
                    !.inService     = [@ EXCEPT ![e] = FALSE],
                    !.readyTime     = [@ EXCEPT ![e] = when],
                    !.blkAddr       = [@ EXCEPT ![e] = a],
                    !.allocated     = @ + 1],
          e)

\* Mutant: _numInService is not decremented.
deallocateKeepsCount(q, e) ==
    [q EXCEPT !.freeList      = <<e>> \o @,
              !.allocatedList = erase(@, e),
              !.readyList     = IF q.inService[e] THEN @ ELSE erase(@, e),
              !.inService     = [@ EXCEPT ![e] = FALSE],
              !.allocated     = @ - 1]

\* Return entry e to the front of the free list, from wherever it is.
deallocateEntry(q, e) ==
    [q EXCEPT !.freeList      = <<e>> \o @,
              !.allocatedList = erase(@, e),
              !.readyList     = IF q.inService[e] THEN @ ELSE erase(@, e),
              !.inService     = [@ EXCEPT ![e] = FALSE],
              !.numInService  = IF q.inService[e] THEN @ - 1 ELSE @,
              !.allocated     = @ - 1]

(***************************************************************************)
(* The methods MSHRQueue adds (mshr/mshr_queue.cpp)                        *)
(***************************************************************************)

\* Mutant: the entry stays on the ready list.
markInServiceKeepsReady(q, e) ==
    [q EXCEPT !.inService    = [@ EXCEPT ![e] = TRUE],
              !.numInService = @ + 1]

markInService(q, e) ==
    [q EXCEPT !.readyList    = erase(@, e),
              !.inService    = [@ EXCEPT ![e] = TRUE],
              !.numInService = @ + 1]

\* `when' is the ready time promoteDeferredTargets has just given the entry.
markPending(q, e, when) ==
    addToReadyList([q EXCEPT !.inService    = [@ EXCEPT ![e] = FALSE],
                             !.readyTime    = [@ EXCEPT ![e] = when],
                             !.numInService = @ - 1],
                   e)

moveToFront(q, e) ==
    [q EXCEPT !.readyList = IF q.inService[e] THEN @ ELSE <<e>> \o erase(@, e)]

\* find_if starts at the entry itself, whose own ready time satisfies the
\* predicate, so the splice moves the entry to where it already is.
delay(q, e, ticks) ==
    [q EXCEPT !.readyTime = [@ EXCEPT ![e] = curTick + ticks]]

\* Demand misses keep demandReserve entries, and one more, from prefetches.
canPrefetch(q, demandReserve) ==
    q.allocated < numEntries - (reserve + 1 + demandReserve)

(***************************************************************************)
(* What makes a queue object consistent                                    *)
(***************************************************************************)

\* Every entry is on exactly one of freeList and allocatedList, once.
Partitioned(q) ==
    /\ IsInjective(q.freeList)
    /\ IsInjective(q.allocatedList)
    /\ \A e \in Entry : e \in Range(q.freeList) <=> e \notin Range(q.allocatedList)

\* readyList holds exactly the allocated entries not in service, each once.
ReadyExact(q) ==
    /\ IsInjective(q.readyList)
    /\ \A e \in Entry : e \in Range(q.readyList)
                            <=> e \in Range(q.allocatedList) /\ ~q.inService[e]

\* The counters agree with the lists.
Counted(q) ==
    /\ q.allocated = Len(q.allocatedList)
    /\ q.allocated + Len(q.freeList) = numEntries
    /\ q.numInService + Len(q.readyList) = q.allocated

\* A free entry is not in service.
FreeIdle(q) == \A e \in Entry : e \in Range(q.freeList) => ~q.inService[e]

=============================================================================
