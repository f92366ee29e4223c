-------------------------- MODULE MSHRQueueProofs --------------------------
(***************************************************************************)
(* The properties of every use of the MSHR queue (MSHRQueue!Spec), proved  *)
(* for every number of entries, reserve, address set, tick set and bound.  *)
(*                                                                         *)
(* The inductive invariant is QInv (module QueueProofs), the consistency   *)
(* of the queue object, with the types and TargetsMatchAllocation.  Each   *)
(* action has a lemma that it preserves the invariant and is a step of     *)
(* EntryPool or leaves the pool alone.                                     *)
(*                                                                         *)
(* The second half is about the queue as the cache drives it (CacheSpec):  *)
(* with the ready list sorted by ready time the invariant is inductive     *)
(* again, and getNext hides no entry that is ready.                        *)
(***************************************************************************)
EXTENDS MSHRQueue, QueueProofs

Inv == TypeOK /\ QInv(q) /\ TargetsMatchAllocation

inflightEntries == {e \in Allocated : q.inService[e]}

PoolStep == [Contract!PoolNext]_<<Range(q.readyList), inflightEntries>>

\* Ready times are natural numbers, whoever computed them.
LEMMA TickNat == \A t \in Tick : t \in Nat
BY MSHRQueueAssumption

LEMMA PromotedNat ==
    ASSUME TypeOK, NEW e \in Entry, deferred[e] # << >>
    PROVE  PromotedReadyTime(e) \in Nat
<1>1. deferred[e] \in Seq(Tick)
    BY DEF TypeOK
<1>2. Head(deferred[e]) \in Tick
    BY <1>1, HeadTailProperties
<1>3. QED
    BY <1>2, TickNat DEF PromotedReadyTime, curTick

\* The two parts of a deferred list that promoteDeferredTargets splits.
LEMMA SplitTargets ==
    ASSUME NEW s \in Seq(Tick), NEW k \in 1 .. Len(s)
    PROVE  /\ SubSeq(s, 1, k) \in Seq(Tick) /\ SubSeq(s, 1, k) # << >>
           /\ SubSeq(s, k + 1, Len(s)) \in Seq(Tick)
<1>1. Len(s) \in Nat /\ \A i \in 1 .. Len(s) : s[i] \in Tick
    BY LenProperties, ElementOfSeq
<1>2. SubSeq(s, 1, k) \in Seq(Tick) /\ Len(SubSeq(s, 1, k)) = k
    <2>1. \A i \in 1 .. k : s[i] \in Tick
        BY <1>1
    <2>2. /\ SubSeq(s, 1, k) \in Seq(Tick)
          /\ Len(SubSeq(s, 1, k)) = IF 1 <= k THEN k - 1 + 1 ELSE 0
        BY <1>1, <2>1, SubSeqProperties
    <2>3. QED
        BY <2>2
<1>3. SubSeq(s, k + 1, Len(s)) \in Seq(Tick)
    <2>1. \A i \in k + 1 .. Len(s) : s[i] \in Tick
        BY <1>1
    <2>2. QED
        BY <1>1, <2>1, SubSeqProperties
<1>4. SubSeq(s, 1, k) # << >>
    BY <1>2
<1>5. QED
    BY <1>2, <1>3, <1>4

\* A step that leaves q alone only has to keep the target lists matched.
LEMMA TargetsOnly ==
    ASSUME Inv, UNCHANGED q,
           targets' \in [Entry -> Seq(Tick)], deferred' \in [Entry -> Seq(Tick)],
           \A e \in Entry : e \in Allocated => targets'[e] # << >>,
           \A e \in Entry : e \notin Allocated =>
                targets'[e] = targets[e] /\ deferred'[e] = deferred[e]
    PROVE  Inv' /\ PoolStep
<1>1. Inv'
    BY DEF Inv, TypeOK, TargetsMatchAllocation, Allocated
<1>2. PoolStep
    BY DEF PoolStep, inflightEntries, Allocated
<1>3. QED
    BY <1>1, <1>2

LEMMA AllocateStep ==
    ASSUME Inv, NEW a \in Addr, NEW t \in Tick, Allocate(a, t)
    PROVE  Inv' /\ PoolStep
<1> DEFINE e == Head(q.freeList)
<1>1. q' = allocateEntry(q, a, t) /\ QInv(q) /\ q.freeList # << >> /\ t \in Nat
    BY TickNat DEF Inv, Allocate
<1>2. /\ QInv(q') /\ e \in Entry /\ e \notin Allocated
      /\ Allocated' = Allocated \cup {e}
      /\ Range(q'.readyList) = Range(q.readyList) \cup {e}
      /\ q'.inService = q.inService
    BY ZenonT(60), <1>1, AllocateEntryProps DEF Allocated
<1> HIDE DEF e
<1>3. /\ targets' = [targets EXCEPT ![e] = <<t>>]
      /\ deferred' = [deferred EXCEPT ![e] = << >>]
    BY DEF Allocate, e
<1>4. TypeOK'
    <2>1. <<t>> \in Seq(Tick) /\ << >> \in Seq(Tick)
        OBVIOUS
    <2>2. QED
        BY <1>2, <1>3, <2>1 DEF Inv, TypeOK, QInv
<1>5. TargetsMatchAllocation'
    <2>1. SUFFICES ASSUME NEW d \in Entry
                   PROVE  IF d \in Allocated' THEN targets'[d] # << >>
                          ELSE targets'[d] = << >> /\ deferred'[d] = << >> /\ ~q'.inService[d]
        BY DEF TargetsMatchAllocation
    <2>2. CASE d = e
        BY <2>2, <1>2, <1>3 DEF Inv, TypeOK
    <2>3. CASE d # e
        BY <2>3, <1>2, <1>3 DEF Inv, TypeOK, TargetsMatchAllocation
    <2>4. QED
        BY <2>2, <2>3
<1>6. PoolStep
    <2>1. e \notin Range(q.readyList) /\ ~q.inService[e]
        BY <1>2 DEF Inv, QInv, ReadyExact, TargetsMatchAllocation, Allocated
    <2>2. inflightEntries' = inflightEntries
        BY <2>1, <1>2 DEF inflightEntries
    <2>3. Contract!Take(e)
        BY <2>1, <2>2, <1>2 DEF Contract!Take, inflightEntries
    <2>4. QED
        BY <2>3, <1>2 DEF PoolStep, Contract!PoolNext
<1>7. QED
    BY SMTT(30), <1>2, <1>4, <1>5, <1>6 DEF Inv

LEMMA AllocateTargetStep ==
    ASSUME Inv, NEW e \in Entry, NEW t \in Tick, AllocateTarget(e, t)
    PROVE  Inv' /\ PoolStep
<1>1. e \in Allocated /\ UNCHANGED q
    BY DEF AllocateTarget
<1>2. /\ \A s \in Seq(Tick) : Append(s, t) \in Seq(Tick) /\ Append(s, t) # << >>
      /\ targets \in [Entry -> Seq(Tick)] /\ deferred \in [Entry -> Seq(Tick)]
    <2>1. \A s \in Seq(Tick) : /\ Append(s, t) \in Seq(Tick)
                              /\ Len(Append(s, t)) = Len(s) + 1
                              /\ Len(s) \in Nat
        BY AppendProperties, LenProperties
    <2>2. \A s \in Seq(Tick) : Append(s, t) # << >>
        BY <2>1
    <2>3. QED
        BY ZenonT(60), <2>1, <2>2 DEF Inv, TypeOK
<1>3. CASE targets' = [targets EXCEPT ![e] = Append(@, t)] /\ UNCHANGED deferred
    <2>1. /\ targets' \in [Entry -> Seq(Tick)] /\ deferred' \in [Entry -> Seq(Tick)]
          /\ targets'[e] # << >>
          /\ \A d \in Entry : d # e => targets'[d] = targets[d]
        BY <1>2, <1>3
    <2>2. QED
        BY <2>1, <1>1, <1>3, TargetsOnly DEF Inv, TargetsMatchAllocation
<1>4. CASE deferred' = [deferred EXCEPT ![e] = Append(@, t)] /\ UNCHANGED targets
    <2>1. /\ targets' \in [Entry -> Seq(Tick)] /\ deferred' \in [Entry -> Seq(Tick)]
          /\ \A d \in Entry : d # e => deferred'[d] = deferred[d]
        BY <1>2, <1>4
    <2>2. QED
        BY SMTT(30), <2>1, <1>1, <1>4, TargetsOnly DEF Inv, TargetsMatchAllocation
<1>5. QED
    BY <1>3, <1>4 DEF AllocateTarget

LEMMA MarkInServiceStep ==
    ASSUME Inv, NEW e \in Entry, MarkInService(e)
    PROVE  Inv' /\ PoolStep
<1>1. /\ QInv(q) /\ e \in Range(q.allocatedList) /\ ~q.inService[e]
      /\ q' = markInService(q, e) /\ UNCHANGED <<targets, deferred>>
    BY DEF Inv, MarkInService, Allocated
<1>2. /\ QInv(q') /\ Allocated' = Allocated
      /\ Range(q'.readyList) = Range(q.readyList) \ {e}
      /\ q'.inService = [q.inService EXCEPT ![e] = TRUE]
      /\ q.inService \in [Entry -> BOOLEAN]
    BY ZenonT(60), <1>1, MarkInServiceProps, QInvTypes DEF Allocated
<1>3. Inv'
    BY <1>1, <1>2 DEF Inv, TypeOK, QInv, TargetsMatchAllocation, Allocated
<1>4. e \in Range(q.readyList)
    BY <1>1 DEF QInv, ReadyExact
<1>5. inflightEntries' = inflightEntries \cup {e}
    BY <1>1, <1>2, QInvLists DEF inflightEntries, Allocated
<1>6. Contract!Issue(e)
    BY <1>2, <1>4, <1>5 DEF Contract!Issue, inflightEntries
<1>7. QED
    BY <1>3, <1>6 DEF PoolStep, Contract!PoolNext

\* Giving an MSHR without deferred targets back.
LEMMA ReleaseStep ==
    ASSUME Inv, NEW e \in Entry, e \in Allocated, deferred[e] = << >>, Release(e)
    PROVE  Inv' /\ PoolStep
<1>1. /\ QInv(q) /\ e \in Range(q.allocatedList)
      /\ q' = deallocateEntry(q, e)
      /\ targets' = [targets EXCEPT ![e] = << >>] /\ UNCHANGED deferred
    BY DEF Inv, Release, Allocated
<1>2. /\ QInv(q') /\ Allocated' = Allocated \ {e}
      /\ Range(q'.readyList) = Range(q.readyList) \ {e}
      /\ q'.inService = [q.inService EXCEPT ![e] = FALSE]
      /\ q.inService \in [Entry -> BOOLEAN]
    BY ZenonT(60), <1>1, DeallocateEntryProps, QInvTypes DEF Allocated
<1>3. TypeOK'
    <2>1. << >> \in Seq(Tick)
        OBVIOUS
    <2>2. QED
        BY <1>1, <1>2, <2>1 DEF Inv, TypeOK, QInv
<1>4. TargetsMatchAllocation'
    BY <1>1, <1>2 DEF Inv, TypeOK, TargetsMatchAllocation
<1>5. inflightEntries' = inflightEntries \ {e}
    BY <1>1, <1>2, QInvLists DEF inflightEntries, Allocated
<1>6. e \in Range(q.readyList) \cup inflightEntries
    BY <1>1 DEF QInv, ReadyExact, inflightEntries, Allocated
<1>7. Contract!Release(e)
    BY <1>2, <1>5, <1>6 DEF Contract!Release, inflightEntries
<1>8. QED
    BY SMTT(30), <1>2, <1>3, <1>4, <1>7 DEF Inv, PoolStep, Contract!PoolNext

\* What promotion does to the target lists.
LEMMA PromoteProps ==
    ASSUME Inv, NEW e \in Entry, NEW k \in 1 .. Len(deferred[e]), Promote(e, k)
    PROVE  /\ targets' \in [Entry -> Seq(Tick)] /\ deferred' \in [Entry -> Seq(Tick)]
           /\ targets'[e] # << >>
           /\ \A d \in Entry : d # e => targets'[d] = targets[d] /\ deferred'[d] = deferred[d]
<1>1. /\ targets \in [Entry -> Seq(Tick)] /\ deferred \in [Entry -> Seq(Tick)]
      /\ deferred[e] \in Seq(Tick)
    BY DEF Inv, TypeOK
<1> DEFINE a == SubSeq(deferred[e], 1, k)
           b == SubSeq(deferred[e], k + 1, Len(deferred[e]))
<1>2. a \in Seq(Tick) /\ a # << >> /\ b \in Seq(Tick)
    BY ZenonT(60), <1>1, SplitTargets
<1>3. targets' = [targets EXCEPT ![e] = a] /\ deferred' = [deferred EXCEPT ![e] = b]
    BY DEF Promote
<1> HIDE DEF a, b
<1>4. QED
    BY <1>1, <1>2, <1>3

LEMMA RespondStep ==
    ASSUME Inv, NEW e \in Entry, Respond(e)
    PROVE  Inv' /\ PoolStep
<1>1. e \in Allocated /\ QInv(q)
    BY DEF Inv, Respond
<1>2. CASE deferred[e] = << >> /\ Release(e)
    BY <1>1, <1>2, ReleaseStep
<1>3. CASE /\ deferred[e] # << >> /\ q.inService[e]
           /\ \E k \in 1 .. Len(deferred[e]) : Promote(e, k)
           /\ q' = markPending(q, e, PromotedReadyTime(e))
    <2>1. /\ targets' \in [Entry -> Seq(Tick)] /\ deferred' \in [Entry -> Seq(Tick)]
          /\ targets'[e] # << >>
          /\ \A d \in Entry : d # e => targets'[d] = targets[d] /\ deferred'[d] = deferred[d]
        BY <1>3, PromoteProps
    <2>2. PromotedReadyTime(e) \in Nat
        BY <1>3, PromotedNat DEF Inv
    <2>3. /\ QInv(q') /\ Allocated' = Allocated
          /\ Range(q'.readyList) = Range(q.readyList) \cup {e}
          /\ q'.inService = [q.inService EXCEPT ![e] = FALSE]
          /\ q.inService \in [Entry -> BOOLEAN]
        <3> DEFINE p == PromotedReadyTime(e)
        <3>1. /\ p \in Nat /\ q' = markPending(q, e, p)
              /\ e \in Range(q.allocatedList) /\ q.inService[e]
            BY SMTT(30), <1>1, <1>3, <2>2 DEF Allocated
        <3> HIDE DEF p
        <3>2. /\ QInv(q') /\ q'.allocatedList = q.allocatedList
              /\ Range(q'.readyList) = Range(q.readyList) \cup {e}
              /\ q'.inService = [q.inService EXCEPT ![e] = FALSE]
            BY SMTT(30), <1>1, <3>1, MarkPendingProps
        <3>3. QED
            BY <1>1, <3>2, QInvTypes DEF Allocated
    <2>4. Inv'
        BY SMTT(30), <1>1, <2>1, <2>3 DEF Inv, TypeOK, QInv, TargetsMatchAllocation
    <2>5. inflightEntries' = inflightEntries \ {e}
        BY SMTT(30), <1>1, <2>3, QInvLists DEF inflightEntries, Allocated
    <2>6. Contract!Reissue(e)
        BY SMTT(30), <1>1, <1>3, <2>3, <2>5 DEF Contract!Reissue, inflightEntries
    <2>7. QED
        BY <2>4, <2>6 DEF PoolStep, Contract!PoolNext
<1>4. QED
    BY <1>2, <1>3 DEF Respond

LEMMA MoveToFrontStep ==
    ASSUME Inv, NEW e \in Entry, MoveToFront(e)
    PROVE  Inv' /\ PoolStep
<1>1. /\ QInv(q) /\ e \in Range(q.allocatedList)
      /\ q' = moveToFront(q, e) /\ UNCHANGED <<targets, deferred>>
    BY DEF Inv, MoveToFront, Allocated
<1>2. /\ QInv(q') /\ Allocated' = Allocated
      /\ Range(q'.readyList) = Range(q.readyList) /\ q'.inService = q.inService
    BY <1>1, MoveToFrontProps DEF Allocated
<1>3. Inv'
    BY <1>1, <1>2 DEF Inv, TypeOK, QInv, TargetsMatchAllocation
<1>4. QED
    BY <1>2, <1>3 DEF PoolStep, inflightEntries

\* delay and the promotion in forceDeallocateTarget only set a ready time.
LEMMA ReadyTimeStep ==
    ASSUME Inv, NEW e \in Entry, NEW t \in Nat,
           q' = [q EXCEPT !.readyTime = [@ EXCEPT ![e] = t]]
    PROVE  /\ QInv(q') /\ Allocated' = Allocated
           /\ q'.readyList = q.readyList /\ q'.inService = q.inService
           /\ PoolStep
<1> DEFINE rt == [q.readyTime EXCEPT ![e] = t]
<1>1. QInv(q) /\ rt \in [Entry -> Nat] /\ q' = [q EXCEPT !.readyTime = rt]
    BY QInvTypes DEF Inv
<1> HIDE DEF rt
<1>2. /\ QInv(q') /\ q'.allocatedList = q.allocatedList
      /\ q'.readyList = q.readyList /\ q'.inService = q.inService
    BY <1>1, ReadyTimeProps
<1>3. QED
    BY <1>2 DEF PoolStep, inflightEntries, Allocated

LEMMA DelayStep ==
    ASSUME Inv, NEW e \in Entry, NEW t \in Tick, Delay(e, t)
    PROVE  Inv' /\ PoolStep
<1>1. /\ t \in Nat /\ UNCHANGED <<targets, deferred>>
      /\ q' = [q EXCEPT !.readyTime = [@ EXCEPT ![e] = curTick + t]]
    BY TickNat DEF Delay, delay
<1>2. curTick + t \in Nat
    BY <1>1 DEF curTick
<1>3. /\ QInv(q') /\ Allocated' = Allocated
      /\ q'.readyList = q.readyList /\ q'.inService = q.inService
      /\ PoolStep
    <2> DEFINE n == curTick + t
    <2>1. n \in Nat /\ q' = [q EXCEPT !.readyTime = [@ EXCEPT ![e] = n]]
        BY <1>1, <1>2
    <2> HIDE DEF n
    <2>2. QED
        BY <2>1, ReadyTimeStep
<1>4. QED
    BY <1>1, <1>3 DEF Inv, TypeOK, QInv, TargetsMatchAllocation

LEMMA ForceDeallocateTargetStep ==
    ASSUME Inv, NEW e \in Entry, ForceDeallocateTarget(e)
    PROVE  Inv' /\ PoolStep
<1>1. e \in Allocated
    BY DEF ForceDeallocateTarget
<1>2. /\ targets \in [Entry -> Seq(Tick)] /\ deferred \in [Entry -> Seq(Tick)]
      /\ targets[e] \in Seq(Tick)
    BY DEF Inv, TypeOK
<1>3. CASE /\ Len(targets[e]) > 1
           /\ targets' = [targets EXCEPT ![e] = Tail(@)]
           /\ UNCHANGED <<q, deferred>>
    <2> DEFINE tl == Tail(targets[e])
    <2>1. tl \in Seq(Tick) /\ tl # << >>
        <3>1. targets[e] # << >>
            BY <1>1 DEF Inv, TargetsMatchAllocation
        <3>2. tl \in Seq(Tick) /\ Len(tl) = Len(targets[e]) - 1 /\ Len(targets[e]) \in Nat
            BY SMTT(30), <1>2, <3>1, HeadTailProperties, LenProperties
        <3>3. Len(tl) > 0
            BY <1>3, <3>2
        <3> HIDE DEF tl
        <3>4. QED
            BY <3>2, <3>3, EmptySeq
    <2>2. targets' = [targets EXCEPT ![e] = tl]
        BY <1>3
    <2> HIDE DEF tl
    <2>3. /\ targets' \in [Entry -> Seq(Tick)] /\ targets'[e] # << >>
          /\ \A d \in Entry : d # e => targets'[d] = targets[d]
        BY SMTT(30), <1>2, <2>1, <2>2
    <2>4. QED
        BY SMTT(30), <1>1, <1>2, <1>3, <2>3, TargetsOnly DEF Inv, TargetsMatchAllocation
<1>4. CASE /\ deferred[e] # << >>
           /\ \E k \in 1 .. Len(deferred[e]) : Promote(e, k)
           /\ q' = [q EXCEPT !.readyTime = [@ EXCEPT ![e] = PromotedReadyTime(e)]]
    <2>1. /\ targets' \in [Entry -> Seq(Tick)] /\ deferred' \in [Entry -> Seq(Tick)]
          /\ targets'[e] # << >>
          /\ \A d \in Entry : d # e => targets'[d] = targets[d] /\ deferred'[d] = deferred[d]
        BY <1>4, PromoteProps
    <2>2. /\ QInv(q') /\ Allocated' = Allocated
          /\ q'.readyList = q.readyList /\ q'.inService = q.inService
          /\ PoolStep
        <3> DEFINE n == PromotedReadyTime(e)
        <3>1. n \in Nat /\ q' = [q EXCEPT !.readyTime = [@ EXCEPT ![e] = n]]
            BY <1>4, PromotedNat DEF Inv
        <3> HIDE DEF n
        <3>2. QED
            BY <3>1, ReadyTimeStep
    <2>3. QED
        BY SMTT(30), <1>1, <2>1, <2>2 DEF Inv, TypeOK, QInv, TargetsMatchAllocation
<1>5. CASE deferred[e] = << >> /\ Release(e)
    BY SMTT(30), <1>1, <1>5, ReleaseStep
<1>6. QED
    BY <1>3, <1>4, <1>5 DEF ForceDeallocateTarget

(***************************************************************************)
(* The theorems                                                            *)
(***************************************************************************)

LEMMA InitInv == Init => Inv /\ Contract!PoolInit
<1>1. SUFFICES ASSUME Init PROVE Inv /\ Contract!PoolInit
    OBVIOUS
<1>2. PICK a \in Addr : q = NewQueue(a)
    BY <1>1 DEF Init
<1>3. /\ QInv(q) /\ q.allocatedList = << >> /\ q.readyList = << >>
      /\ q.inService = [e \in Entry |-> FALSE]
    BY ZenonT(60), <1>2, NewQueueProps
<1>4. Range(<< >>) = {}
    BY DEF Range
<1>5. TypeOK
    <2>1. << >> \in Seq(Tick)
        OBVIOUS
    <2>2. QED
        BY <1>1, <1>3, <2>1 DEF Init, TypeOK, QInv
<1>6. TargetsMatchAllocation
    BY <1>1, <1>3, <1>4 DEF Init, TargetsMatchAllocation, Allocated
<1>7. Contract!PoolInit
    BY <1>3, <1>4 DEF Contract!PoolInit, Allocated
<1>8. QED
    BY SMTT(30), <1>3, <1>5, <1>6, <1>7 DEF Inv

\* Every call, and every stuttering step, keeps Inv and is a step of the pool.
LEMMA NextInv == Inv /\ [Next]_vars => Inv' /\ PoolStep
<1>1. SUFFICES ASSUME Inv, [Next]_vars PROVE Inv' /\ PoolStep
    OBVIOUS
<1>2. CASE UNCHANGED vars
    BY SMTT(30), <1>1, <1>2, TargetsOnly DEF vars, Inv, TypeOK, TargetsMatchAllocation
<1>3. ASSUME NEW a \in Addr, NEW t \in Tick, Allocate(a, t) PROVE Inv' /\ PoolStep
    BY <1>1, <1>3, AllocateStep
<1>4. ASSUME NEW e \in Entry, NEW t \in Tick, AllocateTarget(e, t) PROVE Inv' /\ PoolStep
    BY SMTT(30), <1>1, <1>4, AllocateTargetStep
<1>5. ASSUME NEW e \in Entry, NEW t \in Tick, Delay(e, t) PROVE Inv' /\ PoolStep
    BY SMTT(30), <1>1, <1>5, DelayStep
<1>6. ASSUME NEW e \in Entry, MarkInService(e) PROVE Inv' /\ PoolStep
    BY SMTT(30), <1>1, <1>6, MarkInServiceStep
<1>7. ASSUME NEW e \in Entry, Respond(e) PROVE Inv' /\ PoolStep
    BY ZenonT(60), <1>1, <1>7, RespondStep
<1>8. ASSUME NEW e \in Entry, MoveToFront(e) PROVE Inv' /\ PoolStep
    BY <1>1, <1>8, MoveToFrontStep
<1>9. ASSUME NEW e \in Entry, ForceDeallocateTarget(e) PROVE Inv' /\ PoolStep
    BY <1>1, <1>9, ForceDeallocateTargetStep
<1>10. QED
    BY ZenonT(60), <1>1, <1>2, <1>3, <1>4, <1>5, <1>6, <1>7, <1>8, <1>9 DEF Next

\* The invariant gives every property the runs check of Spec.
LEMMA InvImplies ==
    Inv => /\ TypeOK /\ QueueConsistency
           /\ TargetsMatchAllocation /\ ReserveAvailable
<1>1. SUFFICES ASSUME Inv
               PROVE  /\ TypeOK /\ QueueConsistency
                      /\ TargetsMatchAllocation /\ ReserveAvailable
    OBVIOUS
<1>2. ReserveAvailable
    <2> DEFINE na == q.allocated
               lf == Len(q.freeList)
    <2>1. na \in Int /\ lf \in Nat /\ na + lf = numEntries
        BY <1>1, QInvCounts DEF Inv
    <2>2. ReserveAvailable <=> (~(na >= numEntries - reserve) => lf >= reserve + 1)
        BY DEF ReserveAvailable, isFull
    <2> HIDE DEF na, lf
    <2>3. numEntries \in Nat /\ reserve \in Nat
        BY QueueAssumption DEF numEntries
    <2>4. QED
        BY <2>1, <2>2, <2>3
<1>3. QED
    BY <1>1, <1>2 DEF Inv, QInv, QueueConsistency

\* Whatever sequence of calls the asserts allow, MSHRQueue's lists and
\* counters stay consistent with each other and with the target lists.
THEOREM QueueConsistent ==
    Spec => [](/\ TypeOK /\ QueueConsistency
               /\ TargetsMatchAllocation /\ ReserveAvailable)
<1>1. Init => Inv
    BY InitInv
<1>2. Inv /\ [Next]_vars => Inv'
    BY NextInv
<1>3. QED
    BY <1>1, <1>2, InvImplies, PTL DEF Spec

\* Every MSHR is free or allocated, the ready list is exact and the counters are
\* right after every sequence of calls, for every number of MSHRs and reserve.
THEOREM QueueStaysConsistent == Spec => []QueueConsistency
    BY QueueConsistent, PTL

\* An MSHR has targets exactly while it is allocated, so deallocate never
\* drops a waiting target and allocate never inherits one.
THEOREM TargetsFollowAllocation == Spec => []TargetsMatchAllocation
    BY QueueConsistent, PTL

\* isFull answers before the reserve is used up, whatever the sequence of calls.
THEOREM ReserveStaysAvailable == Spec => []ReserveAvailable
    BY QueueConsistent, PTL

\* The queue implements the pool of EntryPool: an entry handed out is not
\* handed out again before it is given back, and is sent only when pending.
THEOREM QueueImplementsPool == Spec => ImplementsEntryPool
<1>1. Init => Inv /\ Contract!PoolInit
    BY InitInv
<1>2. Inv /\ [Next]_vars => Inv' /\ PoolStep
    BY NextInv
<1>3. PoolStep <=> [Contract!PoolNext]_(Contract!poolVars)
    BY DEF PoolStep, Contract!poolVars, inflightEntries
<1>4. QED
    BY <1>1, <1>2, <1>3, PTL DEF Spec, ImplementsEntryPool, Contract!PoolSpec

(***************************************************************************)
(* The queue as the cache drives it: the ready list is sorted by ready     *)
(* time, and the entries that stay on it stay in their order.              *)
(***************************************************************************)

Sorted(list, time) ==
    \A i, j \in 1 .. Len(list) : i < j => time[list[i]] <= time[list[j]]

\* What two lists have in common they have in the same order.
Follows(list, next) ==
    \A i, j \in 1 .. Len(list), a, b \in 1 .. Len(next) :
        i < j /\ next[a] = list[i] /\ next[b] = list[j] => a < b

LEMMA SameFollows ==
    ASSUME NEW list \in Seq(Entry), IsInjective(list)
    PROVE  Follows(list, list)
<1>1. \A i, j \in 1 .. Len(list) : list[i] = list[j] => i = j
    BY ListFacts
<1>2. QED
    BY <1>1 DEF Follows

LEMMA EraseFollows ==
    ASSUME NEW list \in Seq(Entry), IsInjective(list), NEW e \in Range(list), NEW time
    PROVE  /\ Follows(list, erase(list, e))
           /\ Sorted(list, time) => Sorted(erase(list, e), time)
<1> DEFINE k == IndexOf(list, e)
           t == erase(list, e)
           old(i) == IF i < k THEN i ELSE i + 1
<1>1. k \in 1 .. Len(list) /\ Len(list) \in Nat
    BY IndexOfProps, LenProperties
<1>2. Len(t) = Len(list) - 1 /\ \A i \in 1 .. Len(list) - 1 : t[i] = list[old(i)]
    <2>1. t = eraseAt(list, k)
        BY DEF erase
    <2> HIDE DEF k, t
    <2>2. QED
        BY ZenonT(60), <1>1, <2>1, EraseAtShape
<1>3. \A i, j \in 1 .. Len(list) : list[i] = list[j] => i = j
    BY ListFacts
<1> HIDE DEF t, k
<1>4. ASSUME NEW a \in 1 .. Len(t)
      PROVE  a \in Nat /\ old(a) \in 1 .. Len(list) /\ t[a] = list[old(a)]
    BY <1>1, <1>2
<1>5. ASSUME NEW a \in 1 .. Len(t), NEW b \in 1 .. Len(t)
      PROVE  a < b <=> old(a) < old(b)
    BY <1>1, <1>4
<1> HIDE DEF old
<1>6. Follows(list, t)
    <2>1. SUFFICES ASSUME NEW i \in 1 .. Len(list), NEW j \in 1 .. Len(list),
                          NEW a \in 1 .. Len(t), NEW b \in 1 .. Len(t),
                          i < j, t[a] = list[i], t[b] = list[j]
                   PROVE  a < b
        BY DEF Follows
    <2>2. old(a) = i /\ old(b) = j
        BY ZenonT(60), <1>3, <1>4, <2>1
    <2>3. QED
        BY <1>5, <2>1, <2>2
<1>7. Sorted(list, time) => Sorted(t, time)
    BY <1>4, <1>5 DEF Sorted
<1>8. QED
    BY <1>6, <1>7 DEF t

LEMMA InsertFollows ==
    ASSUME NEW list \in Seq(Entry), IsInjective(list), NEW e \in Entry, e \notin Range(list),
           NEW k \in 1 .. Len(list) + 1, NEW time \in [Entry -> Nat]
    PROVE  /\ Follows(list, insertAt(list, k, e))
           /\ /\ Sorted(list, time)
              /\ \A i \in 1 .. Len(list) : IF i < k THEN time[list[i]] <= time[e]
                                                    ELSE time[e] <= time[list[i]]
              => Sorted(insertAt(list, k, e), time)
<1> DEFINE t == insertAt(list, k, e)
           old(i) == IF i < k THEN i ELSE i - 1
<1>1. Len(list) \in Nat /\ k \in Nat /\ \A i \in 1 .. Len(list) : list[i] \in Entry /\ list[i] # e
    BY ListFacts
<1>2. /\ t \in Seq(Entry) /\ Len(t) = Len(list) + 1
      /\ \A i \in 1 .. Len(list) + 1 :
            t[i] = IF i < k THEN list[i] ELSE IF i = k THEN e ELSE list[i - 1]
    BY InsertAtShape
<1>3. \A i, j \in 1 .. Len(list) : list[i] = list[j] => i = j
    BY ListFacts
<1> HIDE DEF t
<1>4. ASSUME NEW a \in 1 .. Len(t), a # k
      PROVE  a \in Nat /\ old(a) \in 1 .. Len(list) /\ t[a] = list[old(a)]
             /\ (a < k <=> old(a) < k)
    <2>1. a \in 1 .. Len(list) + 1 /\ a \in Nat
        BY <1>1, <1>2
    <2>2. CASE a < k
        <3>1. old(a) = a /\ a \in 1 .. Len(list)
            BY <1>1, <2>1, <2>2
        <3>2. t[a] = list[a]
            BY ZenonT(60), <1>2, <2>1, <2>2
        <3>3. QED
            BY ZenonT(60), <2>1, <2>2, <3>1, <3>2
    <2>3. CASE ~(a < k)
        <3>1. old(a) = a - 1 /\ a - 1 \in 1 .. Len(list) /\ ~(a - 1 < k)
            BY <1>1, <1>4, <2>1, <2>3
        <3>2. t[a] = list[a - 1]
            BY ZenonT(60), <1>2, <1>4, <2>1, <2>3
        <3>3. QED
            BY ZenonT(60), <2>1, <2>3, <3>1, <3>2
    <2>4. QED
        BY ZenonT(60), <2>2, <2>3
<1>5. ASSUME NEW a \in 1 .. Len(t), a # k, NEW b \in 1 .. Len(t), b # k
      PROVE  a < b <=> old(a) < old(b)
    <2>1. a \in Nat /\ b \in Nat
        BY <1>1, <1>2
    <2>2. QED
        BY <1>1, <1>5, <2>1
<1>6. k \in 1 .. Len(t) /\ t[k] = e
    BY <1>1, <1>2
<1> HIDE DEF old
<1>7. Follows(list, t)
    <2>1. SUFFICES ASSUME NEW i \in 1 .. Len(list), NEW j \in 1 .. Len(list),
                          NEW a \in 1 .. Len(t), NEW b \in 1 .. Len(t),
                          i < j, t[a] = list[i], t[b] = list[j]
                   PROVE  a < b
        BY ZenonT(60) DEF Follows
    <2>2. a # k /\ b # k
        BY ZenonT(60), <1>1, <1>6, <2>1
    <2>3. /\ old(a) \in 1 .. Len(list) /\ list[old(a)] = list[i]
          /\ old(b) \in 1 .. Len(list) /\ list[old(b)] = list[j]
        BY ZenonT(60), <1>4, <2>1, <2>2
    <2>4. old(a) = i /\ old(b) = j
        BY ZenonT(60), <1>3, <2>3
    <2>5. QED
        BY <1>5, <2>1, <2>2, <2>4
<1>8. ASSUME Sorted(list, time),
             \A i \in 1 .. Len(list) : IF i < k THEN time[list[i]] <= time[e]
                                                ELSE time[e] <= time[list[i]]
      PROVE  Sorted(t, time)
    <2>1. SUFFICES ASSUME NEW a \in 1 .. Len(t), NEW b \in 1 .. Len(t), a < b
                   PROVE  time[t[a]] <= time[t[b]]
        BY DEF Sorted
    <2>2. a \in Nat /\ b \in Nat
        BY <1>2
    <2>3. CASE a = k
        <3>1. b # k /\ ~(b < k)
            BY <1>1, <2>1, <2>2, <2>3
        <3>2. old(b) \in 1 .. Len(list) /\ t[b] = list[old(b)] /\ ~(old(b) < k)
            BY ZenonT(60), <1>4, <3>1
        <3>3. QED
            BY ZenonT(60), <1>6, <1>8, <2>3, <3>2
    <2>4. CASE b = k
        <3>1. a # k /\ a < k
            BY <1>1, <2>1, <2>2, <2>4
        <3>2. old(a) \in 1 .. Len(list) /\ t[a] = list[old(a)] /\ old(a) < k
            BY <1>4, <3>1
        <3>3. QED
            BY <1>6, <1>8, <2>4, <3>2
    <2>5. CASE a # k /\ b # k
        <3>1. /\ old(a) \in 1 .. Len(list) /\ t[a] = list[old(a)]
              /\ old(b) \in 1 .. Len(list) /\ t[b] = list[old(b)]
            BY <1>4, <2>5
        <3>2. old(a) < old(b)
            BY <1>5, <2>1, <2>5
        <3>3. QED
            BY ZenonT(60), <1>8, <3>1, <3>2 DEF Sorted
    <2>6. QED
        BY <2>3, <2>4, <2>5
<1>9. QED
    BY <1>7, <1>8 DEF t

\* addToReadyList finds the place that keeps the list sorted.
LEMMA AddFollows ==
    ASSUME NEW x \in QueueType, IsInjective(x.readyList),
           NEW e \in Entry, e \notin Range(x.readyList)
    PROVE  /\ Follows(x.readyList, addToReadyList(x, e).readyList)
           /\ Sorted(x.readyList, x.readyTime)
                => Sorted(addToReadyList(x, e).readyList, x.readyTime)
           /\ addToReadyList(x, e).readyTime = x.readyTime
<1> DEFINE r     == x.readyList
           time  == x.readyTime
           later == {i \in 1 .. Len(r) : time[r[i]] > time[e]}
           first == CHOOSE i \in later : \A j \in later : i <= j
           atEnd == r = << >> \/ time[r[Len(r)]] <= time[e]
           y     == addToReadyList(x, e)
<1>1. r \in Seq(Entry) /\ time \in [Entry -> Nat]
    BY DEF QueueType
<1>2. y = [x EXCEPT !.readyList = IF atEnd THEN Append(r, e) ELSE insertAt(r, first, e)]
    BY DEF addToReadyList
<1>3. y.readyList = (IF atEnd THEN Append(r, e) ELSE insertAt(r, first, e)) /\ y.readyTime = time
    BY <1>2 DEF QueueType
<1>4. /\ Len(r) \in Nat /\ (Len(r) = 0 => r = << >>)
      /\ \A i \in 1 .. Len(r) : r[i] \in Entry /\ time[r[i]] \in Nat
      /\ time[e] \in Nat
    <2>1. Len(r) \in Nat /\ (Len(r) = 0 => r = << >>) /\ \A i \in 1 .. Len(r) : r[i] \in Entry
        BY ZenonT(60), <1>1, LenProperties, EmptySeq, ElementOfSeq
    <2>2. QED
        BY <1>1, <2>1
<1>5. CASE atEnd
    <2>1. y.readyList = insertAt(r, Len(r) + 1, e)
        BY ZenonT(60), <1>1, <1>3, <1>5, EndsAreInsertions
    <2>2. Sorted(r, time) => \A i \in 1 .. Len(r) : i < Len(r) + 1 /\ time[r[i]] <= time[e]
        <3>1. SUFFICES ASSUME Sorted(r, time), NEW i \in 1 .. Len(r)
                       PROVE  i < Len(r) + 1 /\ time[r[i]] <= time[e]
            OBVIOUS
        <3>2. r # << >> /\ Len(r) \in 1 .. Len(r)
            BY <1>4, EmptySeq
        <3>3. time[r[Len(r)]] <= time[e] /\ time[r[Len(r)]] \in Nat
            BY <1>4, <1>5, <3>2
        <3>4. CASE i = Len(r)
            BY <1>4, <3>3, <3>4
        <3>5. CASE i # Len(r)
            <4>1. time[r[i]] <= time[r[Len(r)]]
                BY <1>4, <3>1, <3>2, <3>5 DEF Sorted
            <4>2. QED
                BY <1>4, <3>3, <4>1
        <3>6. QED
            BY <3>4, <3>5
    <2> HIDE DEF y, r, time
    <2>3. Len(r) + 1 \in 1 .. Len(r) + 1
        BY <1>4
    <2>4. QED
        BY ZenonT(60), <1>1, <1>3, <2>1, <2>2, <2>3, InsertFollows DEF r, time, y
<1>6. CASE ~atEnd
    <2>1. Len(r) \in later
        BY <1>4, <1>6
    <2>2. later \in SUBSET Nat /\ later # {}
        BY <1>4, <2>1
    <2>3. first \in later /\ \A j \in later : first <= j
        <3> HIDE DEF later
        <3>1. \E i \in later : \A j \in later : i <= j
            BY <2>2, LeastNat
        <3>2. QED
            BY <3>1
    <2>4. first \in 1 .. Len(r) + 1 /\ first \in 1 .. Len(r) /\ time[r[first]] > time[e]
        <3> HIDE DEF first
        <3>1. QED
            BY <1>4, <2>3
    <2>5. y.readyList = insertAt(r, first, e)
        BY ZenonT(60), <1>3, <1>6
    <2>6. ASSUME Sorted(r, time), NEW i \in 1 .. Len(r)
          PROVE  IF i < first THEN time[r[i]] <= time[e] ELSE time[e] <= time[r[i]]
        <3> HIDE DEF first
        <3>1. CASE i < first
            <4>1. i \notin later
                BY <1>4, <2>3, <2>4, <3>1
            <4>2. QED
                BY <1>4, <3>1, <4>1
        <3>2. CASE i = first
            BY <1>4, <2>4, <3>2
        <3>3. CASE i > first
            <4>1. time[r[first]] <= time[r[i]]
                BY <2>4, <2>6, <3>3 DEF Sorted
            <4>2. QED
                BY <1>4, <2>4, <3>3, <4>1
        <3>4. QED
            BY <2>4, <3>1, <3>2, <3>3
    <2> HIDE DEF first, y, r, time
    <2>7. QED
        BY ZenonT(60), <1>1, <1>3, <2>4, <2>5, <2>6, InsertFollows DEF r, time, y
<1>7. QED
    BY <1>5, <1>6

\* The queue's ready list is sorted, and what stays of the old one is in order.
ReadySorted == Sorted(q.readyList, q.readyTime)

ReadyStep == ReadySorted' /\ Follows(q.readyList, q'.readyList)

LEMMA UnchangedReady ==
    ASSUME Inv, ReadySorted, UNCHANGED q
    PROVE  ReadyStep
<1>1. q.readyList \in Seq(Entry) /\ IsInjective(q.readyList)
    BY QInvTypes, QInvLists DEF Inv
<1>2. QED
    BY <1>1, SameFollows DEF ReadyStep, ReadySorted

\* An entry that is not on the list is given a ready time and put there.
LEMMA AddedReady ==
    ASSUME Inv, ReadySorted, NEW e \in Entry, e \notin Range(q.readyList), NEW t \in Nat,
           NEW x \in QueueType, x.readyList = q.readyList,
           x.readyTime = [q.readyTime EXCEPT ![e] = t], q' = addToReadyList(x, e)
    PROVE  ReadyStep
<1>1. /\ q.readyList \in Seq(Entry) /\ IsInjective(q.readyList)
      /\ q.readyTime \in [Entry -> Nat]
    BY QInvTypes, QInvLists DEF Inv
<1>2. \A i \in 1 .. Len(q.readyList) : q.readyList[i] \in Entry /\ q.readyList[i] # e
    BY <1>1, ListFacts
<1>3. Sorted(x.readyList, x.readyTime)
    BY <1>1, <1>2 DEF ReadySorted, Sorted
<1>4. /\ Follows(x.readyList, q'.readyList) /\ Sorted(q'.readyList, x.readyTime)
      /\ q'.readyTime = x.readyTime
    BY <1>1, <1>3, AddFollows
<1>5. QED
    BY <1>4 DEF ReadyStep, ReadySorted

LEMMA AllocateReady ==
    ASSUME Inv, ReadySorted, NEW a \in Addr, NEW t \in Tick, Allocate(a, t)
    PROVE  ReadyStep
<1> DEFINE e == Head(q.freeList)
           x == [q EXCEPT !.freeList      = Tail(@),
                          !.allocatedList = Append(@, e),
                          !.inService     = [@ EXCEPT ![e] = FALSE],
                          !.readyTime     = [@ EXCEPT ![e] = t],
                          !.blkAddr       = [@ EXCEPT ![e] = a],
                          !.allocated     = @ + 1]
<1>1. QInv(q) /\ q.freeList # << >> /\ t \in Nat /\ q' = addToReadyList(x, e)
    BY TickNat DEF Inv, Allocate, allocateEntry
<1>2. /\ q.freeList \in Seq(Entry) /\ q.allocatedList \in Seq(Entry) /\ q \in QueueType
      /\ q.inService \in [Entry -> BOOLEAN] /\ q.readyTime \in [Entry -> Nat]
      /\ q.blkAddr \in [Entry -> Addr] /\ q.allocated \in Int
    BY <1>1, QInvTypes, QInvCounts
<1>3. e \in Entry /\ e \notin Range(q.allocatedList)
    BY ZenonT(60), <1>1, AllocateEntryProps
<1>4. e \notin Range(q.readyList)
    BY <1>1, <1>3 DEF QInv, ReadyExact
<1>5. x \in QueueType /\ x.readyList = q.readyList /\ x.readyTime = [q.readyTime EXCEPT ![e] = t]
    <2> DEFINE fl == Tail(q.freeList)
               al == Append(q.allocatedList, e)
               is == [q.inService EXCEPT ![e] = FALSE]
               rt == [q.readyTime EXCEPT ![e] = t]
               ba == [q.blkAddr EXCEPT ![e] = a]
               na == q.allocated + 1
    <2>1. fl \in Seq(Entry) /\ al \in Seq(Entry) /\ na \in Int
        BY <1>1, <1>2, <1>3, HeadTailProperties, AppendProperties
    <2>2. is \in [Entry -> BOOLEAN] /\ rt \in [Entry -> Nat] /\ ba \in [Entry -> Addr]
        BY <1>1, <1>2, <1>3
    <2>3. x = [q EXCEPT !.freeList = fl, !.allocatedList = al, !.inService = is,
                        !.readyTime = rt, !.blkAddr = ba, !.allocated = na]
        OBVIOUS
    <2> HIDE DEF fl, al, is, rt, ba, na, x
    <2>4. x \in QueueType /\ x.readyList = q.readyList /\ x.readyTime = rt
        BY ZenonT(60), <1>2, <2>1, <2>2, <2>3 DEF QueueType
    <2>5. QED
        BY <2>4 DEF rt
<1> HIDE DEF x, e
<1>6. QED
    BY <1>1, <1>3, <1>4, <1>5, AddedReady

LEMMA MarkPendingReady ==
    ASSUME Inv, ReadySorted, NEW e \in Allocated, q.inService[e], NEW t \in Nat,
           q' = markPending(q, e, t)
    PROVE  ReadyStep
<1> DEFINE is == [q.inService EXCEPT ![e] = FALSE]
           rt == [q.readyTime EXCEPT ![e] = t]
           ns == q.numInService - 1
           x  == [q EXCEPT !.inService = is, !.readyTime = rt, !.numInService = ns]
<1>1. q' = addToReadyList(x, e)
    BY DEF markPending
<1>2. /\ QInv(q) /\ q \in QueueType /\ q.inService \in [Entry -> BOOLEAN]
      /\ q.readyTime \in [Entry -> Nat] /\ q.numInService \in Int
    BY QInvTypes, QInvCounts DEF Inv
<1>3. e \in Entry /\ e \notin Range(q.readyList)
    BY <1>2, QInvLists DEF QInv, ReadyExact, Allocated
<1>4. is \in [Entry -> BOOLEAN] /\ rt \in [Entry -> Nat] /\ ns \in Int
    BY <1>2, <1>3
<1> HIDE DEF is, rt, ns
<1>5. x \in QueueType /\ x.readyList = q.readyList /\ x.readyTime = rt
    BY ZenonT(60), <1>2, <1>4 DEF QueueType
<1> HIDE DEF x
<1>6. x.readyTime = [q.readyTime EXCEPT ![e] = t]
    BY <1>5 DEF rt
<1>7. QED
    BY <1>1, <1>3, <1>5, <1>6, AddedReady

\* markInService and deallocate take an entry off the list.
LEMMA ErasedReady ==
    ASSUME Inv, ReadySorted, NEW e \in Range(q.readyList),
           q'.readyList = erase(q.readyList, e), q'.readyTime = q.readyTime
    PROVE  ReadyStep
<1>1. q.readyList \in Seq(Entry) /\ IsInjective(q.readyList)
    BY QInvTypes, QInvLists DEF Inv
<1>2. QED
    BY <1>1, EraseFollows DEF ReadyStep, ReadySorted

LEMMA MarkInServiceReady ==
    ASSUME Inv, ReadySorted, NEW e \in Entry, MarkInService(e)
    PROVE  ReadyStep
<1>1. QInv(q) /\ q \in QueueType /\ e \in Range(q.readyList) /\ q' = markInService(q, e)
    BY QInvTypes DEF Inv, MarkInService, Allocated, QInv, ReadyExact
<1>2. q'.readyList = erase(q.readyList, e) /\ q'.readyTime = q.readyTime
    BY <1>1 DEF markInService, QueueType
<1>3. QED
    BY <1>1, <1>2, ErasedReady

LEMMA RespondReady ==
    ASSUME Inv, ReadySorted, NEW e \in Entry, Respond(e)
    PROVE  ReadyStep
<1>1. e \in Allocated /\ QInv(q) /\ q \in QueueType
    BY QInvTypes DEF Inv, Respond
<1>2. CASE Release(e)
    <2>1. /\ q'.readyList = IF q.inService[e] THEN q.readyList ELSE erase(q.readyList, e)
          /\ q'.readyTime = q.readyTime
        BY <1>1, <1>2 DEF Release, deallocateEntry, QueueType
    <2>2. CASE q.inService[e]
        <3>1. q'.readyList = q.readyList /\ q'.readyTime = q.readyTime
            BY <2>1, <2>2
        <3>2. q.readyList \in Seq(Entry) /\ IsInjective(q.readyList)
            BY <1>1, QInvTypes, QInvLists
        <3>3. QED
            BY <3>1, <3>2, SameFollows DEF ReadyStep, ReadySorted
    <2>3. CASE ~q.inService[e]
        <3>1. e \in Range(q.readyList)
            BY <1>1, <2>3 DEF Allocated, QInv, ReadyExact
        <3>2. QED
            BY <2>1, <2>3, <3>1, ErasedReady
    <2>4. QED
        BY <2>2, <2>3
<1>3. CASE deferred[e] # << >> /\ q.inService[e] /\ q' = markPending(q, e, PromotedReadyTime(e))
    <2> DEFINE n == PromotedReadyTime(e)
    <2>1. n \in Nat /\ q' = markPending(q, e, n)
        BY <1>3, PromotedNat DEF Inv
    <2> HIDE DEF n
    <2>2. QED
        BY <1>1, <1>3, <2>1, MarkPendingReady
<1>4. QED
    BY <1>2, <1>3 DEF Respond

\* A step of the cache is one of the class's methods and keeps the list sorted.
LEMMA CacheStep ==
    ASSUME Inv, ReadySorted, [CacheNext]_vars
    PROVE  Inv' /\ ReadyStep
<1>1. Allocated \subseteq Entry
    BY QInvLists DEF Inv, Allocated
<1>2. CASE \E a \in Addr, t \in Tick : Miss(a, t)
    <2>1. PICK a \in Addr, t \in Tick : Miss(a, t)
        BY <1>2
    <2>2. CASE Allocate(a, t)
        BY <2>2, AllocateStep, AllocateReady
    <2>3. CASE AllocateTarget(findMatch(q, a), t)
        <3>1. findMatch(q, a) \in Entry /\ UNCHANGED q
            BY <1>1, <2>3 DEF AllocateTarget
        <3>2. QED
            BY <2>3, <3>1, AllocateTargetStep, UnchangedReady
    <2>4. QED
        BY <2>1, <2>2, <2>3 DEF Miss
<1>3. CASE SendNext
    <2>1. PICK e : MarkInService(e) \/ Respond(e)
        BY <1>3 DEF SendNext
    <2>2. e \in Entry
        BY <1>1, <2>1 DEF MarkInService, Respond
    <2>3. QED
        BY <2>1, <2>2, MarkInServiceStep, MarkInServiceReady, RespondStep, RespondReady
<1>4. CASE \E e \in Entry : q.inService[e] /\ Respond(e)
    BY <1>4, RespondStep, RespondReady
<1>5. CASE UNCHANGED vars
    <2>1. Inv'
        BY <1>5, NextInv
    <2>2. UNCHANGED q
        BY <1>5 DEF vars
    <2>3. QED
        BY <2>1, <2>2, UnchangedReady
<1>6. QED
    BY ZenonT(60), <1>2, <1>3, <1>4, <1>5 DEF CacheNext

LEMMA CacheInit == Init => Inv /\ ReadySorted
<1>1. SUFFICES ASSUME Init PROVE ReadySorted
    BY InitInv
<1>2. q.readyList = << >>
    BY <1>1 DEF Init, NewQueue
<1>3. QED
    BY <1>2 DEF ReadySorted, Sorted

\* The head of a sorted list is ready if any of its entries is.
LEMMA SortedHidesNothing ==
    ASSUME Inv, ReadySorted
    PROVE  NoReadyEntryHidden
<1>1. SUFFICES ASSUME NEW e \in Range(q.readyList), q.readyTime[e] <= curTick
               PROVE  getNext(q) # Null
    BY DEF NoReadyEntryHidden
<1>2. /\ q.readyList \in Seq(Entry) /\ q.readyTime \in [Entry -> Nat]
      /\ Len(q.readyList) \in Nat
    BY QInvTypes, LenProperties DEF Inv
<1>3. PICK i \in 1 .. Len(q.readyList) : q.readyList[i] = e
    BY <1>2, ListFacts
<1>4. /\ q.readyList # << >> /\ 1 \in 1 .. Len(q.readyList)
      /\ Head(q.readyList) = q.readyList[1] /\ q.readyList[1] \in Entry
      /\ q.readyTime[q.readyList[1]] \in Nat
    <2>1. 1 \in 1 .. Len(q.readyList) /\ q.readyList # << >>
        BY <1>2, <1>3, EmptySeq
    <2>2. Head(q.readyList) = q.readyList[1] /\ q.readyList[1] \in Entry
        BY <1>2, <2>1, ElementOfSeq
    <2>3. QED
        BY <1>2, <2>1, <2>2
<1>5. q.readyTime[q.readyList[1]] <= q.readyTime[e]
    <2>1. CASE i = 1
        BY <1>3, <1>4, <2>1
    <2>2. CASE i # 1
        BY <1>3, <1>4, <2>2 DEF ReadySorted, Sorted
    <2>3. QED
        BY <2>1, <2>2
<1>6. q.readyTime[e] = 0 /\ q.readyTime[q.readyList[1]] = 0
    <2>1. q.readyTime[e] \in Nat
        BY <1>2, <1>3, ElementOfSeq
    <2>2. QED
        BY <1>1, <1>4, <1>5, <2>1 DEF curTick
<1>7. getNext(q) = q.readyList[1]
    BY <1>4, <1>6 DEF getNext, curTick
<1>8. QED
    BY <1>4, <1>7 DEF Entry, Null

\* As the cache drives the queue, getNext never answers null while a pending
\* miss is ready, although it looks only at the head of the ready list.
THEOREM NoReadyMissIsHidden == CacheSpec => []NoReadyEntryHidden
<1>1. Inv /\ ReadySorted /\ [CacheNext]_vars => Inv' /\ ReadySorted'
    BY CacheStep DEF ReadyStep
<1>2. Inv /\ ReadySorted => NoReadyEntryHidden
    BY SortedHidesNothing
<1>3. QED
    BY <1>1, <1>2, CacheInit, PTL DEF CacheSpec

\* No call of the cache lets one pending miss overtake another (addToReadyList
\* and the erasures of markInService and deallocate keep the order).
THEOREM PendingMissesKeepOrder == CacheSpec => ReadyOrderKept
<1>1. Inv /\ ReadySorted /\ [CacheNext]_vars => Inv' /\ ReadySorted'
    BY CacheStep DEF ReadyStep
<1>2. Inv /\ ReadySorted /\ [CacheNext]_vars =>
        [\A i, j \in 1 .. Len(q.readyList) :
            LET e == q.readyList[i]
                f == q.readyList[j]
            IN  /\ i < j
                /\ e \in Range(q'.readyList) /\ f \in Range(q'.readyList)
                => IndexOf(q'.readyList, e) < IndexOf(q'.readyList, f)]_vars
    <2>1. SUFFICES ASSUME Inv, ReadySorted, [CacheNext]_vars,
                          NEW i \in 1 .. Len(q.readyList), NEW j \in 1 .. Len(q.readyList),
                          i < j, q.readyList[i] \in Range(q'.readyList),
                          q.readyList[j] \in Range(q'.readyList)
                   PROVE  IndexOf(q'.readyList, q.readyList[i])
                            < IndexOf(q'.readyList, q.readyList[j])
        OBVIOUS
    <2>2. Inv' /\ Follows(q.readyList, q'.readyList)
        BY <2>1, CacheStep DEF ReadyStep
    <2>3. q'.readyList \in Seq(Entry)
        BY <2>2 DEF Inv, TypeOK, QueueType
    <2> DEFINE a == IndexOf(q'.readyList, q.readyList[i])
               b == IndexOf(q'.readyList, q.readyList[j])
    <2>4. /\ a \in 1 .. Len(q'.readyList) /\ q'.readyList[a] = q.readyList[i]
          /\ b \in 1 .. Len(q'.readyList) /\ q'.readyList[b] = q.readyList[j]
        BY <2>1, <2>3, IndexOfProps
    <2> HIDE DEF a, b
    <2>5. a < b
        BY <2>1, <2>2, <2>4 DEF Follows
    <2>6. QED
        BY <2>5 DEF a, b
<1>3. QED
    BY <1>1, <1>2, CacheInit, PTL DEF CacheSpec, ReadyOrderKept

=============================================================================
