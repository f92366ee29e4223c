--------------------------------- MODULE MSHR ---------------------------------
(***************************************************************************)
(* A miss status holding register (mshr/mshr.cpp): the targets waiting for *)
(* one block, those deferred to a later request, and the flags each list   *)
(* keeps about its targets.  An MSHR is a record and a method an operator  *)
(* from record to record, as in module Queue.                              *)
(*                                                                         *)
(* handleSnoop is commented out in the code: postInvalidate, postDowngrade *)
(* and downstreamPending stay FALSE and no target comes from a snoop.      *)
(* Locked reads, whose target outlives its response, are in module         *)
(* NoncoherentCache.                                                       *)
(***************************************************************************)
EXTENDS Naturals, Sequences, FiniteSetsExt

CONSTANT blkSize

Byte == 0 .. blkSize - 1

Cmd == {"ReadReq", "ReadSharedReq", "WriteReq", "StoreCondReq", "HardPFReq",
        "CleanSharedReq", "CleanInvalidReq"}

(***************************************************************************)
(* Attributes of a packet p.  p.bytes are the bytes a write spans;         *)
(* p.special says that it has one of the no_merge_flags, such as SECURE,   *)
(* and p.masked that it writes only some of its bytes.                     *)
(***************************************************************************)

isWrite(p) == p.cmd \in {"WriteReq", "StoreCondReq"}
needsWritable(p) == p.cmd \in {"WriteReq", "StoreCondReq"}
isUpgrade(p) == p.cmd = "StoreCondReq"
isPrefetch(p) == p.cmd = "HardPFReq"
fromCache(p) == p.cmd \in {"ReadSharedReq", "CleanSharedReq", "CleanInvalidReq"}
isCacheInvalidate(p) == p.cmd = "CleanInvalidReq"
isCacheMaintenance(p) == p.cmd \in {"CleanSharedReq", "CleanInvalidReq"}
allocOnFill(p) == p.cmd \in {"ReadReq", "WriteReq", "HardPFReq"}

(***************************************************************************)
(* MSHR::TargetList                                                        *)
(***************************************************************************)

\* A list without targets and with its flags reset.
EmptyList ==
    [list |-> << >>, needsWritable |-> FALSE, hasUpgrade |-> FALSE,
     allocOnFill |-> FALSE, hasFromCache |-> FALSE,
     canMergeWrites |-> TRUE, writes |-> {}]

isReset(l) ==
    ~l.needsWritable /\ ~l.hasUpgrade /\ ~l.allocOnFill /\ ~l.hasFromCache /\ l.canMergeWrites

isWholeLineWrite(l) == l.writes = Byte

\* The bytes a write adds to the bitmap: a masked write adds none.
mergedBytes(p) == IF p.masked THEN {} ELSE p.bytes

\* Mutant: a target that is not a write does not end the merging.
updateWriteFlagsKeepMerging(l, p) ==
    IF isWholeLineWrite(l) \/ ~l.canMergeWrites \/ ~isWrite(p) THEN l
    ELSE [l EXCEPT !.writes = IF l.list = << >> \/ ~p.special THEN @ \cup mergedBytes(p) ELSE @,
                   !.canMergeWrites = ~p.special]

\* The bytes written so far: once a target cannot be merged, no later one is.
\* A special write counts only when the list is empty; a masked one leaves the
\* bytes as they are and does not end the merging.
updateWriteFlags(l, p) ==
    IF isWholeLineWrite(l) \/ ~l.canMergeWrites THEN l
    ELSE IF ~isWrite(p) THEN [l EXCEPT !.canMergeWrites = FALSE]
    ELSE [l EXCEPT !.writes = IF l.list = << >> \/ ~p.special THEN @ \cup mergedBytes(p) ELSE @,
                   !.canMergeWrites = ~p.special]

updateFlags(l, p) ==
    LET f == [l EXCEPT !.needsWritable = @ \/ needsWritable(p),
                       !.hasUpgrade = @ \/ isUpgrade(p),
                       !.allocOnFill = @ \/ allocOnFill(p)]
    IN  IF isPrefetch(p) THEN f
        ELSE updateWriteFlags([f EXCEPT !.hasFromCache = @ \/ fromCache(p)], p)

\* Mutant: the flags are left as they are.
populateFlagsNot(l) == l

\* How many elements of a list precede the first for which P does not hold.
prefix(list, P(_)) ==
    LET rest == {i \in DOMAIN list : ~P(list[i])}
    IN  IF rest = {} THEN Len(list) ELSE Min(rest) - 1

isMergeable(t) == isPrefetch(t) \/ (isWrite(t) /\ ~t.special)

\* The flags computed afresh from the targets.  The bytes written are those of
\* the writes before the first target that cannot be merged; a special write
\* is never the first of an empty list here.
populateFlags(l) ==
    LET Has(P(_)) == \E i \in DOMAIN l.list : P(l.list[i])
        n == prefix(l.list, isMergeable)
        written == UNION {mergedBytes(l.list[i]) : i \in 1 .. n}
    IN  [list |-> l.list, needsWritable |-> Has(needsWritable), hasUpgrade |-> Has(isUpgrade),
         allocOnFill |-> Has(allocOnFill), hasFromCache |-> Has(fromCache),
         canMergeWrites |-> written = Byte \/ n = Len(l.list), writes |-> written]

add(l, p) == [updateFlags(l, p) EXCEPT !.list = Append(l.list, p)]

(***************************************************************************)
(* MSHR                                                                    *)
(***************************************************************************)

allocate(p) ==
    [targets |-> add(EmptyList, p), deferred |-> EmptyList, inService |-> FALSE,
     pendingModified |-> FALSE, wasWholeLineWrite |-> FALSE]

\* Mutant: other deferred targets are overlooked.
mustDeferIfWritable(m, p) ==
    \/ isCacheMaintenance(p) \/ isCacheMaintenance(Head(m.targets.list))
    \/ m.inService /\ needsWritable(p) /\ ~m.pendingModified

\* Mutant: a target that needs a writable block joins a read in service.
mustDeferBehind(m, p) ==
    \/ isCacheMaintenance(p) \/ isCacheMaintenance(Head(m.targets.list))
    \/ m.deferred.list # << >>

\* Whether a new target has to wait for another request than the present one.
mustDefer(m, p) ==
    \/ isCacheMaintenance(p) \/ isCacheMaintenance(Head(m.targets.list))
    \/ m.deferred.list # << >>
    \/ m.inService /\ needsWritable(p) /\ ~m.pendingModified

allocateTarget(m, p) ==
    IF mustDefer(m, p) THEN [m EXCEPT !.deferred = add(m.deferred, p)]
                       ELSE [m EXCEPT !.targets = add(m.targets, p)]

markInService(m, pending_modified_resp) ==
    [m EXCEPT !.inService = TRUE,
              !.pendingModified = m.targets.needsWritable \/ pending_modified_resp,
              !.wasWholeLineWrite = isWholeLineWrite(m.targets)]

\* How many targets a response serves: the first only, if the block was
\* invalidated on its way, else all.
serviceable(m, cmd) ==
    IF cmd = "ReadRespWithInvalidate" THEN 1 ELSE Len(m.targets.list)

extractServiceableTargets(m, cmd) == SubSeq(m.targets.list, 1, serviceable(m, cmd))

\* What extractServiceableTargets leaves behind.
withoutServiceable(m, cmd) ==
    LET left == SubSeq(m.targets.list, serviceable(m, cmd) + 1, Len(m.targets.list))
    IN  [m EXCEPT !.targets = populateFlags([m.targets EXCEPT !.list = left])]

\* The first n deferred targets moved to the end of the targets.
splice(m, n) ==
    [m EXCEPT !.targets.list = m.targets.list \o SubSeq(m.deferred.list, 1, n),
              !.deferred.list = SubSeq(m.deferred.list, n + 1, Len(m.deferred.list))]

\* The flags of the targets are not updated.
promoteIf(m, P(_)) ==
    LET s == splice(m, prefix(m.deferred.list, P))
    IN  [s EXCEPT !.deferred = populateFlags(s.deferred)]

\* Mutant: every deferred target is promoted.
isPromotableAny(t) == TRUE

isPromotable(t) == ~isCacheInvalidate(t)

isPromotableRead(t) == ~isCacheInvalidate(t) /\ ~needsWritable(t)

promoteReadable(m) == IF m.deferred.list = << >> THEN m ELSE promoteIf(m, isPromotableRead)

\* promoteWritable has something to promote ...
promotesWritable(m) ==
    /\ m.deferred.list # << >>
    /\ m.deferred.needsWritable /\ ~isCacheInvalidate(Head(m.deferred.list))

\* ... and asserts that no target has asked for a writable block.
promoteWritableAborts(m) == promotesWritable(m) /\ m.targets.needsWritable

promoteWritable(m) ==
    IF promotesWritable(m)
    THEN promoteIf([m EXCEPT !.targets.needsWritable = TRUE], isPromotable) ELSE m

isOrdinary(t) == ~isCacheMaintenance(t)

\* How many deferred targets become targets once a response has been served: a
\* cache maintenance request alone, and others up to the next such request.
promoted(m) ==
    LET n == prefix(m.deferred.list, isOrdinary)
    IN  IF n = 0 /\ m.deferred.list # << >> /\ m.targets.list = << >> THEN 1 ELSE n

promoteDeferredTargets(m) ==
    LET s == splice(m, promoted(m))
    IN  [s EXCEPT !.targets = populateFlags(s.targets), !.deferred = populateFlags(s.deferred)]

=============================================================================
