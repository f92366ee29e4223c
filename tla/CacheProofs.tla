----------------------------- MODULE CacheProofs ------------------------------
(***************************************************************************)
(* The properties of the cache, proved for every number of MSHRs, targets, *)
(* sets, ways, blocks and requests.                                        *)
(*                                                                         *)
(* The inductive invariant CacheInv relates the MSHR queue, the blocking   *)
(* causes, the tags, the pending wake-up and the requestors' ledger.  Each *)
(* action has a lemma ...Keeps; the properties of module NoncoherentCache  *)
(* follow from CacheInv.                                                   *)
(***************************************************************************)
EXTENDS NoncoherentCache, QueueProofs

(***************************************************************************)
(* The tags                                                                *)
(***************************************************************************)

Set == 0 .. numSets - 1

TagsType == [Set -> [Way -> [blk : Addr \cup {NoBlk}, bits : SUBSET Bits]]]

\* Every block is in the set its address selects, in one way at most.
Placed(t) ==
    /\ t \in TagsType
    /\ \A s \in Set, w \in Way : t[s][w].blk # NoBlk => extractSet(t[s][w].blk) = s
    /\ \A s \in Set : \A v, w \in Way :
           t[s][v].blk = t[s][w].blk /\ t[s][v].blk # NoBlk => v = w

Both == {"Readable", "Writable"}

\* Every block outside L can be read and written.
Accessible(t, L) ==
    \A s \in Set, w \in Way :
        t[s][w].blk # NoBlk => Both \subseteq t[s][w].bits \/ t[s][w].blk \in L

LEMMA AddrProps ==
    ASSUME NEW b \in Addr
    PROVE  b \in Nat /\ b # NoBlk /\ extractSet(b) \in Set
<1>1. b \in Nat /\ numSets \in Nat \ {0}
    BY CacheAssumption
<1>2. b % numSets \in 0 .. numSets - 1
    BY <1>1
<1>3. QED
    BY <1>1, <1>2 DEF NoBlk, extractSet, Set

\* findBlock finds the way of the block exactly if a way holds it.
LEMMA FindBlockProps ==
    ASSUME NEW b \in Addr
    PROVE  IF Cached(b)
           THEN findBlock(b) \in Way /\ tags[extractSet(b)][findBlock(b)].blk = b
           ELSE \A w \in Way : tags[extractSet(b)][w].blk # b
<1> DEFINE hit == {w \in Way : tags[extractSet(b)][w].blk = b}
           k   == CHOOSE w \in hit : \A v \in hit : w <= v
<1>1. findBlock(b) = IF hit = {} THEN Null ELSE k
    BY DEF findBlock
<1>2. Way \subseteq Nat \ {Null}
    BY CacheAssumption DEF Way, Null
<1>3. CASE hit = {}
    BY <1>1, <1>3 DEF Cached
<1>4. CASE hit # {}
    <2>1. hit \in SUBSET Nat
        BY <1>2
    <2>2. \E w \in hit : \A v \in hit : w <= v
        BY ZenonT(60), <2>1, <1>4, LeastNat
    <2>3. k \in hit
        BY <2>2
    <2>4. k \in Way /\ tags[extractSet(b)][k].blk = b
        BY <2>3
    <2> HIDE DEF k, hit
    <2>5. QED
        BY <1>1, <1>2, <1>4, <2>4 DEF Cached
<1>5. QED
    BY <1>3, <1>4

\* setBits changes the bits of the block's own way and nothing else.
LEMMA SetBitsProps ==
    ASSUME Placed(tags), NEW b \in Addr, Cached(b), NEW B \in SUBSET Bits
    PROVE  /\ Placed(setBits(b, B))
           /\ \A s \in Set, w \in Way :
                 /\ setBits(b, B)[s][w].blk = tags[s][w].blk
                 /\ setBits(b, B)[s][w].bits = IF tags[s][w].blk = b THEN B ELSE tags[s][w].bits
<1> DEFINE S == extractSet(b)
           W == findBlock(b)
           t == setBits(b, B)
           r == [blk |-> b, bits |-> B]
           row == [tags[S] EXCEPT ![W] = r]
<1>1. /\ S \in Set /\ W \in Way /\ tags[S][W].blk = b /\ b # NoBlk
    BY AddrProps, FindBlockProps
<1>2. t = [tags EXCEPT ![S] = row]
    BY DEF setBits
<1>3. /\ r \in [blk : Addr \cup {NoBlk}, bits : SUBSET Bits]
      /\ r.blk = b /\ r.bits = B
    OBVIOUS
<1>4. /\ tags \in [Set -> [Way -> [blk : Addr \cup {NoBlk}, bits : SUBSET Bits]]]
      /\ \A s \in Set, w \in Way : tags[s][w].blk # NoBlk => extractSet(tags[s][w].blk) = s
      /\ \A s \in Set : \A v, w \in Way :
           tags[s][v].blk = tags[s][w].blk /\ tags[s][v].blk # NoBlk => v = w
    BY DEF Placed, TagsType
<1> HIDE DEF S, W, r, t
<1>5. /\ row \in [Way -> [blk : Addr \cup {NoBlk}, bits : SUBSET Bits]]
      /\ \A w \in Way : row[w] = IF w = W THEN r ELSE tags[S][w]
    BY <1>1, <1>3, <1>4
<1> HIDE DEF row
<1>6. /\ t \in TagsType
      /\ \A s \in Set : t[s] = IF s = S THEN row ELSE tags[s]
    BY <1>1, <1>2, <1>4, <1>5 DEF TagsType
<1>7. \A s \in Set, w \in Way : t[s][w] = IF s = S /\ w = W THEN r ELSE tags[s][w]
    BY <1>5, <1>6
<1>8. \A s \in Set, w \in Way : tags[s][w].blk = b <=> s = S /\ w = W
    BY <1>1, <1>4 DEF S
<1>9. \A s \in Set, w \in Way :
           /\ t[s][w].blk = tags[s][w].blk
           /\ t[s][w].bits = IF tags[s][w].blk = b THEN B ELSE tags[s][w].bits
    BY <1>1, <1>3, <1>7, <1>8
<1>10. Placed(t)
    BY <1>4, <1>6, <1>9 DEF Placed
<1>11. QED
    BY <1>9, <1>10 DEF t

\* Setting more bits keeps every block accessible.
LEMMA SetBitsAccessible ==
    ASSUME Placed(tags), NEW b \in Addr, Cached(b), NEW B \in SUBSET Bits,
           NEW L, NEW M, L \subseteq M, Accessible(tags, L), bitsOf(b) \subseteq B \/ b \in M
    PROVE  Accessible(setBits(b, B), M)
<1>1. \A s \in Set, w \in Way :
          /\ setBits(b, B)[s][w].blk = tags[s][w].blk
          /\ setBits(b, B)[s][w].bits = IF tags[s][w].blk = b THEN B ELSE tags[s][w].bits
    BY SetBitsProps
<1>2. /\ findBlock(b) \in Way /\ tags[extractSet(b)][findBlock(b)].blk = b
      /\ b # NoBlk /\ extractSet(b) \in Set
    BY AddrProps, FindBlockProps
<1>3. SUFFICES ASSUME NEW s \in Set, NEW w \in Way, tags[s][w].blk # NoBlk,
                      setBits(b, B)[s][w].blk \notin M
               PROVE  Both \subseteq setBits(b, B)[s][w].bits
    BY <1>1 DEF Accessible
<1>4. Both \subseteq tags[s][w].bits
    BY <1>1, <1>3 DEF Accessible
<1>5. CASE tags[s][w].blk # b
    BY <1>1, <1>4, <1>5
<1>6. CASE tags[s][w].blk = b
    <2>1. s = extractSet(b) /\ w = findBlock(b)
        BY <1>2, <1>6 DEF Placed
    <2>2. Both \subseteq bitsOf(b) /\ b \notin M
        BY <2>1, <1>1, <1>3, <1>4, <1>6 DEF bitsOf
    <2>3. QED
        BY <2>2, <1>1, <1>6
<1>7. QED
    BY <1>5, <1>6

\* Inserting a readable and writable block into an invalid way.
LEMMA AllocateBlockProps ==
    ASSUME Placed(tags), NEW b \in Addr, ~Cached(b), canAllocateBlock(b),
           NEW B \in SUBSET Bits, Both \subseteq B, NEW L, Accessible(tags, L)
    PROVE  /\ Placed(allocateBlock(b, B)) /\ Accessible(allocateBlock(b, B), L)
           /\ \A s \in Set, w \in Way :
                 \/ allocateBlock(b, B)[s][w] = tags[s][w]
                 \/ tags[s][w].blk = NoBlk /\ allocateBlock(b, B)[s][w].blk = b
<1> DEFINE S    == extractSet(b)
           free == {w \in Way : tags[S][w].blk = NoBlk}
           W    == CHOOSE v \in findVictim(b) : TRUE
           t    == allocateBlock(b, B)
           r    == [blk |-> b, bits |-> B]
           row  == [tags[S] EXCEPT ![W] = r]
           k    == CHOOSE w \in free : \A v \in free : w <= v
<1>1. /\ S \in Set /\ b # NoBlk /\ \A w \in Way : tags[S][w].blk # b
    BY AddrProps, FindBlockProps
<1>2. W \in Way /\ tags[S][W].blk = NoBlk
    <2>1. findVictim(b) = IF free = {} THEN Way ELSE {k}
        BY DEF findVictim
    <2>2. PICK u \in findVictim(b) : tags[S][u].blk = NoBlk
        BY DEF canAllocateBlock
    <2>3. CASE free = {}
        BY <2>1, <2>2, <2>3
    <2>4. CASE free # {}
        <3>1. free \in SUBSET Nat
            BY CacheAssumption DEF Way
        <3>2. \E w \in free : \A v \in free : w <= v
            BY ZenonT(60), <3>1, <2>4, LeastNat
        <3>3. k \in free
            BY <3>2
        <3> HIDE DEF k
        <3>4. W = k
            BY <2>1, <2>4
        <3>5. QED
            BY ZenonT(60), <3>3, <3>4
    <2>5. QED
        BY <2>3, <2>4
<1>3. t = [tags EXCEPT ![S] = row]
    BY DEF allocateBlock
<1>4. /\ r \in [blk : Addr \cup {NoBlk}, bits : SUBSET Bits]
      /\ r.blk = b /\ r.bits = B
    OBVIOUS
<1>5. /\ tags \in [Set -> [Way -> [blk : Addr \cup {NoBlk}, bits : SUBSET Bits]]]
      /\ \A s \in Set, w \in Way : tags[s][w].blk # NoBlk => extractSet(tags[s][w].blk) = s
      /\ \A s \in Set : \A v, w \in Way :
           tags[s][v].blk = tags[s][w].blk /\ tags[s][v].blk # NoBlk => v = w
    BY DEF Placed, TagsType
<1>6. extractSet(b) = S
    OBVIOUS
<1> HIDE DEF S, W, r, t
<1>7. /\ row \in [Way -> [blk : Addr \cup {NoBlk}, bits : SUBSET Bits]]
      /\ \A w \in Way : row[w] = IF w = W THEN r ELSE tags[S][w]
    BY <1>1, <1>2, <1>4, <1>5
<1> HIDE DEF row
<1>8. /\ t \in TagsType
      /\ \A s \in Set : t[s] = IF s = S THEN row ELSE tags[s]
    BY <1>1, <1>3, <1>5, <1>7 DEF TagsType
<1>9. \A s \in Set, w \in Way : t[s][w] = IF s = S /\ w = W THEN r ELSE tags[s][w]
    BY <1>7, <1>8
<1>10. \A s \in Set, w \in Way : t[s][w].blk # NoBlk => extractSet(t[s][w].blk) = s
    BY <1>4, <1>5, <1>6, <1>9
<1>11. \A s \in Set : \A v, w \in Way :
           t[s][v].blk = t[s][w].blk /\ t[s][v].blk # NoBlk => v = w
    <2>1. SUFFICES ASSUME NEW s \in Set, NEW v \in Way, NEW w \in Way,
                          t[s][v].blk = t[s][w].blk, t[s][v].blk # NoBlk
                   PROVE  v = w
        OBVIOUS
    <2>2. CASE s # S
        BY <1>5, <1>9, <2>1, <2>2
    <2>3. CASE s = S
        BY <1>1, <1>4, <1>5, <1>9, <2>1, <2>3
    <2>4. QED
        BY <2>2, <2>3
<1>12. Placed(t)
    BY <1>8, <1>10, <1>11 DEF Placed
<1>13. Accessible(t, L)
    BY <1>4, <1>9 DEF Accessible
<1>14. \A s \in Set, w \in Way :
           t[s][w] = tags[s][w] \/ (tags[s][w].blk = NoBlk /\ t[s][w].blk = b)
    BY <1>2, <1>4, <1>9
<1>15. QED
    BY <1>12, <1>13, <1>14 DEF t

(***************************************************************************)
(* The inductive invariant of the cache                                    *)
(***************************************************************************)

\* The MSHR queue is consistent, an entry has targets while it is allocated,
\* and an entry in service, which only a locked read leaves behind, waits for
\* a writable block, so that nothing is deferred.
MissInv ==
    /\ QInv(q)
    /\ \A e \in Entry : q.readyTime[e] = 0
    /\ targets \in [Entry -> Seq(Packet)]
    /\ \A e \in Entry : e \in Outstanding <=> targets[e] # << >>
    /\ deferred = [e \in Entry |-> << >>]
    /\ pendingModified \in [Entry -> BOOLEAN]
    /\ \A e \in Outstanding : q.inService[e] => pendingModified[e]
    /\ OneMSHRPerBlock

\* The cause follows isFull, the comparison the code makes.
FullIsBlocked == "NoMSHRs" \in blocked <=> isFull(q)

BlockInv ==
    /\ blocked \subseteq {"NoMSHRs", "NoTargets"}
    /\ noTargetMSHR \in Entry \cup {Null}
    /\ FullIsBlocked
    /\ NoTargetMSHRLive

\* The blocks that a locked read has locked.
Locked == {b \in Addr : \E e \in Outstanding : q.inService[e] /\ q.blkAddr[e] = b}

TagInv ==
    /\ Placed(tags)
    /\ Accessible(tags, Locked)
    /\ LockedBlockHasMSHR

\* An entry on the ready list has pktQueueProcess notified.
WakeInv ==
    /\ tempValid \in BOOLEAN /\ waitingOnRetry \in BOOLEAN
    /\ proc \in {"waiting", "runnable"} /\ abort \in {"none"} \cup Asserts
    /\ abort = "none" /\ ~waitingOnRetry /\ q.readyList # << >> => proc = "runnable"

CpuPacket == [id : Request, cmd : Cmds, blk : Addr]

\* A request waits in one place or has been answered, never both: rc are the
\* requests received, an their answers, tg the targets, ba the blocks of entries.
LedgerOf(rc, an, tg, ba) ==
    /\ rc \subseteq CpuPacket
    /\ \A p, r \in rc : p.id = r.id => p = r
    /\ an \in [Request -> {0, 1}]
    /\ \A r \in Request : an[r] = 1 => \E p \in rc : p.id = r /\ needsResponse(p.cmd)
    /\ \A e \in Entry : \A i \in 1 .. Len(tg[e]) :
           tg[e][i].id # Copy =>
               /\ tg[e][i] \in rc /\ tg[e][i].blk = ba[e]
               /\ needsResponse(tg[e][i].cmd) /\ an[tg[e][i].id] = 0
    /\ \A d, e \in Entry : \A i \in 1 .. Len(tg[d]) : \A j \in 1 .. Len(tg[e]) :
           tg[d][i].id # Copy /\ tg[d][i].id = tg[e][j].id => d = e /\ i = j
    /\ \A p \in rc : needsResponse(p.cmd) /\ an[p.id] = 0 =>
           \E e \in Entry : \E i \in 1 .. Len(tg[e]) : tg[e][i] = p

LedgerInv == LedgerOf(received, answered, targets, q.blkAddr)

CacheInv == MissInv /\ BlockInv /\ TagInv /\ WakeInv /\ LedgerInv

\* A packet that the cache has not seen.
Fresh(p) == p \in CpuPacket /\ \A r \in received : r.id # p.id

(***************************************************************************)
(* The three ways a step moves requests                                    *)
(***************************************************************************)

\* What a target that is a request of the CPU side is.
LEMMA TargetFacts ==
    ASSUME LedgerInv, NEW e \in Entry, NEW i \in 1 .. Len(targets[e]), targets[e][i].id # Copy
    PROVE  /\ targets[e][i] \in received /\ targets[e][i].blk = q.blkAddr[e]
           /\ needsResponse(targets[e][i].cmd) /\ answered[targets[e][i].id] = 0
BY ZenonT(60) DEF LedgerInv, LedgerOf

LEMMA TargetsDistinct ==
    ASSUME LedgerInv, NEW d \in Entry, NEW e \in Entry,
           NEW i \in 1 .. Len(targets[d]), NEW j \in 1 .. Len(targets[e]),
           targets[d][i].id # Copy, targets[d][i].id = targets[e][j].id
    PROVE  d = e /\ i = j
<1>1. \A a, c \in Entry : \A k \in 1 .. Len(targets[a]) : \A m \in 1 .. Len(targets[c]) :
          targets[a][k].id # Copy /\ targets[a][k].id = targets[c][m].id => a = c /\ k = m
    BY ZenonT(60) DEF LedgerInv, LedgerOf
<1>2. QED
    BY ZenonT(60), <1>1

\* A request is answered, or needs no answer, when it arrives; the targets of
\* an entry without any may become a copy (LockedReadHit).
LEMMA AnsweredAtOnce ==
    ASSUME LedgerInv, NEW p, Fresh(p),
           received' = received \cup {p},
           Respond(IF needsResponse(p.cmd) THEN {p.id} ELSE {}),
           targets \in [Entry -> Seq(Packet)], targets' \in [Entry -> Seq(Packet)],
           \A e \in Entry : \/ targets'[e] = targets[e] /\ q'.blkAddr[e] = q.blkAddr[e]
                            \/ /\ Len(targets'[e]) = 1 /\ targets'[e][1].id = Copy
                               /\ Len(targets[e]) = 0
    PROVE  LedgerInv'
<1>1. p \in CpuPacket /\ p.id \in Request /\ Copy \notin Request
    BY DEF Fresh, CpuPacket, Request, Copy
<1>2. \A r \in Request : answered'[r] = IF needsResponse(p.cmd) /\ r = p.id
                                        THEN answered[r] + 1 ELSE answered[r]
    BY <1>1 DEF LedgerInv, LedgerOf, Respond
<1>3. answered[p.id] = 0
    <2>1. answered[p.id] \in {0, 1}
        BY <1>1 DEF LedgerInv, LedgerOf
    <2>2. answered[p.id] = 1 => \E r \in received : r.id = p.id
        BY ZenonT(60), <1>1 DEF LedgerInv, LedgerOf
    <2>3. QED
        BY <2>1, <2>2 DEF Fresh
<1>4. answered' \in [Request -> {0, 1}]
    <2>1. \A r \in Request : answered'[r] \in {0, 1}
        BY <1>2, <1>3 DEF LedgerInv, LedgerOf
    <2>2. QED
        BY <2>1 DEF Respond
<1>5. \A e \in Entry : \A i \in 1 .. Len(targets'[e]) :
          targets'[e][i].id # Copy =>
              i \in 1 .. Len(targets[e]) /\ targets'[e][i] = targets[e][i]
              /\ q'.blkAddr[e] = q.blkAddr[e]
    OBVIOUS
<1>6. \A e \in Entry : \A i \in 1 .. Len(targets[e]) :
          i \in 1 .. Len(targets'[e]) /\ targets'[e][i] = targets[e][i]
    OBVIOUS
<1>7. received' \subseteq CpuPacket /\ \A u, r \in received' : u.id = r.id => u = r
    BY <1>1 DEF LedgerInv, LedgerOf, Fresh
<1>8. \A r \in received : r.id \in Request /\ r.id # p.id
    BY DEF LedgerInv, LedgerOf, Fresh, CpuPacket
<1>9. \A r \in Request : answered'[r] = 1 => \E u \in received' : u.id = r /\ needsResponse(u.cmd)
    BY <1>1, <1>2 DEF LedgerInv, LedgerOf
<1>10. \A e \in Entry : \A i \in 1 .. Len(targets'[e]) :
           targets'[e][i].id # Copy =>
               /\ targets'[e][i] \in received' /\ targets'[e][i].blk = q'.blkAddr[e]
               /\ needsResponse(targets'[e][i].cmd) /\ answered'[targets'[e][i].id] = 0
    <2>1. SUFFICES ASSUME NEW e \in Entry, NEW i \in 1 .. Len(targets'[e]),
                          targets'[e][i].id # Copy
                   PROVE  /\ targets'[e][i] \in received' /\ targets'[e][i].blk = q'.blkAddr[e]
                          /\ needsResponse(targets'[e][i].cmd)
                          /\ answered'[targets'[e][i].id] = 0
        OBVIOUS
    <2>2. /\ i \in 1 .. Len(targets[e]) /\ targets'[e][i] = targets[e][i]
          /\ q'.blkAddr[e] = q.blkAddr[e]
        BY <1>5, <2>1
    <2>3. /\ targets[e][i] \in received /\ targets[e][i].blk = q.blkAddr[e]
          /\ needsResponse(targets[e][i].cmd) /\ answered[targets[e][i].id] = 0
        BY ZenonT(60), <2>1, <2>2, TargetFacts
    <2>4. QED
        BY <1>2, <1>8, <2>2, <2>3
<1>11. \A d, e \in Entry : \A i \in 1 .. Len(targets'[d]) : \A j \in 1 .. Len(targets'[e]) :
           targets'[d][i].id # Copy /\ targets'[d][i].id = targets'[e][j].id => d = e /\ i = j
    <2>1. SUFFICES ASSUME NEW d \in Entry, NEW e \in Entry, NEW i \in 1 .. Len(targets'[d]),
                          NEW j \in 1 .. Len(targets'[e]), targets'[d][i].id # Copy,
                          targets'[d][i].id = targets'[e][j].id
                   PROVE  d = e /\ i = j
        BY ZenonT(60)
    <2>2. /\ i \in 1 .. Len(targets[d]) /\ targets'[d][i] = targets[d][i]
          /\ j \in 1 .. Len(targets[e]) /\ targets'[e][j] = targets[e][j]
        BY ZenonT(60), <1>5, <2>1
    <2>3. targets[d][i].id # Copy /\ targets[d][i].id = targets[e][j].id
        BY ZenonT(60), <2>1, <2>2
    <2>4. QED
        BY ZenonT(60), <2>2, <2>3, TargetsDistinct
<1>12. \A u \in received' : needsResponse(u.cmd) /\ answered'[u.id] = 0 =>
           \E e \in Entry : \E i \in 1 .. Len(targets'[e]) : targets'[e][i] = u
    <2>1. SUFFICES ASSUME NEW u \in received', needsResponse(u.cmd), answered'[u.id] = 0
                   PROVE  \E e \in Entry : \E i \in 1 .. Len(targets'[e]) : targets'[e][i] = u
        BY ZenonT(60)
    <2>2. u # p
        BY <1>1, <1>2, <1>3, <2>1
    <2>3. u \in received /\ answered[u.id] = 0
        BY <1>2, <1>8, <2>1, <2>2
    <2>4. PICK e \in Entry : \E i \in 1 .. Len(targets[e]) : targets[e][i] = u
        BY ZenonT(60), <2>1, <2>3 DEF LedgerInv, LedgerOf
    <2>5. QED
        BY <2>4, <1>6
<1>13. QED
    BY <1>4, <1>7, <1>9, <1>10, <1>11, <1>12 DEF LedgerInv, LedgerOf

\* A request becomes the newest target of an entry (MissCoalesced) or the only
\* one (MissAllocated).
LEMMA BecomesTarget ==
    ASSUME LedgerInv, NEW p, Fresh(p), needsResponse(p.cmd),
           received' = received \cup {p}, answered' = answered,
           targets \in [Entry -> Seq(Packet)],
           NEW E \in Entry, targets' = [targets EXCEPT ![E] = Append(targets[E], p)],
           q'.blkAddr[E] = p.blk, targets[E] = << >> \/ q.blkAddr[E] = p.blk,
           \A e \in Entry : e # E => q'.blkAddr[e] = q.blkAddr[e]
    PROVE  LedgerInv'
<1> DEFINE n == Len(targets[E])
<1>1. p \in CpuPacket /\ p.id \in Request /\ Copy \notin Request
    BY DEF Fresh, CpuPacket, Request, Copy
<1>2. answered[p.id] = 0
    <2>1. answered[p.id] \in {0, 1}
        BY <1>1 DEF LedgerInv, LedgerOf
    <2>2. answered[p.id] = 1 => \E r \in received : r.id = p.id
        BY ZenonT(60), <1>1 DEF LedgerInv, LedgerOf
    <2>3. QED
        BY <2>1, <2>2 DEF Fresh
<1>3. \A r \in received : r.id # p.id
    BY DEF Fresh
<1>4. /\ n \in Nat
      /\ \A e \in Entry : targets'[e] = IF e = E THEN Append(targets[E], p) ELSE targets[e]
    OBVIOUS
<1>5. \A e \in Entry : \A i \in 1 .. Len(targets'[e]) :
          \/ e = E /\ i = n + 1 /\ targets'[e][i] = p
          \/ i \in 1 .. Len(targets[e]) /\ targets'[e][i] = targets[e][i]
    BY <1>4
<1>6. \A e \in Entry : \A i \in 1 .. Len(targets[e]) :
          i \in 1 .. Len(targets'[e]) /\ targets'[e][i] = targets[e][i]
    BY <1>4
<1>7. n + 1 \in 1 .. Len(targets'[E]) /\ targets'[E][n + 1] = p
    BY <1>4
<1>8. \A e \in Entry : \A i \in 1 .. Len(targets[e]) : q'.blkAddr[e] = q.blkAddr[e]
    <2>1. SUFFICES ASSUME NEW e \in Entry, NEW i \in 1 .. Len(targets[e])
                   PROVE  q'.blkAddr[e] = q.blkAddr[e]
        OBVIOUS
    <2>2. targets[e] # << >>
        BY <2>1
    <2>3. QED
        BY <2>2
<1> HIDE DEF n
<1>9. received' \subseteq CpuPacket /\ \A u, r \in received' : u.id = r.id => u = r
    BY <1>1, <1>3 DEF LedgerInv, LedgerOf
<1>10. \A r \in Request : answered'[r] = 1 => \E u \in received' : u.id = r /\ needsResponse(u.cmd)
    BY ZenonT(60) DEF LedgerInv, LedgerOf
<1>11. \A e \in Entry : \A i \in 1 .. Len(targets'[e]) :
           targets'[e][i].id # Copy =>
               /\ targets'[e][i] \in received' /\ targets'[e][i].blk = q'.blkAddr[e]
               /\ needsResponse(targets'[e][i].cmd) /\ answered'[targets'[e][i].id] = 0
    <2>1. SUFFICES ASSUME NEW e \in Entry, NEW i \in 1 .. Len(targets'[e]),
                          targets'[e][i].id # Copy
                   PROVE  /\ targets'[e][i] \in received' /\ targets'[e][i].blk = q'.blkAddr[e]
                          /\ needsResponse(targets'[e][i].cmd)
                          /\ answered'[targets'[e][i].id] = 0
        OBVIOUS
    <2>2. CASE e = E /\ i = n + 1 /\ targets'[e][i] = p
        BY ZenonT(60), <2>2, <1>2
    <2>3. CASE i \in 1 .. Len(targets[e]) /\ targets'[e][i] = targets[e][i]
        <3>1. /\ targets[e][i] \in received /\ targets[e][i].blk = q.blkAddr[e]
              /\ needsResponse(targets[e][i].cmd) /\ answered[targets[e][i].id] = 0
            BY ZenonT(60), <2>1, <2>3, TargetFacts
        <3>2. q'.blkAddr[e] = q.blkAddr[e]
            BY <1>8, <2>3
        <3>3. QED
            BY ZenonT(60), <2>3, <3>1, <3>2
    <2>4. QED
        BY ZenonT(60), <1>5, <2>2, <2>3
<1>12. \A d, e \in Entry : \A i \in 1 .. Len(targets'[d]) : \A j \in 1 .. Len(targets'[e]) :
           targets'[d][i].id # Copy /\ targets'[d][i].id = targets'[e][j].id => d = e /\ i = j
    <2>1. SUFFICES ASSUME NEW d \in Entry, NEW e \in Entry, NEW i \in 1 .. Len(targets'[d]),
                          NEW j \in 1 .. Len(targets'[e]),
                          targets'[d][i].id # Copy, targets'[d][i].id = targets'[e][j].id
                   PROVE  d = e /\ i = j
        OBVIOUS
    <2>2. \A f \in Entry : \A k \in 1 .. Len(targets[f]) :
              targets[f][k].id # Copy => targets[f][k].id # p.id
        BY ZenonT(60), <1>3 DEF LedgerInv, LedgerOf
    <2>3. CASE i \in 1 .. Len(targets[d]) /\ targets'[d][i] = targets[d][i]
        <3>1. targets'[e][j] # p
            BY <2>1, <2>2, <2>3
        <3>2. j \in 1 .. Len(targets[e]) /\ targets'[e][j] = targets[e][j]
            BY <1>5, <3>1
        <3>3. targets[d][i].id # Copy /\ targets[d][i].id = targets[e][j].id
            BY ZenonT(60), <2>1, <2>3, <3>2
        <3>4. QED
            BY ZenonT(60), <2>3, <3>2, <3>3, TargetsDistinct
    <2>4. CASE d = E /\ i = n + 1 /\ targets'[d][i] = p
        BY <1>5, <2>1, <2>2, <2>4
    <2>5. QED
        BY ZenonT(60), <1>5, <2>3, <2>4
<1>13. \A u \in received' : needsResponse(u.cmd) /\ answered'[u.id] = 0 =>
           \E e \in Entry : \E i \in 1 .. Len(targets'[e]) : targets'[e][i] = u
    <2>1. SUFFICES ASSUME NEW u \in received', needsResponse(u.cmd), answered'[u.id] = 0
                   PROVE  \E e \in Entry : \E i \in 1 .. Len(targets'[e]) : targets'[e][i] = u
        OBVIOUS
    <2>2. CASE u = p
        BY <2>2, <1>7
    <2>3. CASE u # p
        <3>1. PICK e \in Entry : \E i \in 1 .. Len(targets[e]) : targets[e][i] = u
            BY ZenonT(60), <2>1, <2>3 DEF LedgerInv, LedgerOf
        <3>2. QED
            BY <3>1, <1>6
    <2>4. QED
        BY <2>2, <2>3
<1>14. answered' \in [Request -> {0, 1}]
    BY DEF LedgerInv, LedgerOf
<1>15. QED
    BY ZenonT(60), <1>9, <1>10, <1>11, <1>12, <1>13, <1>14 DEF LedgerInv, LedgerOf

\* Every target of an entry is answered and the entry is emptied (recvTimingResp).
LEMMA TargetsServed ==
    ASSUME LedgerInv, received' = received, NEW E \in Entry,
           Respond(ServicedTargets(E)),
           targets \in [Entry -> Seq(Packet)], targets' = [targets EXCEPT ![E] = << >>],
           q'.blkAddr = q.blkAddr
    PROVE  /\ LedgerInv'
           /\ \A r \in Request : r \in ServicedTargets(E) =>
                 answered[r] = 0 /\ \E p \in received : p.id = r
           /\ \A r \in Request : answered'[r] = IF r \in ServicedTargets(E) THEN 1 ELSE answered[r]
<1> DEFINE ids == ServicedTargets(E)
<1>1. Copy \notin Request /\ \A u \in received : u.id \in Request
    BY DEF LedgerInv, LedgerOf, CpuPacket, Request, Copy
<1>2. \A r \in Request : r \in ids <=> \E i \in 1 .. Len(targets[E]) : targets[E][i].id = r
    BY ZenonT(60) DEF ServicedTargets
<1>3. \A r \in Request : r \in ids =>
          \E i \in 1 .. Len(targets[E]) :
              /\ targets[E][i].id = r /\ targets[E][i] \in received
              /\ needsResponse(targets[E][i].cmd) /\ answered[r] = 0
    BY <1>1, <1>2 DEF LedgerInv, LedgerOf
<1>4. \A r \in Request : answered'[r] = answered[r] + IF r \in ids THEN 1 ELSE 0
    BY ZenonT(60) DEF Respond
<1>5. answered \in [Request -> {0, 1}]
    BY DEF LedgerInv, LedgerOf
<1> HIDE DEF ids
<1>6. \A r \in Request : answered'[r] = IF r \in ids THEN 1 ELSE answered[r]
    BY <1>3, <1>4, <1>5
<1>7. answered' \in [Request -> {0, 1}]
    <2>1. \A r \in Request : answered'[r] \in {0, 1}
        BY <1>5, <1>6
    <2>2. QED
        BY <2>1 DEF Respond
<1>8. \A e \in Entry : targets'[e] = IF e = E THEN << >> ELSE targets[e]
    OBVIOUS
<1>9. \A e \in Entry : \A i \in 1 .. Len(targets'[e]) :
          e # E /\ i \in 1 .. Len(targets[e]) /\ targets'[e][i] = targets[e][i]
    BY <1>8
<1>10. \A r \in Request : answered'[r] = 1 => \E u \in received' : u.id = r /\ needsResponse(u.cmd)
    BY SMTT(30), <1>3, <1>6 DEF LedgerInv, LedgerOf
<1>11. \A e \in Entry : \A i \in 1 .. Len(targets'[e]) :
           targets'[e][i].id # Copy =>
               /\ targets'[e][i] \in received' /\ targets'[e][i].blk = q'.blkAddr[e]
               /\ needsResponse(targets'[e][i].cmd) /\ answered'[targets'[e][i].id] = 0
    <2>1. SUFFICES ASSUME NEW e \in Entry, NEW i \in 1 .. Len(targets'[e]),
                          targets'[e][i].id # Copy
                   PROVE  /\ targets'[e][i] \in received' /\ targets'[e][i].blk = q'.blkAddr[e]
                          /\ needsResponse(targets'[e][i].cmd)
                          /\ answered'[targets'[e][i].id] = 0
        OBVIOUS
    <2>2. e # E /\ i \in 1 .. Len(targets[e]) /\ targets'[e][i] = targets[e][i]
        BY <1>9
    <2>3. /\ targets[e][i] \in received /\ targets[e][i].blk = q.blkAddr[e]
          /\ needsResponse(targets[e][i].cmd) /\ answered[targets[e][i].id] = 0
        BY <2>1, <2>2, TargetFacts
    <2>4. targets[e][i].id \in Request
        BY ZenonT(60), <2>3, <1>1
    <2>5. targets[e][i].id \notin ids
        <3>1. SUFFICES ASSUME NEW j \in 1 .. Len(targets[E]), targets[E][j].id = targets[e][i].id
                       PROVE  FALSE
            BY ZenonT(60), <1>2, <2>4
        <3>2. QED
            BY <2>1, <2>2, <3>1 DEF LedgerInv, LedgerOf
    <2>6. QED
        BY ZenonT(60), <1>6, <2>2, <2>3, <2>4, <2>5
<1>12. \A d, e \in Entry : \A i \in 1 .. Len(targets'[d]) : \A j \in 1 .. Len(targets'[e]) :
           targets'[d][i].id # Copy /\ targets'[d][i].id = targets'[e][j].id => d = e /\ i = j
    BY <1>9 DEF LedgerInv, LedgerOf
<1>13. \A u \in received' : needsResponse(u.cmd) /\ answered'[u.id] = 0 =>
           \E e \in Entry : \E i \in 1 .. Len(targets'[e]) : targets'[e][i] = u
    <2>1. SUFFICES ASSUME NEW u \in received, needsResponse(u.cmd), answered'[u.id] = 0
                   PROVE  \E e \in Entry : \E i \in 1 .. Len(targets'[e]) : targets'[e][i] = u
        OBVIOUS
    <2>2. u.id \in Request /\ u.id \notin ids /\ answered[u.id] = 0
        BY <1>1, <1>6, <2>1
    <2>3. PICK e \in Entry : \E i \in 1 .. Len(targets[e]) : targets[e][i] = u
        BY ZenonT(60), <2>1, <2>2 DEF LedgerInv, LedgerOf
    <2>4. e # E
        BY ZenonT(60), <1>2, <2>2, <2>3
    <2>5. QED
        BY <1>8, <2>3, <2>4
<1>14. received' \subseteq CpuPacket /\ \A u, r \in received' : u.id = r.id => u = r
    BY DEF LedgerInv, LedgerOf
<1>15. LedgerInv'
    BY ZenonT(60), <1>7, <1>10, <1>11, <1>12, <1>13, <1>14 DEF LedgerInv, LedgerOf
<1>16. QED
    BY ZenonT(60), <1>3, <1>6, <1>15 DEF ids

(***************************************************************************)
(* Each step keeps the invariant                                           *)
(***************************************************************************)

\* A failed assert changes nothing else.
LEMMA AbortKeeps ==
    ASSUME CacheInv, NEW a \in Asserts, Abort(a),
           a \notin {"handleTimingReqMiss: mshr || !blk", "handleTimingReqHit: mshr"}
    PROVE  CacheInv'
<1>1. /\ q' = q /\ targets' = targets /\ deferred' = deferred
      /\ pendingModified' = pendingModified /\ tags' = tags /\ tempValid' = tempValid
      /\ blocked' = blocked /\ noTargetMSHR' = noTargetMSHR
      /\ waitingOnRetry' = waitingOnRetry /\ proc' = proc /\ received' = received
      /\ answered' = answered /\ abort' = a
    BY ZenonT(60) DEF Abort, missVars
<1>2. MissInv'
    BY ZenonT(60), <1>1 DEF CacheInv, MissInv, OneMSHRPerBlock, Outstanding
<1>3. BlockInv'
    BY ZenonT(60), <1>1 DEF CacheInv, BlockInv, FullIsBlocked, NoTargetMSHRLive, Outstanding
<1>4. TagInv'
    BY ZenonT(60), <1>1 DEF CacheInv, TagInv, LockedBlockHasMSHR, Locked, Outstanding
<1>5. WakeInv'
    BY ZenonT(60), <1>1 DEF CacheInv, WakeInv, Asserts
<1>6. LedgerInv'
    BY ZenonT(60), <1>1 DEF CacheInv, LedgerInv
<1>7. QED
    BY ZenonT(60), <1>2, <1>3, <1>4, <1>5, <1>6 DEF CacheInv

\* A request that only touches the tags, and is answered if it needs to be.
LEMMA TouchKeeps ==
    ASSUME CacheInv, NEW p, Fresh(p), Received(p),
           Placed(tags'), Accessible(tags', Locked),
           Respond(IF needsResponse(p.cmd) THEN {p.id} ELSE {}),
           UNCHANGED <<missVars, tempValid, blocked, noTargetMSHR, waitingOnRetry, proc, abort>>
    PROVE  CacheInv'
<1>1. /\ q' = q /\ targets' = targets /\ deferred' = deferred
      /\ pendingModified' = pendingModified /\ tempValid' = tempValid
      /\ blocked' = blocked /\ noTargetMSHR' = noTargetMSHR
      /\ waitingOnRetry' = waitingOnRetry /\ proc' = proc /\ abort' = abort
    BY DEF missVars
<1>2. MissInv'
    BY ZenonT(60), <1>1 DEF CacheInv, MissInv, OneMSHRPerBlock, Outstanding
<1>3. BlockInv'
    BY <1>1 DEF CacheInv, BlockInv, FullIsBlocked, NoTargetMSHRLive, Outstanding
<1>4. TagInv'
    BY ZenonT(60), <1>1 DEF CacheInv, TagInv, LockedBlockHasMSHR, Locked, Outstanding
<1>5. WakeInv'
    BY <1>1 DEF CacheInv, WakeInv
<1>6. LedgerInv'
    <2>1. LedgerInv /\ targets \in [Entry -> Seq(Packet)] /\ received' = received \cup {p}
        BY DEF CacheInv, MissInv, Received
    <2>2. targets' \in [Entry -> Seq(Packet)]
        BY <1>1, <2>1
    <2>3. \A e \in Entry : targets'[e] = targets[e] /\ q'.blkAddr[e] = q.blkAddr[e]
        BY <1>1
    <2>4. QED
        BY ZenonT(60), <2>1, <2>2, <2>3, AnsweredAtOnce
<1>7. QED
    BY ZenonT(60), <1>2, <1>3, <1>4, <1>5, <1>6 DEF CacheInv

\* Without an answer there is nothing to add to `answered'.
LEMMA NoResponse ==
    ASSUME CacheInv, NEW p, ~needsResponse(p.cmd), UNCHANGED answered
    PROVE  Respond(IF needsResponse(p.cmd) THEN {p.id} ELSE {})
<1>1. answered \in [Request -> {0, 1}]
    BY DEF CacheInv, LedgerInv, LedgerOf
<1>2. \A r \in Request : answered[r] + 0 = answered[r]
    BY <1>1
<1>3. answered = [r \in Request |-> answered[r] + IF r \in {} THEN 1 ELSE 0]
    BY <1>1, <1>2
<1>4. QED
    BY ZenonT(60), <1>3 DEF Respond

LEMMA BitsOfType ==
    ASSUME Placed(tags), NEW b \in Addr, Cached(b)
    PROVE  bitsOf(b) \in SUBSET Bits
<1>1. extractSet(b) \in Set /\ findBlock(b) \in Way
    BY ZenonT(60), AddrProps, FindBlockProps
<1>2. QED
    BY <1>1 DEF Placed, TagsType, bitsOf

\* A cached block without an MSHR can be read and written.
LEMMA UnlockedAccessible ==
    ASSUME CacheInv, NEW b \in Addr, Cached(b), findMatch(q, b) = Null
    PROVE  Both \subseteq bitsOf(b)
<1>1. /\ extractSet(b) \in Set /\ findBlock(b) \in Way /\ b # NoBlk
      /\ tags[extractSet(b)][findBlock(b)].blk = b
    BY ZenonT(60), AddrProps, FindBlockProps
<1>2. \A e \in Outstanding : q.blkAddr[e] # b
    BY ZenonT(60), FindMatchProps DEF CacheInv, MissInv, Outstanding
<1>3. b \notin Locked
    BY <1>2 DEF Locked
<1>4. QED
    BY <1>1, <1>3 DEF CacheInv, TagInv, Accessible, bitsOf

LEMMA HitKeeps ==
    ASSUME CacheInv, NEW p, Fresh(p), Hit(p)
    PROVE  CacheInv'
<1>1. Placed(tags) /\ Accessible(tags, Locked) /\ p.blk \in Addr
    BY DEF CacheInv, TagInv, Fresh, CpuPacket
<1>2. Placed(tags') /\ Accessible(tags', Locked)
    <2>1. CASE p.cmd # "WriteClean"
        BY <1>1, <2>1 DEF Hit
    <2>2. CASE p.cmd = "WriteClean"
        <3> DEFINE B == bitsOf(p.blk) \cup {"Writable"}
        <3>1. Cached(p.blk) /\ tags' = setBits(p.blk, B)
            BY <2>2 DEF Hit, Permitted, isSet, FailedStoreCond
        <3>2. B \in SUBSET Bits /\ bitsOf(p.blk) \subseteq B
            BY ZenonT(60), <1>1, <3>1, BitsOfType DEF Bits
        <3> HIDE DEF B
        <3>3. Placed(setBits(p.blk, B))
            BY <1>1, <3>1, <3>2, SetBitsProps
        <3>4. Accessible(setBits(p.blk, B), Locked)
            BY <1>1, <3>1, <3>2, SetBitsAccessible
        <3>5. QED
            BY ZenonT(60), <3>1, <3>3, <3>4
    <2>3. QED
        BY <2>1, <2>2
<1>3. QED
    BY <1>2, TouchKeeps DEF Hit

LEMMA DropCleanWritebackKeeps ==
    ASSUME CacheInv, NEW p, Fresh(p), DropCleanWriteback(p)
    PROVE  CacheInv'
<1>1. Placed(tags) /\ Accessible(tags, Locked) /\ p.blk \in Addr
    BY DEF CacheInv, TagInv, Fresh, CpuPacket
<1>2. CASE Cached(p.blk)
    <2> DEFINE B == bitsOf(p.blk) \cup {"Writable"}
    <2>1. /\ tags' = setBits(p.blk, B) /\ Received(p)
          /\ UNCHANGED <<missVars, tempValid, blocked, noTargetMSHR, waitingOnRetry,
                         proc, answered, abort>>
        BY <1>2 DEF DropCleanWriteback
    <2>2. B \in SUBSET Bits /\ bitsOf(p.blk) \subseteq B
        BY ZenonT(60), <1>1, <1>2, BitsOfType DEF Bits
    <2> HIDE DEF B
    <2>3. Placed(tags') /\ Accessible(tags', Locked)
        BY <1>1, <1>2, <2>1, <2>2, SetBitsProps, SetBitsAccessible
    <2>4. ~needsResponse(p.cmd)
        BY ZenonT(60) DEF DropCleanWriteback, needsResponse, isWriteback
    <2>5. QED
        BY ZenonT(60), <2>1, <2>3, <2>4, NoResponse, TouchKeeps
<1>3. CASE ~Cached(p.blk)
    <2>1. Abort("access: blk && blk->isValid()")
        BY ZenonT(60), <1>3 DEF DropCleanWriteback
    <2>2. QED
        BY ZenonT(60), <2>1, AbortKeeps DEF Asserts
<1>4. QED
    BY <1>2, <1>3

LEMMA WritebackKeeps ==
    ASSUME CacheInv, NEW p, Fresh(p), Writeback(p)
    PROVE  CacheInv'
<1> DEFINE dirty == IF p.cmd = "WritebackDirty" THEN {"Dirty"} ELSE {}
           B     == bitsOf(p.blk) \cup dirty \cup {"Writable"}
           C     == {"Readable", "Writable"} \cup dirty
<1>1. Placed(tags) /\ Accessible(tags, Locked) /\ p.blk \in Addr
    BY DEF CacheInv, TagInv, Fresh, CpuPacket
<1>2. ~needsResponse(p.cmd)
    BY ZenonT(60) DEF Writeback, needsResponse
<1>3. dirty \in SUBSET Bits
    BY DEF Bits
<1>4. CASE Cached(p.blk)
    <2>1. /\ tags' = setBits(p.blk, B) /\ Received(p)
          /\ UNCHANGED <<missVars, tempValid, blocked, noTargetMSHR, waitingOnRetry,
                         proc, answered, abort>>
        BY <1>4 DEF Writeback
    <2>2. B \in SUBSET Bits /\ bitsOf(p.blk) \subseteq B
        BY ZenonT(60), <1>1, <1>3, <1>4, BitsOfType DEF Bits
    <2> HIDE DEF B
    <2>3. Placed(tags') /\ Accessible(tags', Locked)
        BY ZenonT(60), <1>1, <1>4, <2>1, <2>2, SetBitsProps, SetBitsAccessible
    <2>4. QED
        BY ZenonT(60), <2>1, <2>3, <1>2, NoResponse, TouchKeeps
<1>5. CASE ~Cached(p.blk) /\ canAllocateBlock(p.blk)
    <2>1. /\ tags' = allocateBlock(p.blk, C) /\ Received(p)
          /\ UNCHANGED <<missVars, tempValid, blocked, noTargetMSHR, waitingOnRetry,
                         proc, answered, abort>>
        BY <1>5 DEF Writeback
    <2>2. C \in SUBSET Bits /\ Both \subseteq C
        BY <1>3 DEF Bits, Both
    <2> HIDE DEF C
    <2>3. Placed(tags') /\ Accessible(tags', Locked)
        BY ZenonT(60), <1>1, <1>5, <2>1, <2>2, AllocateBlockProps
    <2>4. QED
        BY ZenonT(60), <2>1, <2>3, <1>2, NoResponse, TouchKeeps
<1>6. CASE ~Cached(p.blk) /\ ~canAllocateBlock(p.blk)
    <2>1. Abort("insertBlock: !blk->isValid()")
        BY ZenonT(60), <1>6 DEF Writeback
    <2>2. QED
        BY ZenonT(60), <2>1, AbortKeeps DEF Asserts
<1>7. QED
    BY <1>4, <1>5, <1>6

LEMMA WriteCleanMissKeeps ==
    ASSUME CacheInv, NEW p, Fresh(p), WriteCleanMiss(p)
    PROVE  CacheInv'
<1>1. Abort("WriteQueueEntry::allocate") \/ Abort("access: blk && blk->isValid()")
    BY ZenonT(60) DEF WriteCleanMiss
<1>2. QED
    BY ZenonT(60), <1>1, AbortKeeps DEF Asserts

LEMMA LockedWriteKeeps ==
    ASSUME CacheInv, NEW p, Fresh(p), LockedWrite(p)
    PROVE  CacheInv'
<1>1. p.blk \in Addr
    BY DEF Fresh, CpuPacket
<1>2. CASE ~Cached(p.blk) \/ bitsOf(p.blk) \cap {"Readable", "Writable"} # {}
    <2>1. Abort("recvTimingReq: locked block")
        BY ZenonT(60), <1>2 DEF LockedWrite
    <2>2. QED
        BY ZenonT(60), <2>1, AbortKeeps DEF Asserts
<1>3. CASE Cached(p.blk) /\ bitsOf(p.blk) \cap {"Readable", "Writable"} = {}
    <2>1. findMatch(q, p.blk) # Null
        BY <1>1, <1>3, UnlockedAccessible DEF Both
    <2>2. Abort("recvTimingResp: pkt->isRead()")
        BY ZenonT(60), <1>3, <2>1 DEF LockedWrite
    <2>3. QED
        BY ZenonT(60), <2>2, AbortKeeps DEF Asserts
<1>4. QED
    BY <1>2, <1>3

\* No target is ever deferred, so a coalesced miss joins the target list.
LEMMA MissCoalescedKeeps ==
    ASSUME CacheInv, NEW p, Fresh(p), MissCoalesced(p)
    PROVE  CacheInv'
<1> DEFINE e    == findMatch(q, p.blk)
           more == Len(targets[e]) + Len(deferred[e]) + 1
           tl   == Append(targets[e], p)
<1>1. /\ QInv(q) /\ targets \in [Entry -> Seq(Packet)] /\ p.blk \in Addr
      /\ p \in Packet
    BY ZenonT(60) DEF CacheInv, MissInv, Fresh, CpuPacket, Packet
<1>2. /\ Miss(p) /\ e # Null
      /\ targets' = IF mustDefer(e, p) THEN targets ELSE [targets EXCEPT ![e] = tl]
      /\ deferred' = IF mustDefer(e, p) THEN [deferred EXCEPT ![e] = Append(deferred[e], p)]
                     ELSE deferred
      /\ noTargetMSHR' = IF more >= numTarget THEN e ELSE noTargetMSHR
      /\ blocked' = IF more >= numTarget THEN blocked \cup {"NoTargets"} ELSE blocked
      /\ received' = received \cup {p}
      /\ q' = q /\ pendingModified' = pendingModified /\ tags' = tags
      /\ tempValid' = tempValid /\ waitingOnRetry' = waitingOnRetry /\ proc' = proc
      /\ answered' = answered /\ abort' = abort
    BY DEF MissCoalesced, Received
<1>3. e \in Outstanding /\ e \in Entry /\ q.blkAddr[e] = p.blk
    BY ZenonT(60), <1>1, <1>2, FindMatchProps DEF Outstanding
<1> HIDE DEF e
<1>4. deferred[e] = << >> /\ ~mustDefer(e, p)
    BY ZenonT(60), <1>3 DEF CacheInv, MissInv, mustDefer
<1>5. /\ targets' = [targets EXCEPT ![e] = tl] /\ deferred' = deferred
      /\ more = Len(targets[e]) + 1 /\ Len(targets[e]) \in Nat
    <2>1. targets' = [targets EXCEPT ![e] = tl] /\ deferred' = deferred
        BY ZenonT(60), <1>2, <1>4
    <2>2. targets[e] \in Seq(Packet)
        BY ZenonT(60), <1>1, <1>3
    <2>3. more = Len(targets[e]) + 1 /\ Len(targets[e]) \in Nat
        BY <1>4, <2>2
    <2>4. QED
        BY ZenonT(60), <2>1, <2>3
<1>6. tl \in Seq(Packet) /\ Len(tl) = more /\ tl # << >>
    BY <1>1, <1>3, <1>5
<1> HIDE DEF more, tl
<1>7. /\ targets' \in [Entry -> Seq(Packet)]
      /\ \A d \in Entry : targets'[d] = IF d = e THEN tl ELSE targets[d]
    BY <1>1, <1>3, <1>5, <1>6
<1>8. MissInv'
    <2>1. \A d \in Entry : d \in Outstanding' <=> targets'[d] # << >>
        BY <1>2, <1>3, <1>6, <1>7 DEF CacheInv, MissInv, Outstanding
    <2>2. QED
        BY ZenonT(60), <1>2, <1>5, <1>7, <2>1 DEF CacheInv, MissInv, OneMSHRPerBlock, Outstanding
<1>9. BlockInv'
    <2>1. /\ blocked \subseteq {"NoMSHRs", "NoTargets"} /\ noTargetMSHR \in Entry \cup {Null}
          /\ "NoMSHRs" \in blocked <=> isFull(q)
          /\ IF "NoTargets" \in blocked
             THEN noTargetMSHR \in Outstanding /\ Len(targets[noTargetMSHR]) >= numTarget
             ELSE noTargetMSHR = Null
        BY DEF CacheInv, BlockInv, FullIsBlocked, NoTargetMSHRLive
    <2>2. Outstanding \subseteq Entry /\ numTarget \in Nat
        BY ZenonT(60), <1>1, QInvLists, CacheAssumption DEF Outstanding
    <2>3. CASE more >= numTarget
        <3>1. noTargetMSHR' = e /\ blocked' = blocked \cup {"NoTargets"}
            BY <1>2, <2>3
        <3>2. NoTargetMSHRLive'
            BY ZenonT(60), <3>1, <1>2, <1>3, <1>6, <1>7, <2>3 DEF NoTargetMSHRLive, Outstanding
        <3>3. QED
            BY ZenonT(60), <3>1, <3>2, <2>1, <1>2, <1>3 DEF BlockInv, FullIsBlocked
    <2>4. CASE ~(more >= numTarget)
        <3>1. noTargetMSHR' = noTargetMSHR /\ blocked' = blocked
            BY <1>2, <2>4
        <3>2. NoTargetMSHRLive'
            <4>1. CASE "NoTargets" \in blocked
                <5>1. noTargetMSHR \in Entry /\ noTargetMSHR # e
                    BY <2>1, <2>2, <2>4, <4>1, <1>5
                <5>2. QED
                    BY ZenonT(60), <5>1, <4>1, <3>1, <2>1, <1>2, <1>7 DEF NoTargetMSHRLive, Outstanding
            <4>2. CASE "NoTargets" \notin blocked
                BY <4>2, <3>1, <2>1 DEF NoTargetMSHRLive
            <4>3. QED
                BY ZenonT(60), <4>1, <4>2
        <3>3. QED
            BY ZenonT(60), <3>1, <3>2, <2>1, <1>2 DEF BlockInv, FullIsBlocked
    <2>5. QED
        BY <2>3, <2>4
<1>10. TagInv'
    BY ZenonT(60), <1>2 DEF CacheInv, TagInv, LockedBlockHasMSHR, Locked, Outstanding
<1>11. WakeInv'
    BY ZenonT(60), <1>2 DEF CacheInv, WakeInv
<1>12. LedgerInv'
    <2>1. LedgerInv /\ needsResponse(p.cmd)
        BY <1>2 DEF CacheInv, Miss, needsResponse
    <2>2. targets' = [targets EXCEPT ![e] = Append(targets[e], p)]
        BY <1>5 DEF tl
    <2>3. QED
        BY ZenonT(60), <1>1, <1>2, <1>3, <2>1, <2>2, BecomesTarget
<1>13. QED
    BY <1>8, <1>9, <1>10, <1>11, <1>12 DEF CacheInv

LEMMA Singleton ==
    ASSUME NEW S, NEW x \in S
    PROVE  <<x>> \in Seq(S) /\ <<x>> # << >> /\ Len(<<x>>) = 1 /\ <<x>>[1] = x
OBVIOUS

LEMMA NoElements ==
    ASSUME NEW S
    PROVE  << >> \in Seq(S) /\ Len(<< >>) = 0
OBVIOUS

LEMMA ExceptAt ==
    ASSUME NEW S, NEW T, NEW f \in [S -> T], NEW a \in S, NEW x \in T,
           NEW g, g = [f EXCEPT ![a] = x]
    PROVE  g \in [S -> T] /\ \A d \in S : g[d] = IF d = a THEN x ELSE f[d]
OBVIOUS

LEMMA TargetsReplaced ==
    ASSUME targets \in [Entry -> Seq(Packet)], NEW a \in Entry, NEW x \in Seq(Packet),
           targets' = [targets EXCEPT ![a] = x]
    PROVE  targets' \in [Entry -> Seq(Packet)]
BY ZenonT(60)

\* What AllocateEntryFields says of the queue of the cache.
FieldsFor(b, e, x) ==
    /\ x.blkAddr = [q.blkAddr EXCEPT ![e] = b]
    /\ x.readyTime = [q.readyTime EXCEPT ![e] = 0]
    /\ x.allocated = q.allocated + 1

LEMMA AllocatedFields ==
    ASSUME q \in QueueType, NEW b, NEW e, e = Head(q.freeList),
           NEW x, x = allocateEntry(q, b, curTick)
    PROVE  FieldsFor(b, e, x)
BY AllocateEntryFields DEF curTick, FieldsFor

LEMMA QueueCounts ==
    ASSUME NEW y, QInv(y)
    PROVE  y.allocated \in Int /\ numEntries \in Nat /\ reserve \in Nat
BY QInvTypes, QueueAssumption DEF numEntries

\* One entry more leaves a full queue full.
LEMMA FullGrows ==
    ASSUME NEW x, NEW y, QInv(x), QInv(y), y.allocated = x.allocated + 1, isFull(x)
    PROVE  isFull(y)
<1>1. x.allocated \in Int /\ y.allocated \in Int /\ numEntries \in Nat /\ reserve \in Nat
    BY ZenonT(60), QueueCounts
<1>2. QED
    BY <1>1 DEF isFull

\* The queue y is q with entry e taken for block b.
AllocatedFor(b, e, y) ==
    /\ QInv(y) /\ e \in Entry /\ e \notin Outstanding
    /\ Range(y.allocatedList) = Outstanding \cup {e}
    /\ y.allocated = q.allocated + 1
    /\ \A d \in Entry :
          /\ y.readyTime[d] = 0
          /\ y.blkAddr[d] = IF d = e THEN b ELSE q.blkAddr[d]
          /\ d # e => y.inService[d] = q.inService[d]
    /\ y.inService[e] <=> y # allocateEntry(q, b, curTick)
    /\ \A c, d \in Outstanding \cup {e} : y.blkAddr[c] = y.blkAddr[d] => c = d
    /\ "NoMSHRs" \in blocked => isFull(y)
    /\ e # noTargetMSHR \/ noTargetMSHR = Null

\* What allocating an entry for a block without one does to the queue.
LEMMA AllocationProps ==
    ASSUME CacheInv, NEW b \in Addr, findMatch(q, b) = Null, q.freeList # << >>,
           NEW e, e = Head(q.freeList),
           NEW y, \/ y = allocateEntry(q, b, curTick)
                  \/ y = markInService(allocateEntry(q, b, curTick), e)
    PROVE  AllocatedFor(b, e, y)
<1> DEFINE x == allocateEntry(q, b, curTick)
<1>1. /\ QInv(q) /\ q \in QueueType /\ \A d \in Entry : q.readyTime[d] = 0
      /\ q.blkAddr \in [Entry -> Addr] /\ q.readyTime \in [Entry -> Nat]
    BY ZenonT(60), QInvTypes DEF CacheInv, MissInv
<1>2. /\ QInv(x) /\ e \in Entry /\ e \notin Outstanding
      /\ Range(x.allocatedList) = Outstanding \cup {e}
      /\ x.inService = q.inService
    BY ZenonT(60), <1>1, AllocateEntryProps DEF Outstanding, curTick
<1>3. /\ x.blkAddr = [q.blkAddr EXCEPT ![e] = b]
      /\ x.readyTime = [q.readyTime EXCEPT ![e] = 0]
      /\ x.allocated = q.allocated + 1
    <2>1. FieldsFor(b, e, x)
        BY ZenonT(60), <1>1, AllocatedFields
    <2>2. QED
        BY ZenonT(60), <2>1 DEF FieldsFor
<1>4. q.inService \in [Entry -> BOOLEAN] /\ ~q.inService[e]
    <2>1. e \in Range(q.freeList)
        BY ZenonT(60), <1>1, <1>2 DEF QInv, Partitioned, Outstanding
    <2>2. QED
        BY ZenonT(60), <1>1, <1>2, <2>1 DEF QInv, FreeIdle, QueueType
<1> HIDE DEF x
<1>5. /\ QInv(y) /\ Range(y.allocatedList) = Outstanding \cup {e}
      /\ y.blkAddr = x.blkAddr /\ y.readyTime = x.readyTime /\ y.allocated = x.allocated
      /\ y.inService = IF y = x THEN q.inService ELSE [q.inService EXCEPT ![e] = TRUE]
    <2>1. CASE y = x
        BY ZenonT(60), <1>2, <2>1
    <2>2. CASE y = markInService(x, e)
        <3>1. e \in Range(x.allocatedList) /\ ~x.inService[e] /\ x \in QueueType
            BY ZenonT(60), <1>2, <1>4, QInvTypes
        <3>2. /\ QInv(y) /\ y.allocatedList = x.allocatedList
              /\ y.inService = [x.inService EXCEPT ![e] = TRUE]
            BY ZenonT(60), <1>2, <2>2, <3>1, MarkInServiceProps
        <3>3. /\ y.blkAddr = x.blkAddr /\ y.readyTime = x.readyTime
              /\ y.allocated = x.allocated
            BY ZenonT(60), <2>2, <3>1, MarkInServiceFields
        <3>4. y.inService[e] /\ y.inService = [q.inService EXCEPT ![e] = TRUE]
            BY ZenonT(60), <1>2, <1>4, <3>2
        <3>5. y # x
            BY <1>2, <1>4, <3>4
        <3>6. QED
            BY ZenonT(60), <1>2, <3>2, <3>3, <3>4, <3>5
    <2>3. QED
        BY ZenonT(60), <2>1, <2>2 DEF x
<1>6. \A d \in Entry :
          /\ y.readyTime[d] = 0
          /\ y.blkAddr[d] = IF d = e THEN b ELSE q.blkAddr[d]
          /\ d # e => y.inService[d] = q.inService[d]
    BY ZenonT(60), <1>1, <1>2, <1>3, <1>4, <1>5
<1>7. y.inService[e] <=> y # x
    BY ZenonT(60), <1>2, <1>4, <1>5
<1>8. \A c, d \in Outstanding \cup {e} : y.blkAddr[c] = y.blkAddr[d] => c = d
    <2>1. \A d \in Outstanding : q.blkAddr[d] # b /\ d \in Entry
        BY ZenonT(60), <1>1, FindMatchProps, QInvLists DEF Outstanding
    <2>2. \A c, d \in Outstanding : q.blkAddr[c] = q.blkAddr[d] => c = d
        BY DEF CacheInv, MissInv, OneMSHRPerBlock
    <2>3. QED
        BY <1>2, <1>6, <2>1, <2>2
<1>9. "NoMSHRs" \in blocked => isFull(y)
    <2>1. isFull(q) => isFull(y)
        BY ZenonT(60), <1>1, <1>3, <1>5, FullGrows
    <2>2. QED
        BY ZenonT(60), <2>1 DEF CacheInv, BlockInv, FullIsBlocked
<1>10. e # noTargetMSHR \/ noTargetMSHR = Null
    BY ZenonT(60), <1>2 DEF CacheInv, BlockInv, NoTargetMSHRLive
<1>11. QED
    BY ZenonT(60), <1>2, <1>3, <1>5, <1>6, <1>7, <1>8, <1>9, <1>10 DEF x, AllocatedFor

\* The entry of a locked read that hits is in service at once.
LEMMA LockedEntryInService ==
    ASSUME CacheInv, NEW b \in Addr, findMatch(q, b) = Null, q.freeList # << >>
    PROVE  markInService(allocateEntry(q, b, curTick), Head(q.freeList)).inService[Head(q.freeList)]
<1> DEFINE e    == Head(q.freeList)
           newq == allocateEntry(q, b, curTick)
<1>1. /\ QInv(newq) /\ e \in Range(newq.allocatedList) /\ ~newq.inService[e] /\ e \in Entry
    <2>1. AllocatedFor(b, e, newq)
        BY ZenonT(60), AllocationProps
    <2>2. QED
        BY ZenonT(60), <2>1 DEF AllocatedFor
<1>2. newq.inService \in [Entry -> BOOLEAN]
    BY ZenonT(60), <1>1, QInvTypes
<1> HIDE DEF newq, e
<1>3. markInService(newq, e).inService = [newq.inService EXCEPT ![e] = TRUE]
    BY <1>1, MarkInServiceProps
<1>4. markInService(newq, e).inService[e]
    BY ZenonT(60), <1>1, <1>2, <1>3
<1>5. QED
    BY ZenonT(60), <1>4 DEF newq, e

\* The effect that MissAllocated and LockedReadHit share: a new entry with one
\* target, the block cause when the queue is full, and a notification.
LEMMA AllocationKeeps ==
    ASSUME CacheInv, NEW b \in Addr, findMatch(q, b) = Null, q.freeList # << >>,
           NEW e, e = Head(q.freeList),
           NEW y, \/ y = allocateEntry(q, b, curTick)
                  \/ y = markInService(allocateEntry(q, b, curTick), e),
           NEW t \in Packet,
           q' = y, targets' = [targets EXCEPT ![e] = <<t>>], deferred' = deferred,
           pendingModified' \in [Entry -> BOOLEAN],
           \A d \in Entry : d # e => pendingModified'[d] = pendingModified[d],
           y.inService[e] => pendingModified'[e],
           setBlocked(allocateEntry(q, b, curTick)), schedSendEvent,
           UNCHANGED <<tempValid, noTargetMSHR, waitingOnRetry, abort>>
    PROVE  /\ MissInv' /\ BlockInv' /\ WakeInv'
           /\ Locked \subseteq Locked' /\ (y.inService[e] => b \in Locked')
<1> DEFINE x == allocateEntry(q, b, curTick)
           s == <<t>>
<1>1. /\ QInv(y) /\ e \in Entry /\ e \notin Outstanding
      /\ Range(y.allocatedList) = Outstanding \cup {e}
      /\ y.allocated = q.allocated + 1
      /\ \A d \in Entry :
            /\ y.readyTime[d] = 0
            /\ y.blkAddr[d] = IF d = e THEN b ELSE q.blkAddr[d]
            /\ d # e => y.inService[d] = q.inService[d]
      /\ \A c, d \in Outstanding \cup {e} : y.blkAddr[c] = y.blkAddr[d] => c = d
      /\ "NoMSHRs" \in blocked => isFull(y)
      /\ e # noTargetMSHR \/ noTargetMSHR = Null
    <2>1. AllocatedFor(b, e, y)
        BY ZenonT(60), AllocationProps
    <2>2. QED
        BY ZenonT(60), <2>1 DEF AllocatedFor
<1>2. x.allocated = q.allocated + 1
    <2>1. AllocatedFor(b, e, x)
        BY ZenonT(60), AllocationProps
    <2>2. QED
        BY ZenonT(60), <2>1 DEF AllocatedFor
<1>3. isFull(x) <=> isFull(y)
    BY ZenonT(60), <1>1, <1>2 DEF isFull
<1>4. Outstanding' = Outstanding \cup {e} /\ Outstanding \subseteq Entry
    BY ZenonT(60), <1>1, QInvLists DEF Outstanding, CacheInv, MissInv
<1>5. s \in Seq(Packet) /\ s # << >>
    BY ZenonT(60), Singleton DEF s
<1> HIDE DEF s, x
<1>6. /\ targets' \in [Entry -> Seq(Packet)]
      /\ \A d \in Entry : targets'[d] = IF d = e THEN s ELSE targets[d]
    <2>1. targets' = [targets EXCEPT ![e] = s] /\ targets \in [Entry -> Seq(Packet)]
        BY ZenonT(60) DEF s, CacheInv, MissInv
    <2>2. e \in Entry
        BY ZenonT(60), <1>1
    <2>3. targets' \in [Entry -> Seq(Packet)]
        BY ZenonT(60), <2>1, <2>2, <1>5, TargetsReplaced
    <2>4. \A d \in Entry : targets'[d] = IF d = e THEN s ELSE targets[d]
        BY ZenonT(60), <2>1, <2>2, <1>5, ExceptAt
    <2>5. QED
        BY ZenonT(60), <2>3, <2>4
<1>7. MissInv'
    <2>1. \A d \in Entry : d \in Outstanding' <=> targets'[d] # << >>
        BY ZenonT(60), <1>1, <1>4, <1>5, <1>6 DEF CacheInv, MissInv
    <2>2. \A d \in Outstanding' : q'.inService[d] => pendingModified'[d]
        BY ZenonT(60), <1>1, <1>4 DEF CacheInv, MissInv
    <2>3. OneMSHRPerBlock'
        BY ZenonT(60), <1>1, <1>4 DEF OneMSHRPerBlock
    <2>4. deferred' = [d \in Entry |-> << >>]
        BY ZenonT(60) DEF CacheInv, MissInv
    <2>5. QED
        BY ZenonT(60), <1>1, <1>6, <2>1, <2>2, <2>3, <2>4 DEF MissInv
<1>8. BlockInv'
    <2>1. /\ blocked \subseteq {"NoMSHRs", "NoTargets"} /\ noTargetMSHR \in Entry \cup {Null}
          /\ IF "NoTargets" \in blocked
             THEN noTargetMSHR \in Outstanding /\ Len(targets[noTargetMSHR]) >= numTarget
             ELSE noTargetMSHR = Null
        BY ZenonT(60) DEF CacheInv, BlockInv, NoTargetMSHRLive
    <2>2. blocked' = IF isFull(y) THEN blocked \cup {"NoMSHRs"} ELSE blocked
        BY <1>3 DEF setBlocked, x
    <2>3. "NoMSHRs" \in blocked' <=> isFull(y)
        BY ZenonT(60), <1>1, <2>2
    <2>4. "NoTargets" \in blocked' <=> "NoTargets" \in blocked
        BY <2>2
    <2>5. NoTargetMSHRLive'
        BY ZenonT(60), <1>1, <1>4, <1>6, <2>1, <2>4 DEF NoTargetMSHRLive
    <2>6. blocked' \subseteq {"NoMSHRs", "NoTargets"}
        BY <2>1, <2>2
    <2>7. QED
        BY ZenonT(60), <2>1, <2>3, <2>5, <2>6 DEF BlockInv, FullIsBlocked
<1>9. WakeInv'
    BY ZenonT(60) DEF CacheInv, WakeInv, schedSendEvent
<1>10. Locked \subseteq Locked' /\ (y.inService[e] => b \in Locked')
    BY ZenonT(60), <1>1, <1>4 DEF Locked
<1>11. QED
    BY ZenonT(60), <1>7, <1>8, <1>9, <1>10

LEMMA MissAllocatedKeeps ==
    ASSUME CacheInv, NEW p, Fresh(p), MissAllocated(p)
    PROVE  CacheInv'
<1> DEFINE newq == allocateEntry(q, p.blk, curTick)
           e    == Head(q.freeList)
<1>1. /\ p.blk \in Addr /\ p \in Packet /\ Miss(p) /\ findMatch(q, p.blk) = Null
      /\ targets \in [Entry -> Seq(Packet)] /\ pendingModified \in [Entry -> BOOLEAN]
    BY ZenonT(60) DEF Fresh, CpuPacket, Packet, MissAllocated, CacheInv, MissInv
<1>2. ~Cached(p.blk)
    <2>1. SUFFICES ASSUME Cached(p.blk) PROVE Permitted(p)
        BY <1>1 DEF Miss
    <2>2. Both \subseteq bitsOf(p.blk)
        BY <1>1, <2>1, UnlockedAccessible
    <2>3. QED
        BY <2>1, <2>2 DEF Permitted, isSet, bitsOf, Both
<1>3. CASE q.freeList = << >>
    <2>1. Abort("allocate: !freeList.empty()")
        BY ZenonT(60), <1>2, <1>3 DEF MissAllocated
    <2>2. QED
        BY ZenonT(60), <2>1, AbortKeeps DEF Asserts
<1>4. CASE q.freeList # << >>
    <2>1. /\ q' = newq /\ targets' = [targets EXCEPT ![e] = <<p>>]
          /\ setBlocked(newq) /\ schedSendEvent /\ received' = received \cup {p}
          /\ deferred' = deferred /\ pendingModified' = pendingModified /\ tags' = tags
          /\ answered' = answered
          /\ UNCHANGED <<tempValid, noTargetMSHR, waitingOnRetry, abort>>
        BY ZenonT(60), <1>2, <1>4 DEF MissAllocated, Received
    <2>2. /\ QInv(newq) /\ e \in Entry /\ e \notin Outstanding /\ ~newq.inService[e]
          /\ \A d \in Entry : newq.blkAddr[d] = IF d = e THEN p.blk ELSE q.blkAddr[d]
        <3>1. AllocatedFor(p.blk, e, newq)
            BY ZenonT(60), <1>1, <1>4, AllocationProps
        <3>2. e \in Entry /\ ~newq.inService[e]
            BY ZenonT(60), <3>1 DEF AllocatedFor
        <3>3. QED
            BY ZenonT(60), <3>1, <3>2 DEF AllocatedFor
    <2> HIDE DEF newq, e
    <2>3. /\ MissInv' /\ BlockInv' /\ WakeInv' /\ Locked \subseteq Locked'
        BY ZenonT(60), <1>1, <1>4, <2>1, <2>2, AllocationKeeps DEF newq, e
    <2>4. TagInv'
        BY ZenonT(60), <2>1, <2>3 DEF CacheInv, TagInv, Accessible, LockedBlockHasMSHR
    <2>5. LedgerInv'
        <3>1. LedgerInv /\ needsResponse(p.cmd)
            BY ZenonT(60), <1>1 DEF CacheInv, Miss, needsResponse
        <3>2. targets[e] = << >>
            BY <2>2 DEF CacheInv, MissInv
        <3>3. targets' = [targets EXCEPT ![e] = Append(targets[e], p)]
            BY SMTT(30), <2>1, <3>2
        <3>4. /\ q'.blkAddr[e] = p.blk
              /\ \A d \in Entry : d # e => q'.blkAddr[d] = q.blkAddr[d]
            BY ZenonT(60), <2>1, <2>2
        <3>5. QED
            BY ZenonT(60), <1>1, <2>1, <2>2, <3>1, <3>2, <3>3, <3>4, BecomesTarget
    <2>6. QED
        BY <2>3, <2>4, <2>5 DEF CacheInv
<1>5. QED
    BY <1>3, <1>4

LEMMA LockedReadHitKeeps ==
    ASSUME CacheInv, NEW p, Fresh(p), LockedReadHit(p)
    PROVE  CacheInv'
<1> DEFINE e    == Head(q.freeList)
           newq == allocateEntry(q, p.blk, curTick)
           y    == markInService(newq, e)
           t    == [p EXCEPT !.id = Copy]
           B    == bitsOf(p.blk) \ {"Readable", "Writable"}
<1>1. /\ p.blk \in Addr /\ p \in CpuPacket /\ p.cmd = "LockedRMWReadReq" /\ Cached(p.blk)
      /\ targets \in [Entry -> Seq(Packet)] /\ pendingModified \in [Entry -> BOOLEAN]
      /\ Placed(tags) /\ Accessible(tags, Locked) /\ LedgerInv
    BY ZenonT(60) DEF Fresh, CpuPacket, LockedReadHit, Permitted, isSet, CacheInv, MissInv, TagInv
<1>2. CASE findMatch(q, p.blk) # Null
    <2>1. Abort("handleTimingReqHit: !findMatch")
        BY ZenonT(60), <1>2 DEF LockedReadHit
    <2>2. QED
        BY ZenonT(60), <2>1, AbortKeeps DEF Asserts
<1>3. CASE findMatch(q, p.blk) = Null /\ q.freeList = << >>
    <2>1. Abort("allocate: !freeList.empty()")
        BY ZenonT(60), <1>3 DEF LockedReadHit
    <2>2. QED
        BY ZenonT(60), <2>1, AbortKeeps DEF Asserts
<1>4. CASE findMatch(q, p.blk) = Null /\ q.freeList # << >>
    <2>1. /\ q' = y /\ targets' = [targets EXCEPT ![e] = <<t>>]
          /\ pendingModified' = [pendingModified EXCEPT ![e] = needsWritable(p.cmd)]
          /\ setBlocked(newq) /\ schedSendEvent /\ tags' = setBits(p.blk, B)
          /\ received' = received \cup {p} /\ Respond({p.id}) /\ deferred' = deferred
          /\ UNCHANGED <<tempValid, noTargetMSHR, waitingOnRetry, abort>>
        BY ZenonT(60), <1>4 DEF LockedReadHit, Received
    <2>2. /\ e \in Entry /\ e \notin Outstanding
          /\ \A d \in Entry : y.blkAddr[d] = IF d = e THEN p.blk ELSE q.blkAddr[d]
        <3>1. e = Head(q.freeList) /\ y = markInService(allocateEntry(q, p.blk, curTick), e)
            OBVIOUS
        <3> HIDE DEF e, y
        <3>2. QED
            <4>1. AllocatedFor(p.blk, e, y)
                BY ZenonT(60), <1>1, <1>4, <3>1, AllocationProps
            <4>2. QED
                BY ZenonT(60), <4>1 DEF AllocatedFor
    <2>3. y.inService[e]
        BY ZenonT(60), <1>1, <1>4, LockedEntryInService
    <2>4. t \in Packet /\ t.id = Copy
        BY <1>1 DEF CpuPacket, Packet
    <2>5. B \in SUBSET Bits
        BY <1>1, BitsOfType
    <2>6. /\ pendingModified' \in [Entry -> BOOLEAN] /\ pendingModified'[e]
          /\ \A d \in Entry : d # e => pendingModified'[d] = pendingModified[d]
        BY ZenonT(60), <1>1, <2>1, <2>2 DEF needsWritable
    <2> HIDE DEF e, y, t, B
    <2>7. /\ MissInv' /\ BlockInv' /\ WakeInv'
          /\ Locked \subseteq Locked' /\ p.blk \in Locked'
        BY ZenonT(60), <1>1, <1>4, <2>1, <2>2, <2>3, <2>4, <2>6, AllocationKeeps DEF e, y
    <2>8. TagInv'
        <3>1. Placed(tags')
            BY ZenonT(60), <1>1, <2>1, <2>5, SetBitsProps
        <3>2. Accessible(tags', Locked')
            BY <1>1, <2>1, <2>5, <2>7, SetBitsAccessible
        <3>3. QED
            BY ZenonT(60), <2>1, <3>1, <3>2 DEF CacheInv, TagInv, LockedBlockHasMSHR
    <2>9. LedgerInv'
        <3>1. needsResponse(p.cmd)
            BY ZenonT(60), <1>1 DEF needsResponse, isWriteback
        <3>2. targets[e] = << >>
            BY ZenonT(60), <2>2 DEF CacheInv, MissInv
        <3>3. targets' \in [Entry -> Seq(Packet)]
            BY ZenonT(60), <2>7 DEF MissInv
        <3>4. \A d \in Entry : \/ targets'[d] = targets[d] /\ q'.blkAddr[d] = q.blkAddr[d]
                               \/ /\ Len(targets'[d]) = 1 /\ targets'[d][1].id = Copy
                                  /\ Len(targets[d]) = 0
            <4>1. <<t>> \in Seq(Packet) /\ Len(<<t>>) = 1 /\ <<t>>[1].id = Copy
                BY ZenonT(60), <2>4, Singleton
            <4>2. Len(targets[e]) = 0
                BY ZenonT(60), <3>2, NoElements
            <4>3. \A d \in Entry : targets'[d] = IF d = e THEN <<t>> ELSE targets[d]
                BY ZenonT(60), <1>1, <2>1, <2>2, <4>1, ExceptAt
            <4>4. \A d \in Entry : d # e => q'.blkAddr[d] = q.blkAddr[d]
                BY ZenonT(60), <2>1, <2>2
            <4>5. QED
                BY ZenonT(60), <4>1, <4>2, <4>3, <4>4
        <3>5. Respond(IF needsResponse(p.cmd) THEN {p.id} ELSE {})
            BY <2>1, <3>1
        <3>6. QED
            BY ZenonT(60), <1>1, <2>1, <3>3, <3>4, <3>5, AnsweredAtOnce
    <2>10. QED
        BY <2>7, <2>8, <2>9 DEF CacheInv
<1>5. QED
    BY <1>2, <1>3, <1>4

\* What MissFails rules out when it is "none", and what it is otherwise.
LEMMA MissFailsProps ==
    ASSUME NEW e
    PROVE  /\ MissFails(e) = "none" =>
                 /\ ~Cached(q.blkAddr[e])
                 /\ allocOnFillOf(e) => canAllocateBlock(q.blkAddr[e])
                 /\ ~TargetsLeft(e)
           /\ MissFails(e) # "none" =>
                 /\ MissFails(e) \in Asserts
                 /\ MissFails(e) \notin {"handleTimingReqMiss: mshr || !blk",
                                         "handleTimingReqHit: mshr"}
<1> DEFINE b == q.blkAddr[e]
<1>1. CASE Cached(b)
    <2>1. MissFails(e) = "createMissPacket: !blk"
        BY <1>1 DEF MissFails
    <2>2. QED
        BY ZenonT(60), <2>1 DEF Asserts
<1>2. CASE ~Cached(b) /\ ~check_address(b)
    <2>1. MissFails(e) = "Read: response"
        BY <1>2 DEF MissFails
    <2>2. QED
        BY ZenonT(60), <2>1 DEF Asserts
<1>3. CASE ~Cached(b) /\ check_address(b) /\ allocOnFillOf(e) /\ ~canAllocateBlock(b)
    <2>1. MissFails(e) = "insertBlock: !blk->isValid()"
        BY <1>3 DEF MissFails
    <2>2. QED
        BY ZenonT(60), <2>1 DEF Asserts
<1>4. CASE ~Cached(b) /\ check_address(b) /\ ~allocOnFillOf(e) /\ tempValid
    <2>1. MissFails(e) = "setValid: !isValid()"
        BY <1>4 DEF MissFails
    <2>2. QED
        BY ZenonT(60), <2>1 DEF Asserts
<1>5. CASE /\ ~Cached(b) /\ check_address(b)
           /\ ~(allocOnFillOf(e) /\ ~canAllocateBlock(b))
           /\ ~(~allocOnFillOf(e) /\ tempValid)
    <2>1. MissFails(e) = IF TargetsLeft(e) THEN "serviceMSHRTargets: no targets left" ELSE "none"
        BY ZenonT(60), <1>5 DEF MissFails
    <2>2. QED
        BY ZenonT(60), <1>5, <2>1 DEF Asserts
<1>6. QED
    BY ZenonT(60), <1>1, <1>2, <1>3, <1>4, <1>5

\* An entry on the ready list is allocated and not in service.
LEMMA ReadyEntry ==
    ASSUME CacheInv, NEW e \in Range(q.readyList)
    PROVE  e \in Entry /\ e \in Outstanding /\ ~q.inService[e]
<1>1. QInv(q)
    BY ZenonT(60) DEF CacheInv, MissInv
<1>2. e \in Entry
    BY <1>1, QInvLists
<1>3. QED
    BY ZenonT(60), <1>1, <1>2 DEF QInv, ReadyExact, Outstanding

LEMMA ResponseKeeps ==
    ASSUME CacheInv, NEW e \in Range(q.readyList), MissFails(e) = "none",
           recvTimingResp(e), waitingOnRetry' = TRUE, proc' \in {"waiting", "runnable"},
           UNCHANGED <<deferred, pendingModified, received, abort>>
    PROVE  CacheInv'
<1> DEFINE newq  == deallocateEntry(q, e)
           freed == (IF noTargetMSHR = e THEN {"NoTargets"} ELSE {})
                      \cup (IF isFull(q) /\ ~isFull(newq) THEN {"NoMSHRs"} ELSE {})
<1>1. /\ QInv(q) /\ q \in QueueType /\ targets \in [Entry -> Seq(Packet)]
      /\ \A d \in Entry : q.readyTime[d] = 0
      /\ q.inService \in [Entry -> BOOLEAN]
      /\ q.blkAddr \in [Entry -> Addr]
    BY QInvTypes DEF CacheInv, MissInv
<1>2. e \in Entry /\ e \in Outstanding /\ ~q.inService[e]
    BY ReadyEntry
<1>3. /\ QInv(newq) /\ Range(newq.allocatedList) = Outstanding \ {e}
      /\ newq.inService = [q.inService EXCEPT ![e] = FALSE]
    BY ZenonT(60), <1>1, <1>2, DeallocateEntryProps DEF Outstanding
<1>4. /\ newq.blkAddr = q.blkAddr /\ newq.readyTime = q.readyTime
      /\ newq.allocated = q.allocated - 1
    BY ZenonT(60), <1>1, DeallocateEntryFields
<1>5. /\ noTargetMSHR' = noTargetAfter(e) /\ handleFill(e) /\ Respond(ServicedTargets(e))
      /\ targets' = [targets EXCEPT ![e] = << >>] /\ q' = newq
      /\ blocked' = blocked \ freed
    BY DEF recvTimingResp
<1> HIDE DEF newq
<1>6. /\ Outstanding' = Outstanding \ {e} /\ Outstanding \subseteq Entry
      /\ \A d \in Entry : d # e => newq.inService[d] = q.inService[d]
    BY ZenonT(60), <1>1, <1>2, <1>3, <1>5, QInvLists DEF Outstanding
<1>7. /\ targets' \in [Entry -> Seq(Packet)]
      /\ \A d \in Entry : targets'[d] = IF d = e THEN << >> ELSE targets[d]
    BY ZenonT(60), <1>1, <1>2, <1>5, NoElements, ExceptAt
<1>8. MissInv'
    <2>1. \A d \in Entry : d \in Outstanding' <=> targets'[d] # << >>
        BY ZenonT(60), <1>2, <1>6, <1>7 DEF CacheInv, MissInv
    <2>2. \A d \in Outstanding' : q'.inService[d] => pendingModified'[d]
        BY ZenonT(60), <1>5, <1>6 DEF CacheInv, MissInv
    <2>3. OneMSHRPerBlock'
        <3>1. OneMSHRPerBlock
            BY ZenonT(60) DEF CacheInv, MissInv
        <3>2. q'.blkAddr = q.blkAddr /\ Outstanding' \subseteq Outstanding
            BY ZenonT(60), <1>4, <1>5, <1>6
        <3>3. QED
            BY ZenonT(60), <3>1, <3>2 DEF OneMSHRPerBlock
    <2>4. deferred' = [d \in Entry |-> << >>] /\ pendingModified' \in [Entry -> BOOLEAN]
        BY ZenonT(60) DEF CacheInv, MissInv
    <2>5. \A d \in Entry : q'.readyTime[d] = 0
        BY ZenonT(60), <1>1, <1>4, <1>5
    <2>6. QED
        BY ZenonT(60), <1>3, <1>5, <1>7, <2>1, <2>2, <2>3, <2>4, <2>5 DEF MissInv
<1>9. BlockInv'
    <2>1. /\ blocked \subseteq {"NoMSHRs", "NoTargets"} /\ noTargetMSHR \in Entry \cup {Null}
          /\ "NoMSHRs" \in blocked <=> isFull(q)
          /\ IF "NoTargets" \in blocked
             THEN noTargetMSHR \in Outstanding /\ Len(targets[noTargetMSHR]) >= numTarget
             ELSE noTargetMSHR = Null
        BY DEF CacheInv, BlockInv, FullIsBlocked, NoTargetMSHRLive
    <2>2. isFull(newq) => isFull(q)
        <3>1. q.allocated \in Int
            BY ZenonT(60), <1>1, QueueCounts
        <3>2. q.allocated = newq.allocated + 1
            BY <1>4, <3>1
        <3>3. QED
            BY ZenonT(60), <1>1, <1>3, <3>2, FullGrows
    <2>3. "NoMSHRs" \in blocked' <=> isFull(newq)
        BY ZenonT(60), <1>5, <2>1, <2>2
    <2>4. "NoTargets" \in blocked' <=> "NoTargets" \in blocked /\ noTargetMSHR # e
        BY <1>5
    <2>5. noTargetMSHR' = IF noTargetMSHR = e THEN Null ELSE noTargetMSHR
        BY <1>5 DEF noTargetAfter
    <2>6. NoTargetMSHRLive'
        BY ZenonT(60), <1>6, <1>7, <2>1, <2>4, <2>5 DEF NoTargetMSHRLive
    <2>7. blocked' \subseteq {"NoMSHRs", "NoTargets"} /\ noTargetMSHR' \in Entry \cup {Null}
        BY <1>5, <2>1, <2>5
    <2>8. QED
        BY ZenonT(60), <1>5, <2>3, <2>6, <2>7 DEF BlockInv, FullIsBlocked
<1>10. Locked' = Locked
    BY ZenonT(60), <1>2, <1>4, <1>5, <1>6 DEF Locked
<1>11. TagInv'
    <2>1. q.blkAddr[e] \in Addr /\ Placed(tags) /\ Accessible(tags, Locked)
        BY <1>1, <1>2 DEF CacheInv, TagInv
    <2>2. /\ ~Cached(q.blkAddr[e])
          /\ allocOnFillOf(e) => canAllocateBlock(q.blkAddr[e])
        BY ZenonT(60), MissFailsProps
    <2>3. Placed(tags') /\ Accessible(tags', Locked)
        <3>1. CASE allocOnFillOf(e)
            <4>1. tags' = allocateBlock(q.blkAddr[e], Both)
                BY <1>5, <3>1 DEF handleFill, Both
            <4>2. Both \in SUBSET Bits
                BY DEF Both, Bits
            <4>3. QED
                BY ZenonT(60), <2>1, <2>2, <3>1, <4>1, <4>2, AllocateBlockProps
        <3>2. CASE ~allocOnFillOf(e)
            BY <1>5, <2>1, <3>2 DEF handleFill
        <3>3. QED
            BY <3>1, <3>2
    <2>4. QED
        BY ZenonT(60), <1>10, <2>3 DEF CacheInv, TagInv, LockedBlockHasMSHR
<1>12. WakeInv'
    BY ZenonT(60), <1>5 DEF CacheInv, WakeInv, handleFill
<1>13. LedgerInv'
    <2>1. LedgerInv /\ received' = received /\ q'.blkAddr = q.blkAddr
        BY <1>4, <1>5 DEF CacheInv
    <2>2. QED
        BY ZenonT(60), <1>1, <1>2, <1>5, <2>1, TargetsServed
<1>14. QED
    BY ZenonT(60), <1>8, <1>9, <1>11, <1>12, <1>13 DEF CacheInv

\* Sending the next MSHR, from whichever process.
LEMMA SendKeeps ==
    ASSUME CacheInv, NEW e \in Range(q.readyList), SendMSHR(e),
           proc' = proc \/ (MissFails(e) = "none" /\ proc' = "waiting")
    PROVE  CacheInv'
<1>1. CASE MissFails(e) = "none"
    <2>1. /\ recvTimingResp(e) /\ waitingOnRetry' = TRUE
          /\ UNCHANGED <<deferred, pendingModified, received, abort>>
        BY <1>1 DEF SendMSHR
    <2>2. proc' \in {"waiting", "runnable"}
        BY DEF CacheInv, WakeInv
    <2>3. QED
        BY ZenonT(60), <1>1, <2>1, <2>2, ResponseKeeps
<1>2. CASE MissFails(e) # "none"
    <2>1. Abort(MissFails(e))
        BY ZenonT(60), <1>2 DEF SendMSHR
    <2>2. QED
        BY ZenonT(60), <1>2, <2>1, MissFailsProps, AbortKeeps
<1>3. QED
    BY <1>1, <1>2

\* A step of a process that changes only when the queue is next served.
LEMMA ScheduleKeeps ==
    ASSUME CacheInv, q.readyList = << >> \/ proc' = "runnable",
           proc' \in {"waiting", "runnable"}, waitingOnRetry' \in BOOLEAN,
           UNCHANGED <<missVars, tags, tempValid, blocked, noTargetMSHR, received, answered, abort>>
    PROVE  CacheInv'
<1>1. /\ q' = q /\ targets' = targets /\ deferred' = deferred
      /\ pendingModified' = pendingModified /\ tags' = tags /\ tempValid' = tempValid
      /\ blocked' = blocked /\ noTargetMSHR' = noTargetMSHR /\ received' = received
      /\ answered' = answered /\ abort' = abort
    BY DEF missVars
<1>2. MissInv'
    BY ZenonT(60), <1>1 DEF CacheInv, MissInv, OneMSHRPerBlock, Outstanding
<1>3. BlockInv'
    BY ZenonT(60), <1>1 DEF CacheInv, BlockInv, FullIsBlocked, NoTargetMSHRLive, Outstanding
<1>4. TagInv'
    BY ZenonT(60), <1>1 DEF CacheInv, TagInv, LockedBlockHasMSHR, Locked, Outstanding
<1>5. WakeInv'
    BY ZenonT(60), <1>1 DEF CacheInv, WakeInv
<1>6. LedgerInv'
    BY ZenonT(60), <1>1 DEF CacheInv, LedgerInv
<1>7. QED
    BY ZenonT(60), <1>2, <1>3, <1>4, <1>5, <1>6 DEF CacheInv

LEMMA NextEntry ==
    ASSUME CacheInv
    PROVE  IF getNext(q) = Null THEN q.readyList = << >>
           ELSE getNext(q) \in Range(q.readyList)
<1>1. QInv(q) /\ \A e \in Entry : q.readyTime[e] = 0
    BY DEF CacheInv, MissInv
<1>2. Null \notin Entry
    BY DEF Null, Entry
<1>3. QED
    BY ZenonT(60), <1>1, <1>2, GetNextProps

LEMMA ProcessSendEventKeeps ==
    ASSUME CacheInv, processSendEvent
    PROVE  CacheInv'
<1> DEFINE e == getNext(q)
<1>1. CASE waitingOnRetry /\ Abort("processSendEvent: !waitingOnRetry")
    BY ZenonT(60), <1>1, AbortKeeps DEF Asserts
<1>2. CASE /\ e = Null /\ proc' = "waiting"
           /\ UNCHANGED <<missVars, tags, tempValid, blocked, noTargetMSHR,
                          waitingOnRetry, received, answered, abort>>
    <2>1. q.readyList = << >> /\ waitingOnRetry' \in BOOLEAN
        BY <1>2, NextEntry DEF CacheInv, WakeInv
    <2>2. QED
        BY ZenonT(60), <1>2, <2>1, ScheduleKeeps
<1>3. CASE /\ e # Null /\ SendMSHR(e)
           /\ proc' = IF MissFails(e) = "none" THEN "waiting" ELSE proc
    <2>1. e \in Range(q.readyList)
        BY <1>3, NextEntry
    <2> HIDE DEF e
    <2>2. proc' = proc \/ (MissFails(e) = "none" /\ proc' = "waiting")
        BY <1>3
    <2>3. SendMSHR(e)
        BY <1>3
    <2>4. QED
        BY ZenonT(60), <2>1, <2>2, <2>3, SendKeeps
<1>4. QED
    BY ZenonT(60), <1>1, <1>2, <1>3 DEF processSendEvent

LEMMA RetryKeeps ==
    ASSUME CacheInv, retry
    PROVE  CacheInv'
<1> DEFINE e == getNext(q)
<1>1. CASE /\ e = Null /\ waitingOnRetry' = FALSE /\ schedSendEvent
           /\ UNCHANGED <<missVars, tags, tempValid, blocked, noTargetMSHR,
                          received, answered, abort>>
    BY ZenonT(60), <1>1, ScheduleKeeps DEF schedSendEvent
<1>2. CASE e # Null /\ SendMSHR(e) /\ proc' = proc
    <2>1. e \in Range(q.readyList)
        BY <1>2, NextEntry
    <2> HIDE DEF e
    <2>2. SendMSHR(e) /\ proc' = proc
        BY ZenonT(60), <1>2
    <2>3. QED
        BY ZenonT(60), <2>1, <2>2, SendKeeps
<1>3. QED
    BY ZenonT(60), <1>1, <1>2 DEF retry

LEMMA RecvTimingReqKeeps ==
    ASSUME CacheInv, NEW p, Fresh(p), recvTimingReq(p)
    PROVE  CacheInv'
BY ZenonT(60), HitKeeps, DropCleanWritebackKeeps, WritebackKeeps, WriteCleanMissKeeps,
   LockedReadHitKeeps, LockedWriteKeeps, MissCoalescedKeeps, MissAllocatedKeeps
   DEF recvTimingReq

LEMMA InitKeeps ==
    ASSUME Init
    PROVE  CacheInv
<1> DEFINE a == CHOOSE b \in Addr : TRUE
<1>1. a \in Addr
    BY QueueAssumption
<1>2. q = NewQueue(a)
    BY DEF Init
<1> HIDE DEF a
<1>3. /\ QInv(q) /\ q.allocatedList = << >> /\ q.readyList = << >>
    BY <1>1, <1>2, NewQueueProps
<1>4. Outstanding = {}
    BY SMTT(30), <1>3 DEF Outstanding, Range
<1>5. q.readyTime = [e \in Entry |-> 0] /\ q.allocated = 0
    BY <1>2 DEF NewQueue
<1>6. MissInv
    <2>1. targets \in [Entry -> Seq(Packet)] /\ \A e \in Entry : targets[e] = << >>
        BY DEF Init
    <2>2. QED
        BY ZenonT(60), <1>3, <1>4, <1>5, <2>1 DEF Init, MissInv, OneMSHRPerBlock
<1>7. BlockInv
    <2>1. num_entries \in Nat \ {0} /\ numEntries = num_entries + reserve /\ reserve = 0
        BY QueueAssumption, CacheAssumption DEF numEntries
    <2>2. ~isFull(q)
        BY SMTT(30), <1>5, <2>1 DEF isFull
    <2>3. QED
        BY <2>2 DEF Init, BlockInv, FullIsBlocked, NoTargetMSHRLive
<1>8. TagInv
    <2>1. /\ tags \in TagsType
          /\ \A s \in Set, w \in Way : tags[s][w].blk = NoBlk
        BY DEF Init, TagsType, Set
    <2>2. abort = "none"
        BY DEF Init
    <2>3. QED
        BY ZenonT(60), <2>1, <2>2 DEF TagInv, Placed, Accessible, LockedBlockHasMSHR
<1>9. WakeInv
    BY ZenonT(60), <1>3 DEF Init, WakeInv
<1>10. LedgerInv
    <2>1. /\ received = {} /\ \A e \in Entry : targets[e] = << >>
          /\ answered \in [Request -> {0, 1}] /\ \A r \in Request : answered[r] = 0
        BY DEF Init
    <2>2. \A e \in Entry : 1 .. Len(targets[e]) = {}
        BY <2>1
    <2>3. \A r \in Request : answered[r] # 1
        BY <2>1
    <2>4. QED
        BY ZenonT(60), <2>1, <2>2, <2>3 DEF LedgerInv, LedgerOf
<1>11. QED
    BY <1>6, <1>7, <1>8, <1>9, <1>10 DEF CacheInv

LEMMA StutterKeeps ==
    ASSUME CacheInv, UNCHANGED vars
    PROVE  CacheInv'
<1>1. /\ q' = q /\ targets' = targets /\ deferred' = deferred
      /\ pendingModified' = pendingModified /\ tags' = tags /\ tempValid' = tempValid
      /\ blocked' = blocked /\ noTargetMSHR' = noTargetMSHR
      /\ waitingOnRetry' = waitingOnRetry /\ proc' = proc /\ received' = received
      /\ answered' = answered /\ abort' = abort
    BY DEF vars, missVars
<1>2. MissInv' /\ BlockInv'
    BY ZenonT(60), <1>1 DEF CacheInv, MissInv, OneMSHRPerBlock, Outstanding,
                BlockInv, FullIsBlocked, NoTargetMSHRLive
<1>3. TagInv' /\ WakeInv'
    BY ZenonT(60), <1>1 DEF CacheInv, TagInv, LockedBlockHasMSHR, Locked, Outstanding, WakeInv
<1>4. LedgerInv'
    BY ZenonT(60), <1>1 DEF CacheInv, LedgerInv
<1>5. QED
    BY ZenonT(60), <1>2, <1>3, <1>4 DEF CacheInv

(***************************************************************************)
(* The cache under every order of calls                                    *)
(***************************************************************************)

\* A call of the cache takes its packet or, when an assert fails, does not.
LEMMA TakesItsPacket ==
    ASSUME NEW p, recvTimingReq(p)
    PROVE  received' = received \/ received' = received \cup {p}
<1>1. CASE Hit(p)
    BY <1>1 DEF Hit, Received
<1>2. CASE DropCleanWriteback(p)
    BY ZenonT(60), <1>2 DEF DropCleanWriteback, Received, Abort
<1>3. CASE Writeback(p)
    BY ZenonT(60), <1>3 DEF Writeback, Received, Abort
<1>4. CASE WriteCleanMiss(p)
    BY ZenonT(60), <1>4 DEF WriteCleanMiss, Abort
<1>5. CASE LockedReadHit(p)
    BY ZenonT(60), <1>5 DEF LockedReadHit, Received, Abort
<1>6. CASE LockedWrite(p)
    BY ZenonT(60), <1>6 DEF LockedWrite, Abort
<1>7. CASE MissCoalesced(p)
    BY <1>7 DEF MissCoalesced, Received
<1>8. CASE MissAllocated(p)
    BY ZenonT(60), <1>8 DEF MissAllocated, Received, Abort
<1>9. QED
    BY ZenonT(60), <1>1, <1>2, <1>3, <1>4, <1>5, <1>6, <1>7, <1>8 DEF recvTimingReq

LEMMA SendTakesNothing ==
    ASSUME processSendEvent \/ retry
    PROVE  received' = received
BY ZenonT(60) DEF processSendEvent, retry, SendMSHR, Abort

\* The packets that arrive are new to the cache and the newest.
LEMMA ArrivesFresh ==
    ASSUME CacheInv, Arrive
    PROVE  \E p : Fresh(p) /\ recvTimingReq(p) /\ \A r \in received : r.id < p.id
<1>1. PICK n \in Request, c \in Cmds, b \in Addr :
          /\ {p.id : p \in received} = 1 .. n - 1
          /\ recvTimingReq([id |-> n, cmd |-> c, blk |-> b])
    BY ZenonT(60) DEF Arrive
<1>2. [id |-> n, cmd |-> c, blk |-> b] \in CpuPacket
    BY ZenonT(60), <1>1 DEF CpuPacket
<1>3. n \in Nat /\ \A r \in received : r.id \in 1 .. n - 1
    BY <1>1, CacheAssumption DEF Request
<1>4. \A r \in received : r.id < n /\ r.id # n
    BY <1>3
<1>5. QED
    BY SMTT(30), <1>1, <1>2, <1>4 DEF Fresh

LEMMA CacheStep ==
    ASSUME CacheInv, [Next]_vars
    PROVE  CacheInv'
<1>1. CASE Arrive
    BY <1>1, ArrivesFresh, RecvTimingReqKeeps
<1>2. CASE processSendEvent
    BY <1>2, ProcessSendEventKeeps
<1>3. CASE retry
    BY <1>3, RetryKeeps
<1>4. CASE UNCHANGED vars
    BY <1>4, StutterKeeps DEF vars
<1>5. QED
    BY <1>1, <1>2, <1>3, <1>4 DEF Next

\* CacheInv is an invariant of the cache, for every number of entries, sets,
\* ways, targets, blocks and requests, and under every order of recvTimingReq,
\* processSendEvent and retry.
THEOREM CacheInvariant == Spec => []CacheInv
<1>1. Init => CacheInv
    BY InitKeeps
<1>2. CacheInv /\ [Next]_vars => CacheInv'
    BY CacheStep
<1>3. QED
    BY <1>1, <1>2, PTL DEF Spec

(***************************************************************************)
(* The properties of the cache follow from the invariant                   *)
(***************************************************************************)

LEMMA CpuPacketsArePackets == CpuPacket \subseteq Packet
BY DEF CpuPacket, Packet

LEMMA AnswersAreNat == [Request -> {0, 1}] \subseteq [Request -> Nat]
OBVIOUS

LEMMA InPlaces ==
    ASSUME NEW p, NEW e \in Outstanding, NEW i \in 1 .. Len(targets[e]),
           targets[e][i] = p, q.blkAddr[e] = p.blk
    PROVE  <<e, i>> \in Places(p)
BY DEF Places

LEMMA TypesFollow ==
    ASSUME CacheInv
    PROVE  TypeOK
<1>1. q \in QueueType /\ targets \in [Entry -> Seq(Packet)]
    BY ZenonT(60), QInvTypes DEF CacheInv, MissInv
<1>2. deferred \in [Entry -> Seq(Packet)] /\ pendingModified \in [Entry -> BOOLEAN]
    BY DEF CacheInv, MissInv
<1>3. tags \in [0 .. numSets - 1 -> [Way -> [blk : Addr \cup {NoBlk}, bits : SUBSET Bits]]]
    BY DEF CacheInv, TagInv, Placed, TagsType, Set
<1>4. received \subseteq Packet /\ answered \in [Request -> Nat]
    <2>1. received \subseteq CpuPacket /\ answered \in [Request -> {0, 1}]
        BY DEF CacheInv, LedgerInv, LedgerOf
    <2>2. QED
        BY ZenonT(60), <2>1, CpuPacketsArePackets, AnswersAreNat
<1>5. /\ tempValid \in BOOLEAN /\ blocked \subseteq {"NoMSHRs", "NoTargets"}
      /\ noTargetMSHR \in Entry \cup {Null} /\ waitingOnRetry \in BOOLEAN
      /\ proc \in {"waiting", "runnable"} /\ abort \in {"none"} \cup Asserts
    BY ZenonT(60) DEF CacheInv, BlockInv, WakeInv
<1>6. QED
    BY ZenonT(60), <1>1, <1>2, <1>3, <1>4, <1>5 DEF TypeOK

\* The places of a request: none once it is answered, one until then.
LEMMA ConservationFollows ==
    ASSUME CacheInv
    PROVE  RequestConservation
<1>1. SUFFICES ASSUME NEW p \in received
               PROVE  IF needsResponse(p.cmd) /\ answered[p.id] = 0
                      THEN \E x \in Places(p) : Places(p) = {x}
                      ELSE /\ Places(p) = {}
                           /\ answered[p.id] = IF needsResponse(p.cmd) THEN 1 ELSE 0
    BY ZenonT(60) DEF RequestConservation
<1>2. /\ p.id \in Request /\ p.id # Copy /\ LedgerInv
      /\ answered[p.id] \in {0, 1} /\ Outstanding \subseteq Entry
      /\ answered[p.id] = 1 => needsResponse(p.cmd)
    <2>1. LedgerInv /\ p \in CpuPacket /\ answered \in [Request -> {0, 1}]
        BY ZenonT(60), <1>1 DEF CacheInv, LedgerInv, LedgerOf
    <2>2. p.id \in Request /\ p.id # Copy
        BY SMTT(30), <2>1 DEF CpuPacket, Request, Copy
    <2>3. answered[p.id] = 1 => needsResponse(p.cmd)
        BY ZenonT(60), <1>1, <2>1, <2>2 DEF LedgerInv, LedgerOf
    <2>4. QED
        BY ZenonT(60), <2>1, <2>2, <2>3, QInvLists DEF CacheInv, MissInv, Outstanding
<1>3. \A x \in Places(p) :
          /\ x[1] \in Entry /\ x[2] \in 1 .. Len(targets[x[1]]) /\ x = <<x[1], x[2]>>
          /\ targets[x[1]][x[2]] = p
    BY SMTT(30), <1>2 DEF Places
<1>4. \A x \in Places(p) : needsResponse(p.cmd) /\ answered[p.id] = 0
    BY <1>2, <1>3, TargetFacts
<1>5. CASE needsResponse(p.cmd) /\ answered[p.id] = 0
    <2>1. PICK e \in Entry : \E i \in 1 .. Len(targets[e]) : targets[e][i] = p
        BY ZenonT(60), <1>1, <1>5 DEF CacheInv, LedgerInv, LedgerOf
    <2>2. PICK i \in 1 .. Len(targets[e]) : targets[e][i] = p
        BY ZenonT(60), <2>1
    <2>3. e \in Outstanding
        <3>1. targets[e] # << >>
            BY SMTT(30), <2>2
        <3>2. QED
            BY ZenonT(60), <3>1 DEF CacheInv, MissInv
    <2>4. q.blkAddr[e] = p.blk
        BY ZenonT(60), <1>2, <2>2, TargetFacts
    <2>5. <<e, i>> \in Places(p)
        BY ZenonT(60), <2>2, <2>3, <2>4, InPlaces
    <2>6. \A x \in Places(p) : x = <<e, i>>
        BY <1>2, <1>3, <2>2 DEF LedgerInv, LedgerOf
    <2>7. Places(p) = {<<e, i>>}
        BY ZenonT(60), <2>5, <2>6
    <2>8. QED
        BY ZenonT(60), <1>5, <2>5, <2>7
<1>6. CASE ~(needsResponse(p.cmd) /\ answered[p.id] = 0)
    <2>1. Places(p) = {}
        BY <1>4, <1>6
    <2>2. QED
        BY ZenonT(60), <1>2, <1>6, <2>1
<1>7. QED
    BY ZenonT(60), <1>5, <1>6

LEMMA RestFollows ==
    ASSUME CacheInv
    PROVE  /\ OneMSHRPerBlock /\ NoDuplicateBlock /\ BlockedWhenFull /\ NoTargetMSHRLive
           /\ NoStrandedMiss /\ NothingDeferred /\ LockedBlockHasMSHR
           /\ UnlockedBlockPermitted
<1>1. OneMSHRPerBlock /\ NoTargetMSHRLive /\ LockedBlockHasMSHR
    BY DEF CacheInv, MissInv, BlockInv, TagInv
<1>2. NoDuplicateBlock
    BY DEF CacheInv, TagInv, Placed, Set, NoDuplicateBlock
<1>3. NothingDeferred
    BY ZenonT(60) DEF CacheInv, MissInv, NothingDeferred
<1>4. NoStrandedMiss
    BY ZenonT(60), NextEntry DEF CacheInv, WakeInv, NoStrandedMiss, getNext
<1>5. UnlockedBlockPermitted
    <2>1. SUFFICES ASSUME NEW b \in Addr, Cached(b)
                   PROVE  \/ {"Readable", "Writable"} \subseteq bitsOf(b)
                          \/ \E e \in Outstanding : q.blkAddr[e] = b /\ q.inService[e]
        BY ZenonT(60) DEF UnlockedBlockPermitted
    <2>2. /\ extractSet(b) \in Set /\ findBlock(b) \in Way /\ b # NoBlk
          /\ tags[extractSet(b)][findBlock(b)].blk = b
        BY <2>1, AddrProps, FindBlockProps
    <2>3. QED
        BY ZenonT(60), <2>2 DEF CacheInv, TagInv, Accessible, bitsOf, Both, Locked
<1>6. BlockedWhenFull
    <2>1. QInv(q) /\ FullIsBlocked
        BY DEF CacheInv, MissInv, BlockInv
    <2>2. /\ q.freeList \in Seq(Entry) /\ q.allocated \in Int /\ numEntries \in Nat
          /\ Len(q.freeList) \in Nat /\ q.allocated + Len(q.freeList) = numEntries
        BY ZenonT(60), <2>1, QInvTypes, QInvCounts
    <2>3. isFull(q) <=> Len(q.freeList) = 0
        BY <2>2, CacheAssumption DEF isFull
    <2>4. Len(q.freeList) = 0 <=> q.freeList = << >>
        BY <2>2, EmptySeq
    <2>5. QED
        BY ZenonT(60), <2>1, <2>3, <2>4 DEF FullIsBlocked, BlockedWhenFull
<1>7. QED
    BY ZenonT(60), <1>1, <1>2, <1>3, <1>4, <1>5, <1>6

\* Every variable of the cache keeps its type, and the program can only stop at
\* the listed asserts (recvTimingReq, processSendEvent, retry).
THEOREM CacheTypeCorrect == Spec => []TypeOK
<1>1. CacheInv => TypeOK
    BY ZenonT(60), TypesFollow
<1>2. QED
    BY <1>1, CacheInvariant, PTL

\* No request is lost, duplicated or answered twice, whatever the order in which
\* hits, misses, locked accesses and responses happen (recvTimingReq,
\* recvTimingResp, serviceMSHRTargets).
THEOREM RequestsConserved == Spec => []RequestConservation
<1>1. CacheInv => RequestConservation
    BY ConservationFollows
<1>2. QED
    BY <1>1, CacheInvariant, PTL

\* A block has at most one MSHR (handleTimingReqMiss, allocateMissBuffer).
THEOREM MSHRsAreUnique == Spec => []OneMSHRPerBlock
<1>1. CacheInv => OneMSHRPerBlock
    BY ZenonT(60), RestFollows
<1>2. QED
    BY <1>1, CacheInvariant, PTL

\* A block is in at most one way of the tags (insertBlock, allocateBlock).
THEOREM BlocksAreUnique == Spec => []NoDuplicateBlock
<1>1. CacheInv => NoDuplicateBlock
    BY RestFollows
<1>2. QED
    BY <1>1, CacheInvariant, PTL

\* The cause Blocked_NoMSHRs is set exactly while no MSHR is free
\* (allocateMissBuffer, recvTimingResp).
THEOREM BlockingFollowsOccupancy == Spec => []BlockedWhenFull
<1>1. CacheInv => BlockedWhenFull
    BY RestFollows
<1>2. QED
    BY <1>1, CacheInvariant, PTL

\* The pointer noTargetMSHR never dangles (handleTimingReqMiss, recvTimingResp).
THEOREM NoTargetPointerLive == Spec => []NoTargetMSHRLive
<1>1. CacheInv => NoTargetMSHRLive
    BY RestFollows
<1>2. QED
    BY <1>1, CacheInvariant, PTL

\* A ready MSHR never waits for a notification that was lost (schedMemSideSendEvent,
\* pktQueueProcess).
THEOREM NoWakeupLost == Spec => []NoStrandedMiss
<1>1. CacheInv => NoStrandedMiss
    BY ZenonT(60), RestFollows
<1>2. QED
    BY <1>1, CacheInvariant, PTL

\* No target is deferred (MSHR::allocateTarget, serviceMSHRTargets).
THEOREM NeverDefers == Spec => []NothingDeferred
<1>1. CacheInv => NothingDeferred
    BY RestFollows
<1>2. QED
    BY <1>1, CacheInvariant, PTL

\* The asserts on a locked block's MSHR hold (handleTimingReqMiss, handleTimingReqHit).
THEOREM LockKeepsMSHR == Spec => []LockedBlockHasMSHR
<1>1. CacheInv => LockedBlockHasMSHR
    BY ZenonT(60), RestFollows
<1>2. QED
    BY <1>1, CacheInvariant, PTL

\* A cached block without permissions is locked (handleTimingReqHit, access).
THEOREM OnlyLocksTakePermissions == Spec => []UnlockedBlockPermitted
<1>1. CacheInv => UnlockedBlockPermitted
    BY RestFollows
<1>2. QED
    BY <1>1, CacheInvariant, PTL

(***************************************************************************)
(* What a step does to the MSHRs and the tags                              *)
(***************************************************************************)

\* The step changes the tags at block b only, in its way or by filling a free one.
TouchesOnly(b) ==
    \A s \in Set, w \in Way :
        \/ tags'[s][w].blk = tags[s][w].blk /\ tags'[s][w].bits = tags[s][w].bits
        \/ tags'[s][w].blk = b /\ tags[s][w].blk \in {b, NoBlk}

\* MSHR d stays as it is.
Stays(d) ==
    /\ d \in Outstanding /\ d \in Outstanding'
    /\ q'.blkAddr[d] = q.blkAddr[d] /\ q'.inService[d] = q.inService[d]

\* The block of MSHR e is as the allocation of e left it: cached without
\* permissions when e is in service, and in no way when e is still to be sent.
AsAllocated(e) ==
    LET row == tags[extractSet(q.blkAddr[e])]
    IN  IF q.inService[e]
        THEN \E w \in Way : row[w].blk = q.blkAddr[e] /\ row[w].bits \cap Both = {}
        ELSE \A w \in Way : row[w].blk # q.blkAddr[e]

\* MSHR e is allocated for request p.
Allocates(p, e) ==
    /\ Outstanding' = Outstanding \cup {e}
    /\ q'.blkAddr[e] = p.blk /\ AsAllocated(e)'
    /\ \A d \in Outstanding : Stays(d) /\ q.blkAddr[d] # p.blk

\* Request p is taken without an MSHR and may make its block writable, but not
\* readable.
Marks(p) ==
    /\ q' = q /\ TouchesOnly(p.blk) /\ p \in received'
    /\ \A s \in Set, w \in Way :
           tags[s][w].blk = p.blk =>
               /\ tags'[s][w].blk = p.blk
               /\ "Readable" \in tags'[s][w].bits => "Readable" \in tags[s][w].bits

Locks(p) == LockedReadHit(p) /\ \E e : Allocates(p, e) /\ q'.inService[e] /\ TouchesOnly(p.blk)

Misses(p) == answered' = answered /\ \E e : Allocates(p, e) /\ tags' = tags

LEMMA SetBitsTouches ==
    ASSUME CacheInv, NEW p, p.blk \in Addr, Cached(p.blk), p \in received', q' = q,
           NEW B \in SUBSET Bits, B \subseteq bitsOf(p.blk) \cup {"Writable", "Dirty"},
           tags' = setBits(p.blk, B)
    PROVE  Marks(p)
<1>1. Placed(tags)
    BY DEF CacheInv, TagInv
<1>2. \A s \in Set, w \in Way :
          /\ tags'[s][w].blk = tags[s][w].blk
          /\ tags'[s][w].bits = IF tags[s][w].blk = p.blk THEN B ELSE tags[s][w].bits
    BY <1>1, SetBitsProps
<1>3. TouchesOnly(p.blk)
    BY ZenonT(60), <1>2 DEF TouchesOnly
<1>4. ASSUME NEW s \in Set, NEW w \in Way, tags[s][w].blk = p.blk, "Readable" \in B
      PROVE  "Readable" \in tags[s][w].bits
    <2>1. /\ findBlock(p.blk) \in Way /\ extractSet(p.blk) \in Set /\ p.blk # NoBlk
          /\ tags[extractSet(p.blk)][findBlock(p.blk)].blk = p.blk
        BY ZenonT(60), FindBlockProps, AddrProps
    <2>2. extractSet(p.blk) = s
        BY ZenonT(60), <1>1, <1>4, <2>1 DEF Placed
    <2>3. findBlock(p.blk) = w
        BY ZenonT(60), <1>1, <1>4, <2>1, <2>2 DEF Placed
    <2>4. "Readable" \in bitsOf(p.blk)
        BY <1>4
    <2>5. QED
        BY ZenonT(60), <2>2, <2>3, <2>4 DEF bitsOf
<1>5. QED
    BY ZenonT(60), <1>2, <1>3, <1>4 DEF Marks

LEMMA AllocateTouches ==
    ASSUME CacheInv, NEW b \in Addr, ~Cached(b), canAllocateBlock(b),
           NEW B \in SUBSET Bits, Both \subseteq B, tags' = allocateBlock(b, B)
    PROVE  TouchesOnly(b) /\ \A s \in Set, w \in Way : tags[s][w].blk # b
<1>1. Placed(tags) /\ Accessible(tags, Locked)
    BY DEF CacheInv, TagInv
<1>2. \A s \in Set, w \in Way :
          tags'[s][w] = tags[s][w] \/ (tags[s][w].blk = NoBlk /\ tags'[s][w].blk = b)
    BY ZenonT(60), <1>1, AllocateBlockProps
<1>3. \A w \in Way : tags[extractSet(b)][w].blk # b
    BY ZenonT(60), FindBlockProps
<1>4. b # NoBlk
    BY AddrProps
<1>5. QED
    BY ZenonT(60), <1>1, <1>2, <1>3, <1>4 DEF TouchesOnly, Placed

LEMMA WritebackMarks ==
    ASSUME CacheInv, NEW p, Fresh(p), Hit(p) \/ DropCleanWriteback(p) \/ Writeback(p)
    PROVE  \/ q' = q /\ tags' = tags
           \/ Marks(p) /\ isWriteback(p.cmd) /\ answered' = answered
           \/ Marks(p) /\ p.cmd = "WriteClean" /\ Permitted(p)
<1>1. p.blk \in Addr
    BY ZenonT(60) DEF Fresh, CpuPacket
<1>2. (p \in received' /\ q' = q) \/ \E m : Abort(m)
    BY ZenonT(60) DEF Hit, DropCleanWriteback, Writeback, Received, missVars
<1>3. CASE \E m : Abort(m)
    BY ZenonT(60), <1>3 DEF Abort, missVars
<1>4. ASSUME p \in received', q' = q, Cached(p.blk), NEW D \in SUBSET {"Writable", "Dirty"},
             tags' = setBits(p.blk, bitsOf(p.blk) \cup D)
      PROVE  Marks(p)
    <2>1. /\ bitsOf(p.blk) \cup D \in SUBSET Bits
          /\ bitsOf(p.blk) \cup D \subseteq bitsOf(p.blk) \cup {"Writable", "Dirty"}
        <3>1. bitsOf(p.blk) \in SUBSET Bits
            BY ZenonT(60), <1>1, <1>4, BitsOfType DEF CacheInv, TagInv
        <3>2. QED
            BY <3>1 DEF Bits
    <2>2. QED
        BY ZenonT(60), <1>1, <1>4, <2>1, SetBitsTouches
<1>5. CASE Hit(p) /\ ~\E m : Abort(m)
    <2>1. CASE p.cmd = "WriteClean"
        <3>1. Permitted(p) /\ Cached(p.blk)
            BY <1>5, <2>1 DEF Hit, FailedStoreCond, Permitted, isSet
        <3>2. tags' = setBits(p.blk, bitsOf(p.blk) \cup {"Writable"})
            BY <1>5, <2>1 DEF Hit
        <3>3. QED
            BY <1>2, <1>4, <1>5, <2>1, <3>1, <3>2
    <2>2. CASE p.cmd # "WriteClean"
        BY <1>2, <1>5, <2>2 DEF Hit
    <2>3. QED
        BY ZenonT(60), <2>1, <2>2
<1>6. CASE DropCleanWriteback(p) /\ ~\E m : Abort(m)
    <2>1. /\ Cached(p.blk) /\ tags' = setBits(p.blk, bitsOf(p.blk) \cup {"Writable"})
          /\ isWriteback(p.cmd) /\ answered' = answered
        BY ZenonT(60), <1>6 DEF DropCleanWriteback, isWriteback
    <2>2. QED
        BY <1>2, <1>4, <1>6, <2>1
<1>7. CASE Writeback(p) /\ ~\E m : Abort(m)
    <2> DEFINE dirty == IF p.cmd = "WritebackDirty" THEN {"Dirty"} ELSE {}
    <2>1. /\ isWriteback(p.cmd) /\ answered' = answered
          /\ \/ Cached(p.blk) /\ tags' = setBits(p.blk, bitsOf(p.blk) \cup dirty \cup {"Writable"})
             \/ /\ ~Cached(p.blk) /\ canAllocateBlock(p.blk)
                /\ tags' = allocateBlock(p.blk, {"Readable", "Writable"} \cup dirty)
        BY ZenonT(60), <1>7 DEF Writeback
    <2>2. CASE Cached(p.blk)
        <3>1. /\ bitsOf(p.blk) \cup dirty \cup {"Writable"} = bitsOf(p.blk) \cup (dirty \cup {"Writable"})
              /\ dirty \cup {"Writable"} \in SUBSET {"Writable", "Dirty"}
            OBVIOUS
        <3> HIDE DEF dirty
        <3>2. QED
            BY <1>2, <1>4, <1>7, <2>1, <2>2, <3>1
    <2>3. CASE ~Cached(p.blk)
        <3>1. /\ {"Readable", "Writable"} \cup dirty \in SUBSET Bits
              /\ Both \subseteq {"Readable", "Writable"} \cup dirty
            BY DEF Bits, Both
        <3> HIDE DEF dirty
        <3>2. TouchesOnly(p.blk) /\ \A s \in Set, w \in Way : tags[s][w].blk # p.blk
            BY ZenonT(60), <1>1, <2>1, <2>3, <3>1, AllocateTouches
        <3>3. QED
            BY ZenonT(60), <1>2, <1>7, <2>1, <3>2 DEF Marks
    <2>4. QED
        BY ZenonT(60), <2>2, <2>3
<1>8. QED
    BY ZenonT(60), <1>3, <1>5, <1>6, <1>7

LEMMA MissTakesMSHR ==
    ASSUME CacheInv, NEW p, Fresh(p), MissAllocated(p)
    PROVE  (q' = q /\ tags' = tags /\ answered' = answered) \/ Misses(p)
<1>1. CASE Cached(p.blk) \/ q.freeList = << >>
    BY ZenonT(60), <1>1 DEF MissAllocated, Abort, missVars
<1>2. CASE ~Cached(p.blk) /\ q.freeList # << >>
    <2> PICK e : e = Head(q.freeList)
        OBVIOUS
    <2> DEFINE newq == allocateEntry(q, p.blk, curTick)
    <2>1. /\ findMatch(q, p.blk) = Null /\ q' = newq /\ tags' = tags /\ answered' = answered
          /\ p.blk \in Addr
        BY ZenonT(60), <1>2 DEF MissAllocated, Fresh, CpuPacket
    <2>2. AllocatedFor(p.blk, e, newq) /\ ~newq.inService[e]
        <3>1. AllocatedFor(p.blk, e, newq)
            BY ZenonT(60), <1>2, <2>1, AllocationProps
        <3>2. QED
            BY ZenonT(60), <3>1 DEF AllocatedFor
    <2>3. \A w \in Way : tags[extractSet(p.blk)][w].blk # p.blk
        BY ZenonT(60), <1>2, <2>1, FindBlockProps
    <2>4. /\ Outstanding \subseteq Entry
          /\ \A d \in Outstanding : q.blkAddr[d] # p.blk
        BY ZenonT(60), <2>1, QInvTypes, QInvLists, FindMatchProps DEF CacheInv, MissInv, Outstanding
    <2> HIDE DEF newq
    <2>5. Outstanding' = Outstanding \cup {e} /\ q'.blkAddr[e] = p.blk
        BY ZenonT(60), <2>1, <2>2 DEF Outstanding, AllocatedFor
    <2>6. AsAllocated(e)'
        BY ZenonT(60), <2>1, <2>2, <2>3, <2>5 DEF AsAllocated
    <2>7. \A d \in Outstanding : Stays(d)
        BY ZenonT(60), <2>1, <2>2, <2>4, <2>5 DEF Stays, AllocatedFor
    <2>8. QED
        BY ZenonT(60), <2>1, <2>4, <2>5, <2>6, <2>7 DEF Misses, Allocates
<1>3. QED
    BY ZenonT(60), <1>1, <1>2

LEMMA LockTakesMSHR ==
    ASSUME CacheInv, NEW p, Fresh(p), LockedReadHit(p)
    PROVE  (q' = q /\ tags' = tags /\ answered' = answered) \/ Locks(p)
<1>1. CASE findMatch(q, p.blk) # Null \/ q.freeList = << >>
    BY ZenonT(60), <1>1 DEF LockedReadHit, Abort, missVars
<1>2. CASE findMatch(q, p.blk) = Null /\ q.freeList # << >>
    <2> PICK e : e = Head(q.freeList)
        OBVIOUS
    <2> DEFINE newq == allocateEntry(q, p.blk, curTick)
               y    == markInService(newq, e)
               B    == bitsOf(p.blk) \ {"Readable", "Writable"}
    <2>1. /\ Cached(p.blk) /\ q' = y /\ tags' = setBits(p.blk, B) /\ p.blk \in Addr
          /\ findMatch(q, p.blk) = Null
        BY ZenonT(60), <1>2 DEF LockedReadHit, Permitted, isSet, Fresh, CpuPacket
    <2>2. e = Head(q.freeList) /\ y = markInService(allocateEntry(q, p.blk, curTick), e)
        OBVIOUS
    <2>3. B \in SUBSET Bits /\ B \cap Both = {} /\ Placed(tags)
        BY ZenonT(60), <2>1, BitsOfType DEF CacheInv, TagInv, Both
    <2> HIDE DEF newq, y, B
    <2>4. AllocatedFor(p.blk, e, y) /\ y.inService[e]
        BY ZenonT(60), <1>2, <2>1, <2>2, AllocationProps, LockedEntryInService
    <2>5. \A s \in Set, w \in Way :
              /\ tags'[s][w].blk = tags[s][w].blk
              /\ tags'[s][w].bits = IF tags[s][w].blk = p.blk THEN B ELSE tags[s][w].bits
        BY <2>1, <2>3, SetBitsProps
    <2>6. TouchesOnly(p.blk)
        BY ZenonT(60), <2>5 DEF TouchesOnly
    <2>7. /\ Outstanding \subseteq Entry
          /\ \A d \in Outstanding : q.blkAddr[d] # p.blk
        BY ZenonT(60), <2>1, QInvTypes, QInvLists, FindMatchProps DEF CacheInv, MissInv, Outstanding
    <2>8. Outstanding' = Outstanding \cup {e} /\ q'.blkAddr[e] = p.blk
        BY ZenonT(60), <2>1, <2>4 DEF Outstanding, AllocatedFor
    <2>9. AsAllocated(e)'
        <3>1. /\ extractSet(p.blk) \in Set /\ findBlock(p.blk) \in Way
              /\ tags[extractSet(p.blk)][findBlock(p.blk)].blk = p.blk
            BY ZenonT(60), <2>1, AddrProps, FindBlockProps
        <3>2. /\ tags'[extractSet(p.blk)][findBlock(p.blk)].blk = p.blk
              /\ tags'[extractSet(p.blk)][findBlock(p.blk)].bits \cap Both = {}
            BY ZenonT(60), <2>3, <2>5, <3>1
        <3>3. QED
            BY ZenonT(60), <2>1, <2>4, <2>8, <3>1, <3>2 DEF AsAllocated
    <2>10. \A d \in Outstanding : Stays(d)
        BY ZenonT(60), <2>1, <2>4, <2>7, <2>8 DEF Stays, AllocatedFor
    <2>11. QED
        BY ZenonT(60), <2>1, <2>4, <2>6, <2>7, <2>8, <2>9, <2>10 DEF Locks, Allocates
<1>3. QED
    BY ZenonT(60), <1>1, <1>2

\* The five things a call of the cache may do to the MSHRs and the tags.
LEMMA CallCases ==
    ASSUME CacheInv, NEW p, Fresh(p), recvTimingReq(p)
    PROVE  \/ q' = q /\ tags' = tags
           \/ Marks(p) /\ isWriteback(p.cmd) /\ answered' = answered
           \/ Marks(p) /\ p.cmd = "WriteClean" /\ Permitted(p)
           \/ Locks(p)
           \/ Misses(p)
<1>1. CASE Hit(p) \/ DropCleanWriteback(p) \/ Writeback(p)
    BY ZenonT(60), <1>1, WritebackMarks
<1>2. CASE WriteCleanMiss(p) \/ LockedWrite(p)
    BY ZenonT(60), <1>2 DEF WriteCleanMiss, LockedWrite, Abort, missVars
<1>3. CASE LockedReadHit(p)
    BY ZenonT(60), <1>3, LockTakesMSHR
<1>4. CASE MissCoalesced(p)
    BY ZenonT(60), <1>4 DEF MissCoalesced
<1>5. CASE MissAllocated(p)
    BY ZenonT(60), <1>5, MissTakesMSHR
<1>6. QED
    BY ZenonT(60), <1>1, <1>2, <1>3, <1>4, <1>5 DEF recvTimingReq

\* The response of MSHR e is taken.
Serves(e) ==
    /\ MissFails(e) = "none" /\ Respond(ServicedTargets(e))
    /\ TouchesOnly(q.blkAddr[e]) /\ Outstanding' = Outstanding \ {e}
    /\ \A d \in Outstanding' : Stays(d) /\ q.blkAddr[d] # q.blkAddr[e]

\* The two things a round of the memory side may do to them.
LEMMA SendCases ==
    ASSUME CacheInv, processSendEvent \/ retry
    PROVE  \/ q' = q /\ tags' = tags /\ answered' = answered
           \/ \E e \in Range(q.readyList) : Serves(e)
<1> DEFINE e == getNext(q)
           b == q.blkAddr[e]
<1>1. CASE e # Null /\ MissFails(e) = "none" /\ SendMSHR(e)
    <2>1. e \in Range(q.readyList)
        BY ZenonT(60), <1>1, NextEntry
    <2> HIDE DEF e
    <2>2. e \in Entry /\ e \in Outstanding
        BY ZenonT(60), <2>1, ReadyEntry
    <2>3. q' = deallocateEntry(q, e) /\ handleFill(e) /\ Respond(ServicedTargets(e))
        BY ZenonT(60), <1>1 DEF SendMSHR, recvTimingResp
    <2>4. /\ QInv(q) /\ q \in QueueType /\ q.inService \in [Entry -> BOOLEAN]
          /\ q.blkAddr \in [Entry -> Addr] /\ Outstanding \subseteq Entry
        BY ZenonT(60), QInvTypes, QInvLists DEF CacheInv, MissInv, Outstanding
    <2>5. /\ Range(q'.allocatedList) = Outstanding \ {e}
          /\ q'.inService = [q.inService EXCEPT ![e] = FALSE] /\ q'.blkAddr = q.blkAddr
        BY ZenonT(60), <2>2, <2>3, <2>4, DeallocateEntryProps, DeallocateEntryFields DEF Outstanding
    <2>6. /\ Outstanding' = Outstanding \ {e}
          /\ \A d \in Outstanding' : Stays(d) /\ q.blkAddr[d] # q.blkAddr[e]
        <3>1. \A d \in Outstanding : q.blkAddr[d] = q.blkAddr[e] => d = e
            BY ZenonT(60), <2>2 DEF CacheInv, MissInv, OneMSHRPerBlock
        <3>2. Outstanding' = Outstanding \ {e}
            BY ZenonT(60), <2>5 DEF Outstanding
        <3>3. \A d \in Outstanding' : d \in Outstanding /\ d # e /\ q'.inService[d] = q.inService[d]
            BY ZenonT(60), <2>4, <2>5, <3>2
        <3>4. QED
            BY ZenonT(60), <2>5, <3>1, <3>2, <3>3 DEF Stays
    <2>7. b \in Addr /\ ~Cached(b) /\ (allocOnFillOf(e) => canAllocateBlock(b))
        BY ZenonT(60), <1>1, <2>2, <2>4, MissFailsProps
    <2> HIDE DEF b
    <2>8. TouchesOnly(b)
        <3>1. CASE allocOnFillOf(e)
            <4>1. tags' = allocateBlock(b, Both) /\ Both \in SUBSET Bits
                BY <2>3, <3>1 DEF handleFill, Both, Bits, b
            <4>2. QED
                BY ZenonT(60), <2>7, <3>1, <4>1, AllocateTouches
        <3>2. CASE ~allocOnFillOf(e)
            BY ZenonT(60), <2>3, <3>2 DEF handleFill, TouchesOnly
        <3>3. QED
            BY ZenonT(60), <3>1, <3>2
    <2>9. Serves(e)
        BY ZenonT(60), <1>1, <2>3, <2>6, <2>8 DEF Serves, b
    <2>10. QED
        BY ZenonT(60), <2>1, <2>9
<1>2. QED
    BY ZenonT(60), <1>1 DEF processSendEvent, retry, SendMSHR, Abort, missVars

===============================================================================
