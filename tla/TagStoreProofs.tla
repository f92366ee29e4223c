-------------------------- MODULE TagStoreProofs --------------------------
(***************************************************************************)
(* The tag store keeps its lines, its replacement state and its load locks *)
(* consistent, and implements the store of lines, for every number of      *)
(* sets, ways and bytes of a block and every set of lines and accesses.    *)
(***************************************************************************)
EXTENDS TagStore, WellFoundedInduction, TLAPS

-----------------------------------------------------------------------------
(* The indexing policy.                                                    *)

\* Division by a positive number, for a number given as quotient and remainder.
LEMMA Division ==
  \A q \in Nat, n \in Nat \ {0}, s \in Nat :
     s < n => (q * n + s) \div n = q /\ (q * n + s) % n = s
  BY SMTT(30)

\* Every number has a quotient and a remainder.
LEMMA Euclid ==
  \A a \in Nat, n \in Nat \ {0} :
     a \div n \in Nat /\ a % n \in 0 .. n - 1 /\ a = (a \div n) * n + (a % n)
  BY SMTT(30)

\* The block number of an address of the block at a tag and a set.
LEMMA BlockNumber ==
  ASSUME NEW tag \in Nat, NEW set \in 0 .. numSets - 1, NEW a \in Nat,
         regenerateAddr(tag, set) <= a, a < regenerateAddr(tag, set) + blkSize
  PROVE  a \div blkSize = tag * numSets + set
<1> DEFINE q == tag * numSets + set
           s == a - q * blkSize
<1>1. q \in Nat /\ q * blkSize \in Nat
  BY GeometryAssumption
<1>2. s \in Nat /\ s < blkSize /\ a = q * blkSize + s
  BY <1>1, GeometryAssumption DEF regenerateAddr
<1> HIDE DEF q, s
<1>3. (q * blkSize + s) \div blkSize = q
  BY ZenonT(60), <1>1, <1>2, GeometryAssumption, Division
<1> QED
  BY <1>2, <1>3 DEF q

\* An address of the block at a tag and a set has that tag and that set.
LEMMA TagAndSet ==
  ASSUME NEW tag \in Nat, NEW set \in 0 .. numSets - 1, NEW a \in Nat,
         regenerateAddr(tag, set) <= a, a < regenerateAddr(tag, set) + blkSize
  PROVE  extractTag(a) = tag /\ extractSet(a) = set
<1>1. a \div blkSize = tag * numSets + set
  BY BlockNumber
<1>2. set \in Nat /\ set < numSets /\ numSets \in Nat \ {0}
  BY GeometryAssumption
<1>3. (tag * numSets + set) \div numSets = tag /\ (tag * numSets + set) % numSets = set
  BY ZenonT(60), <1>2, Division
<1> QED
  BY <1>1, <1>3 DEF extractTag, extractSet

\* The first address of the block at a tag and a set.
LEMMA Regenerate ==
  ASSUME NEW tag \in Nat, NEW set \in 0 .. numSets - 1
  PROVE  /\ regenerateAddr(tag, set) \in Nat
         /\ extractTag(regenerateAddr(tag, set)) = tag
         /\ extractSet(regenerateAddr(tag, set)) = set
<1>1. regenerateAddr(tag, set) \in Nat
  BY GeometryAssumption DEF regenerateAddr
<1>2. regenerateAddr(tag, set) < regenerateAddr(tag, set) + blkSize
  BY <1>1, GeometryAssumption
<1>3. regenerateAddr(tag, set) <= regenerateAddr(tag, set)
  BY <1>1
<1> QED
  BY <1>1, <1>2, <1>3, TagAndSet

\* The tag and the set of an address are those of its block.
LEMMA Extract ==
  ASSUME NEW a \in Nat
  PROVE  /\ extractTag(a) \in Nat
         /\ extractSet(a) \in 0 .. numSets - 1
         /\ regenerateAddr(extractTag(a), extractSet(a)) = (a \div blkSize) * blkSize
<1>1. a \div blkSize \in Nat
  BY Euclid, GeometryAssumption
<1>2. /\ extractTag(a) \in Nat
      /\ extractSet(a) \in 0 .. numSets - 1
      /\ a \div blkSize = extractTag(a) * numSets + extractSet(a)
  BY <1>1, Euclid, GeometryAssumption DEF extractTag, extractSet
<1> QED
  BY <1>2 DEF regenerateAddr

\* A line is the block at its tag and set.
LEMMA LineAddress ==
  ASSUME NEW l \in Lines
  PROVE  /\ l.addr \in Nat /\ l.secure \in BOOLEAN
         /\ l = [addr |-> l.addr, secure |-> l.secure]
         /\ regenerateAddr(extractTag(l.addr), extractSet(l.addr)) = l.addr
<1>1. l \in [addr : Nat, secure : BOOLEAN] /\ l.addr % blkSize = 0
  BY RequestAssumption
<1>2. l.addr \in Nat /\ l.secure \in BOOLEAN /\ l = [addr |-> l.addr, secure |-> l.secure]
  BY <1>1
<1>3. l.addr = (l.addr \div blkSize) * blkSize + (l.addr % blkSize)
  BY <1>2, Euclid, GeometryAssumption
<1>4. l.addr \div blkSize \in Nat
  BY <1>2, Euclid, GeometryAssumption
<1>5. l.addr = (l.addr \div blkSize) * blkSize
  BY <1>1, <1>3, <1>4, GeometryAssumption
<1> QED
  BY <1>2, <1>5, Extract

\* An access lies within the block at its tag and set.
LEMMA RequestWithin ==
  ASSUME NEW r \in Requests
  PROVE  /\ r.addr \in Nat /\ r.size \in Nat \ {0} /\ r.secure \in BOOLEAN
         /\ extractTag(r.addr) \in Nat /\ extractSet(r.addr) \in 0 .. numSets - 1
         /\ regenerateAddr(extractTag(r.addr), extractSet(r.addr)) <= r.addr
         /\ r.addr + r.size - 1 < regenerateAddr(extractTag(r.addr), extractSet(r.addr)) + blkSize
<1> DEFINE q == r.addr \div blkSize
           high == r.addr + r.size - 1
<1>1. /\ r.addr \in Nat /\ r.size \in Nat \ {0} /\ r.secure \in BOOLEAN
      /\ q = high \div blkSize
  BY RequestAssumption
<1>2. high \in Nat
  BY <1>1
<1>3. /\ q \in Nat /\ r.addr = q * blkSize + (r.addr % blkSize)
      /\ r.addr % blkSize \in 0 .. blkSize - 1
  BY ZenonT(60), <1>1, Euclid, GeometryAssumption
<1>4. /\ high = q * blkSize + (high % blkSize)
      /\ high % blkSize \in 0 .. blkSize - 1
  BY ZenonT(60), <1>1, <1>2, Euclid, GeometryAssumption
<1>5. /\ extractTag(r.addr) \in Nat /\ extractSet(r.addr) \in 0 .. numSets - 1
      /\ regenerateAddr(extractTag(r.addr), extractSet(r.addr)) = q * blkSize
  BY <1>1, Extract
<1> HIDE DEF q, high
<1>6. q * blkSize <= r.addr /\ high < q * blkSize + blkSize
  BY <1>1, <1>2, <1>3, <1>4, GeometryAssumption
<1> QED
  BY <1>1, <1>5, <1>6 DEF high

-----------------------------------------------------------------------------
(* The inductive invariant.                                                *)

\* The tag of a valid block is one an address has, and its line is one of Lines.
LinesKnown ==
  \A e \in Entry : blks[e].valid => blks[e].tag \in Nat /\ lineOf(e) \in Lines

\* No two blocks of a set hold the same tag of the same memory space.
TagsUnique ==
  \A e, f \in Entry :
     /\ blks[e].valid /\ blks[f].valid
     /\ e[1] = f[1] /\ blks[e].tag = blks[f].tag /\ blks[e].secure = blks[f].secure
     => e = f

IInv == /\ TypeOK /\ FreeBlocksBlank /\ FillFailsOnlyWhenFull
        /\ LinesKnown /\ TagsUnique /\ LocksDisjoint

\* An entry is a set and a way.
LEMMA EntryProps ==
  ASSUME NEW e \in Entry
  PROVE  /\ e[1] \in 0 .. numSets - 1 /\ e[2] \in 0 .. assoc - 1 /\ e = <<e[1], e[2]>>
         /\ e # NoEntry
<1>1. e[1] \in 0 .. numSets - 1 /\ e[2] \in 0 .. assoc - 1 /\ e = <<e[1], e[2]>>
  BY DEF Entry
<1>2. e[1] # -1
  BY <1>1, GeometryAssumption
<1> QED
  BY <1>1, <1>2 DEF NoEntry

\* A block that matches an address is the only one.
LEMMA HitUnique ==
  ASSUME IInv, NEW a \in Nat, NEW secure \in BOOLEAN, NEW e \in Hits(a, secure)
  PROVE  /\ e \in Entry /\ Hits(a, secure) = {e} /\ findBlock(a, secure) = e
         /\ blks[e].valid /\ blks[e].tag = extractTag(a) /\ blks[e].secure = secure
         /\ e[1] = extractSet(a)
<1>1. \A f \in Hits(a, secure) :
        /\ f \in Entry /\ blks[f].valid /\ blks[f].tag = extractTag(a)
        /\ blks[f].secure = secure /\ f[1] = extractSet(a)
  BY DEF Hits, getPossibleEntries, matchTag
<1>2. \A f \in Hits(a, secure) : f = e
  BY <1>1 DEF IInv, TagsUnique
<1>3. Hits(a, secure) = {e}
  BY <1>2
<1>4. First({e}) = e
  <2>1. e[2] <= e[2]
    BY <1>1, EntryProps
  <2> QED
    BY <2>1 DEF First
<1>5. findBlock(a, secure) = e
  BY <1>3, <1>4 DEF findBlock
<1> QED
  BY <1>1, <1>3, <1>5

\* The block an access finds is at its tag and set.
LEMMA BlockProps ==
  ASSUME IInv, NEW r \in Requests, Block(r) # NoEntry
  PROVE  /\ Block(r) \in Entry /\ blks[Block(r)].valid
         /\ blks[Block(r)].secure = r.secure
         /\ blks[Block(r)].tag = extractTag(r.addr) /\ Block(r)[1] = extractSet(r.addr)
         /\ regenerateBlkAddr(Block(r)) <= r.addr
         /\ r.addr + r.size - 1 < regenerateBlkAddr(Block(r)) + blkSize
<1>1. r.addr \in Nat /\ r.secure \in BOOLEAN
  BY RequestWithin
<1>2. Hits(r.addr, r.secure) # {}
  BY DEF Block, findBlock
<1>3. PICK e \in Hits(r.addr, r.secure) : TRUE
  BY <1>2
<1>4. /\ e \in Entry /\ findBlock(r.addr, r.secure) = e
      /\ blks[e].valid /\ blks[e].tag = extractTag(r.addr) /\ blks[e].secure = r.secure
      /\ e[1] = extractSet(r.addr)
  BY <1>1, <1>3, HitUnique
<1>5. Block(r) = e
  BY <1>4 DEF Block
<1>6. regenerateBlkAddr(e) = regenerateAddr(extractTag(r.addr), extractSet(r.addr))
  BY <1>4 DEF regenerateBlkAddr
<1> QED
  BY <1>4, <1>5, <1>6, RequestWithin

\* A valid block is found at its regenerated address.
LEMMA FoundAgain ==
  ASSUME IInv
  PROVE  RegeneratedAddressFindsBlock
<1> SUFFICES ASSUME NEW e \in Entry, blks[e].valid
             PROVE  Hits(regenerateBlkAddr(e), blks[e].secure) = {e} /\ lineOf(e) \in Lines
  BY DEF RegeneratedAddressFindsBlock, lineOf
<1>1. blks[e].tag \in Nat /\ lineOf(e) \in Lines /\ blks[e].secure \in BOOLEAN
  BY ZenonT(60) DEF IInv, LinesKnown, TypeOK
<1>2. /\ regenerateBlkAddr(e) \in Nat
      /\ extractTag(regenerateBlkAddr(e)) = blks[e].tag
      /\ extractSet(regenerateBlkAddr(e)) = e[1]
  BY <1>1, EntryProps, Regenerate DEF regenerateBlkAddr
<1>3. e \in Hits(regenerateBlkAddr(e), blks[e].secure)
  BY <1>2 DEF Hits, getPossibleEntries, matchTag
<1> QED
  BY <1>1, <1>2, <1>3, HitUnique

\* A nonempty set of entries has a first one.
LEMMA FirstProps ==
  ASSUME NEW S \in SUBSET Entry, S # {}
  PROVE  First(S) \in S
<1> DEFINE W == {e[2] : e \in S}
<1>1. W \subseteq Nat /\ W # {}
  BY EntryProps
<1> HIDE DEF W
<1>2. PICK w \in W : \A v \in W : w <= v
  <2>1. PICK w \in W : \A v \in W : ~(<<v, w>> \in OpToRel(<, Nat))
    BY ZenonT(60), <1>1, NatLessThanWellFounded, WFMin
  <2>2. ASSUME NEW v \in W PROVE ~(v < w)
    <3>1. v \in Nat /\ w \in Nat
      BY <1>1
    <3> QED
      BY ZenonT(60), <2>1, <2>2, <3>1 DEF OpToRel
  <2> QED
    BY <1>1, <2>2
<1>3. PICK e \in S : e[2] = w
  BY <1>2 DEF W
<1>4. \A f \in S : e[2] <= f[2]
  BY <1>2, <1>3 DEF W
<1> QED
  BY <1>3, <1>4 DEF First

-----------------------------------------------------------------------------
(* The load locks of one block.                                            *)

\* What LocksDisjoint says of the locks K of the block at address base.
Good(base, K) ==
  \A j, k \in K :
     /\ j.low <= j.high
     /\ base <= j.low /\ j.high < base + blkSize
     /\ j # k => j.high < k.low \/ k.high < j.low

\* Fewer locks are still disjoint.
LEMMA FewerGood ==
  ASSUME NEW base, NEW K, Good(base, K), NEW J \in SUBSET K
  PROVE  Good(base, J)
  BY DEF Good

\* A load-locked access leaves the locks disjoint.
LEMMA TrackGood ==
  ASSUME NEW base \in Nat, NEW K \in SUBSET LockType, Good(base, K), NEW r \in Requests,
         base <= r.addr, r.addr + r.size - 1 < base + blkSize
  PROVE  trackLoadLocked(K, r) \in SUBSET LockType /\ Good(base, trackLoadLocked(K, r))
<1>1. r.addr \in Nat /\ r.size \in Nat \ {0}
  BY RequestWithin
<1>2. /\ Lock(r).low = r.addr /\ Lock(r).high = r.addr + r.size - 1
      /\ Lock(r) \in LockType
  BY <1>1 DEF Lock, LockType
<1>3. \A k \in K : k.low \in Nat /\ k.high \in Nat
  BY DEF LockType
<1>4. ASSUME NEW k \in K, ~intersects(k, r)
      PROVE  Lock(r).high < k.low \/ k.high < Lock(r).low
  BY <1>1, <1>2, <1>3, <1>4 DEF intersects
<1> HIDE DEF Lock
<1>5. ASSUME NEW j \in trackLoadLocked(K, r), NEW k \in trackLoadLocked(K, r)
      PROVE  /\ j.low <= j.high
             /\ base <= j.low /\ j.high < base + blkSize
             /\ j # k => j.high < k.low \/ k.high < j.low
  <2>1. j = Lock(r) \/ (j \in K /\ ~intersects(j, r))
    BY <1>5 DEF trackLoadLocked
  <2>2. k = Lock(r) \/ (k \in K /\ ~intersects(k, r))
    BY <1>5 DEF trackLoadLocked
  <2>3. /\ j.low <= j.high
        /\ base <= j.low /\ j.high < base + blkSize
    BY <2>1, <1>1, <1>2 DEF Good
  <2>4. j # k => j.high < k.low \/ k.high < j.low
    BY <2>1, <2>2, <1>4 DEF Good
  <2> QED
    BY <2>3, <2>4
<1>6. trackLoadLocked(K, r) \in SUBSET LockType
  BY <1>2 DEF trackLoadLocked
<1> QED
  BY <1>5, <1>6 DEF Good

\* LocksDisjoint, block by block.
LEMMA LocksGood ==
  LocksDisjoint <=> \A e \in Entry : Good(regenerateBlkAddr(e), blks[e].lockList)
  BY DEF LocksDisjoint, Good

-----------------------------------------------------------------------------
(* The steps.                                                              *)

\* The replacement state starts with nothing valid.
LEMMA InitIInv == Init => IInv
<1> SUFFICES ASSUME Init PROVE IInv
  OBVIOUS
<1>1. \A e \in Entry : blks[e] = Invalidated /\ blks[e].valid = FALSE /\ blks[e].lockList = {}
  BY DEF Init, Invalidated
<1>2. TypeOK
  BY DEF TypeOK, Init, Invalidated
<1>3. FillFailsOnlyWhenFull
  BY ZenonT(60), <1>1 DEF Init, FillFailsOnlyWhenFull
<1>4. FreeBlocksBlank /\ LinesKnown /\ TagsUnique /\ LocksDisjoint
  BY <1>1 DEF FreeBlocksBlank, LinesKnown, TagsUnique, LocksDisjoint
<1> QED
  BY <1>2, <1>3, <1>4 DEF IInv

\* The last access is one of Requests.
LastOK == /\ last.op \in {"none", "LoadLocked", "Store", "StoreConditional"}
          /\ last.op # "none" => last.req \in Requests /\ last.granted \in BOOLEAN

\* A step that changes the dirty bit and the locks of one valid block.
LEMMA SameLineStep ==
  ASSUME IInv, Running, NEW e \in Entry, blks[e].valid,
         NEW d \in BOOLEAN, NEW K \in SUBSET LockType, Good(regenerateBlkAddr(e), K),
         blks' = [blks EXCEPT ![e] = [valid |-> TRUE, tag |-> blks[e].tag,
                                      secure |-> blks[e].secure, dirty |-> d, lockList |-> K]],
         UNCHANGED <<replValid, failed>>, LastOK'
  PROVE  IInv'
<1> DEFINE b == [valid |-> TRUE, tag |-> blks[e].tag, secure |-> blks[e].secure,
                 dirty |-> d, lockList |-> K]
<1>0. blks \in [Entry -> [valid : BOOLEAN, tag : Nat \union {-1}, secure : BOOLEAN,
                         dirty : BOOLEAN, lockList : SUBSET LockType]]
  BY ZenonT(60) DEF IInv, TypeOK
<1>1. b \in [valid : BOOLEAN, tag : Nat \union {-1}, secure : BOOLEAN,
             dirty : BOOLEAN, lockList : SUBSET LockType]
  BY <1>0
<1>2. \A f \in Entry : /\ blks'[f].valid = blks[f].valid /\ blks'[f].tag = blks[f].tag
                       /\ blks'[f].secure = blks[f].secure
                       /\ f # e => blks'[f] = blks[f]
  BY ZenonT(60), <1>0
<1>3. blks'[e].lockList = K /\ blks'[e].valid
  BY <1>0
<1>4. TypeOK'
  BY ZenonT(60), <1>0, <1>1 DEF IInv, TypeOK, LastOK
<1>5. FreeBlocksBlank'
  BY <1>2 DEF IInv, FreeBlocksBlank, isFree
<1>6. FillFailsOnlyWhenFull'
  BY ZenonT(60), <1>2 DEF IInv, FillFailsOnlyWhenFull, Running
<1>7. \A f \in Entry : regenerateBlkAddr(f)' = regenerateBlkAddr(f) /\ lineOf(f)' = lineOf(f)
  BY <1>2 DEF regenerateBlkAddr, lineOf
<1>8. LinesKnown'
  BY <1>2, <1>7 DEF IInv, LinesKnown
<1>9. TagsUnique'
  BY <1>2 DEF IInv, TagsUnique
<1>10. ASSUME NEW f \in Entry
       PROVE  Good(regenerateBlkAddr(f)', blks'[f].lockList)
  BY <1>2, <1>3, <1>7, LocksGood DEF IInv
<1>11. LocksDisjoint'
  BY <1>10 DEF LocksDisjoint, Good
<1> QED
  BY <1>4, <1>5, <1>6, <1>8, <1>9, <1>11 DEF IInv

\* A step that puts a line into a free block, or clears a block, leaving every
\* other block alone.
LEMMA OneBlockStep ==
  ASSUME IInv, Running, NEW e \in Entry,
         NEW b \in [valid : BOOLEAN, tag : Nat \union {-1}, secure : BOOLEAN,
                    dirty : BOOLEAN, lockList : SUBSET LockType],
         blks' = [blks EXCEPT ![e] = b],
         replValid' = [replValid EXCEPT ![e] = b.valid],
         UNCHANGED <<last, failed>>,
         ~b.valid => b = Invalidated,
         b.lockList = {},
         b.valid => /\ b.tag \in Nat
                    /\ [addr |-> regenerateAddr(b.tag, e[1]), secure |-> b.secure] \in Lines
                    /\ \A f \in Entry : ~(/\ f[1] = e[1] /\ blks[f].valid
                                          /\ blks[f].tag = b.tag /\ blks[f].secure = b.secure)
  PROVE  IInv'
<1>0. blks \in [Entry -> [valid : BOOLEAN, tag : Nat \union {-1}, secure : BOOLEAN,
                         dirty : BOOLEAN, lockList : SUBSET LockType]]
      /\ replValid \in [Entry -> BOOLEAN]
  BY ZenonT(60) DEF IInv, TypeOK
<1>1. blks'[e] = b /\ replValid'[e] = b.valid
  BY <1>0
<1>2. \A f \in Entry : f # e => blks'[f] = blks[f] /\ replValid'[f] = replValid[f]
  BY <1>0
<1>3. b.valid \in BOOLEAN
  OBVIOUS
<1>4. TypeOK'
  BY ZenonT(60), <1>0, <1>3 DEF IInv, TypeOK
<1>5. FreeBlocksBlank'
  BY <1>1, <1>2 DEF IInv, FreeBlocksBlank, isFree
<1>6. FillFailsOnlyWhenFull'
  <2>1. failed' = "none"
    BY DEF Running
  <2>2. \A f \in Entry : replValid'[f] = blks'[f].valid
    BY ZenonT(60), <1>1, <1>2 DEF IInv, FillFailsOnlyWhenFull
  <2> QED
    BY <2>1, <2>2 DEF FillFailsOnlyWhenFull
<1>7. \A f \in Entry : f # e => regenerateBlkAddr(f)' = regenerateBlkAddr(f) /\ lineOf(f)' = lineOf(f)
  BY <1>2 DEF regenerateBlkAddr, lineOf
<1>8. LinesKnown'
  <2>1. lineOf(e)' = [addr |-> regenerateAddr(b.tag, e[1]), secure |-> b.secure]
    BY <1>1 DEF regenerateBlkAddr, lineOf
  <2> QED
    BY <1>1, <1>2, <1>7, <2>1 DEF IInv, LinesKnown
<1>9. TagsUnique'
  BY <1>1, <1>2 DEF IInv, TagsUnique
<1>10. ASSUME NEW f \in Entry, NEW k \in blks'[f].lockList
       PROVE  f # e
  BY <1>1, <1>10
<1>11. ASSUME NEW f \in Entry
       PROVE  Good(regenerateBlkAddr(f)', blks'[f].lockList)
  <2>1. CASE f = e
    BY <1>1, <2>1 DEF Good
  <2>2. CASE f # e
    BY <1>2, <1>7, <2>2, LocksGood DEF IInv
  <2> QED
    BY <2>1, <2>2
<1>12. LocksDisjoint'
  BY <1>11 DEF LocksDisjoint, Good
<1> QED
  BY <1>4, <1>5, <1>6, <1>8, <1>9, <1>12 DEF IInv

\* allocateBlock preserves the invariant.  A victim that is not free was chosen
\* because no block of the set is marked free.
LEMMA AllocateStep ==
  ASSUME IInv, NEW l \in Lines, allocateBlock(l)
  PROVE  IInv'
<1> DEFINE S == getPossibleEntries(l.addr)
           t == extractTag(l.addr)
<1>1. /\ l.addr \in Nat /\ l.secure \in BOOLEAN /\ l = [addr |-> l.addr, secure |-> l.secure]
      /\ regenerateAddr(t, extractSet(l.addr)) = l.addr
      /\ t \in Nat /\ extractSet(l.addr) \in 0 .. numSets - 1
  BY LineAddress, Extract
<1>2. Hits(l.addr, l.secure) = {}
  <2>1. SUFFICES ASSUME NEW e \in Hits(l.addr, l.secure) PROVE FALSE
    OBVIOUS
  <2>2. findBlock(l.addr, l.secure) = e /\ e \in Entry
    BY <1>1, HitUnique
  <2> QED
    BY ZenonT(60), <2>2, EntryProps DEF allocateBlock
<1>3. \A f \in Entry : ~(/\ f[1] = extractSet(l.addr) /\ blks[f].valid
                         /\ blks[f].tag = t /\ blks[f].secure = l.secure)
  BY <1>2 DEF Hits, getPossibleEntries, matchTag
<1>4. PICK e \in findVictim(l.addr) :
         IF isFree(blks[e])
           THEN /\ blks' = [blks EXCEPT ![e] = insert(blks[e], t, l.secure)]
                /\ replValid' = [replValid EXCEPT ![e] = TRUE]
                /\ UNCHANGED failed
           ELSE failed' = "insertBlock: !blk->isValid()" /\ UNCHANGED <<blks, replValid>>
  BY ZenonT(60) DEF allocateBlock
<1>5. S \subseteq Entry /\ \A f \in S : f[1] = extractSet(l.addr)
  BY DEF getPossibleEntries
<1>6. e \in S /\ (replValid[e] => \A f \in S : replValid[f])
  <2> DEFINE free == {f \in S : ~replValid[f]}
  <2>1. CASE free = {}
    BY ZenonT(60), <2>1, <1>4 DEF findVictim, getVictim
  <2>2. CASE free # {}
    <3>1. First(free) \in free
      BY <2>2, <1>5, FirstProps
    <3> QED
      BY ZenonT(60), <2>2, <3>1, <1>4 DEF findVictim, getVictim
  <2> QED
    BY <2>1, <2>2
<1>7. e \in Entry /\ e[1] = extractSet(l.addr)
  BY <1>5, <1>6
<1>8. CASE isFree(blks[e])
  <2>1. blks[e] = Invalidated
    BY <1>7, <1>8 DEF IInv, FreeBlocksBlank
  <2> DEFINE b == [valid |-> TRUE, tag |-> t, secure |-> l.secure, dirty |-> FALSE, lockList |-> {}]
  <2>2. insert(blks[e], t, l.secure) = b
    <3>1. /\ blks[e].secure = FALSE /\ blks[e].dirty = FALSE /\ blks[e].lockList = {}
      BY <2>1 DEF Invalidated
    <3>2. (blks[e].secure \/ l.secure) = l.secure
      BY ZenonT(60), <3>1, <1>1
    <3> QED
      BY ZenonT(60), <3>1, <3>2 DEF insert
  <2>3. b \in [valid : BOOLEAN, tag : Nat \union {-1}, secure : BOOLEAN,
               dirty : BOOLEAN, lockList : SUBSET LockType]
    BY <1>1
  <2>4. /\ b.valid = TRUE /\ b.tag = t /\ b.secure = l.secure /\ b.lockList = {}
    OBVIOUS
  <2>5. blks' = [blks EXCEPT ![e] = b] /\ replValid' = [replValid EXCEPT ![e] = b.valid]
    BY <1>4, <1>8, <2>2
  <2>6. [addr |-> regenerateAddr(b.tag, e[1]), secure |-> b.secure] \in Lines
    BY <1>1, <1>7, <2>4
  <2>7. Running /\ UNCHANGED <<last, failed>>
    BY ZenonT(60), <1>4, <1>8 DEF allocateBlock
  <2> HIDE DEF b, t
  <2> QED
    BY ZenonT(60), <1>1, <1>3, <1>7, <2>3, <2>4, <2>5, <2>6, <2>7, OneBlockStep
<1>9. CASE ~isFree(blks[e])
  <2>1. failed' = "insertBlock: !blk->isValid()" /\ UNCHANGED <<blks, replValid, last>>
    BY ZenonT(60), <1>4, <1>9 DEF allocateBlock
  <2>2. \A w \in 0 .. assoc - 1 : blks[<<extractSet(l.addr), w>>].valid
    <3>1. replValid[e]
      BY ZenonT(60), <1>7, <1>9 DEF isFree, IInv, FillFailsOnlyWhenFull
    <3>2. ASSUME NEW w \in 0 .. assoc - 1
          PROVE  <<extractSet(l.addr), w>> \in S
      BY <1>1 DEF getPossibleEntries, Entry
    <3> QED
      BY ZenonT(60), <1>5, <1>6, <3>1, <3>2 DEF IInv, FillFailsOnlyWhenFull
  <2>3. FillFailsOnlyWhenFull'
    BY ZenonT(60), <1>1, <2>1, <2>2 DEF IInv, FillFailsOnlyWhenFull
  <2>4. TypeOK' /\ FreeBlocksBlank'
    BY ZenonT(60), <2>1 DEF IInv, TypeOK, FreeBlocksBlank
  <2>5. LinesKnown' /\ TagsUnique' /\ LocksDisjoint'
    BY ZenonT(60), <2>1 DEF IInv, LinesKnown, TagsUnique, LocksDisjoint, lineOf, regenerateBlkAddr
  <2> QED
    BY <2>3, <2>4, <2>5 DEF IInv
<1> QED
  BY <1>8, <1>9

\* Invalidating a block preserves the invariant.
LEMMA InvalidateStep ==
  ASSUME IInv, NEW e \in Entry, invalidate(e)
  PROVE  IInv'
<1>1. /\ Invalidated \in [valid : BOOLEAN, tag : Nat \union {-1}, secure : BOOLEAN,
                          dirty : BOOLEAN, lockList : SUBSET LockType]
      /\ Invalidated.valid = FALSE /\ Invalidated.lockList = {}
  BY DEF Invalidated
<1>2. /\ Running /\ blks' = [blks EXCEPT ![e] = Invalidated]
      /\ replValid' = [replValid EXCEPT ![e] = Invalidated.valid]
      /\ UNCHANGED <<last, failed>>
  BY ZenonT(60), <1>1 DEF invalidate, invalidated
<1> QED
  BY ZenonT(60), <1>1, <1>2, OneBlockStep

\* What moving a block does to the two blocks.
LEMMA MoveProps ==
  ASSUME IInv, NEW src \in Entry, NEW dest \in Entry, moveBlock(src, dest)
  PROVE  /\ src # dest /\ src[1] = dest[1] /\ blks[src].valid /\ blks[dest] = Invalidated
         /\ blks'[dest] = blks[src] /\ blks'[src] = Invalidated
         /\ replValid'[dest] = TRUE /\ replValid'[src] = FALSE
         /\ \A f \in Entry \ {src, dest} : blks'[f] = blks[f] /\ replValid'[f] = replValid[f]
<1>0. blks \in [Entry -> [valid : BOOLEAN, tag : Nat \union {-1}, secure : BOOLEAN,
                         dirty : BOOLEAN, lockList : SUBSET LockType]]
      /\ replValid \in [Entry -> BOOLEAN]
  BY ZenonT(60) DEF IInv, TypeOK
<1>1. src # dest /\ src[1] = dest[1] /\ blks[src].valid /\ blks[dest] = Invalidated
  BY DEF moveBlock, isFree, IInv, FreeBlocksBlank
<1>2. moved(blks[dest], blks[src]) = blks[src]
  <2>1. blks[dest].secure = FALSE /\ blks[dest].dirty = FALSE
    BY <1>1 DEF Invalidated
  <2>2. blks[src].secure \in BOOLEAN /\ blks[src].dirty \in BOOLEAN /\ blks[src].valid = TRUE
    BY <1>0, <1>1
  <2>3. /\ (blks[dest].secure \/ blks[src].secure) = blks[src].secure
        /\ (blks[dest].dirty \/ blks[src].dirty) = blks[src].dirty
    BY ZenonT(60), <2>1, <2>2
  <2>4. blks[src] = [valid |-> blks[src].valid, tag |-> blks[src].tag,
                     secure |-> blks[src].secure, dirty |-> blks[src].dirty,
                     lockList |-> blks[src].lockList]
    BY <1>0
  <2> QED
    BY ZenonT(60), <2>2, <2>3, <2>4 DEF moved
<1>3. /\ blks' = [blks EXCEPT ![dest] = blks[src], ![src] = Invalidated]
      /\ replValid' = [replValid EXCEPT ![src] = FALSE, ![dest] = TRUE]
  BY ZenonT(60), <1>2 DEF moveBlock
<1> QED
  BY ZenonT(60), <1>0, <1>1, <1>3

\* Moving a block preserves the invariant.
LEMMA MoveStep ==
  ASSUME IInv, NEW src \in Entry, NEW dest \in Entry, moveBlock(src, dest)
  PROVE  IInv'
<1>0. /\ blks \in [Entry -> [valid : BOOLEAN, tag : Nat \union {-1}, secure : BOOLEAN,
                            dirty : BOOLEAN, lockList : SUBSET LockType]]
      /\ replValid \in [Entry -> BOOLEAN]
      /\ Invalidated \in [valid : BOOLEAN, tag : Nat \union {-1}, secure : BOOLEAN,
                          dirty : BOOLEAN, lockList : SUBSET LockType]
      /\ Invalidated.valid = FALSE /\ Invalidated.lockList = {}
  BY ZenonT(60) DEF IInv, TypeOK, Invalidated
<1>1. /\ src # dest /\ src[1] = dest[1] /\ blks[src].valid /\ blks[dest] = Invalidated
      /\ blks'[dest] = blks[src] /\ blks'[src] = Invalidated
      /\ replValid'[dest] = TRUE /\ replValid'[src] = FALSE
      /\ \A f \in Entry \ {src, dest} : blks'[f] = blks[f] /\ replValid'[f] = replValid[f]
  BY ZenonT(60), MoveProps
<1>2. UNCHANGED <<last, failed>> /\ failed = "none"
  BY DEF moveBlock, Running
<1>3. TypeOK'
  <2>1. /\ blks' = [blks EXCEPT ![dest] = moved(blks[dest], blks[src]), ![src] = Invalidated]
        /\ replValid' = [replValid EXCEPT ![src] = FALSE, ![dest] = TRUE]
    BY DEF moveBlock
  <2>2. DOMAIN blks' = Entry /\ DOMAIN replValid' = Entry
        /\ blks' = [f \in Entry |-> blks'[f]] /\ replValid' = [f \in Entry |-> replValid'[f]]
    BY ZenonT(60), <1>0, <2>1
  <2>3. \A f \in Entry : /\ blks'[f] \in [valid : BOOLEAN, tag : Nat \union {-1}, secure : BOOLEAN,
                                           dirty : BOOLEAN, lockList : SUBSET LockType]
                         /\ replValid'[f] \in BOOLEAN
    BY ZenonT(60), <1>0, <1>1
  <2> QED
    BY <1>2, <2>2, <2>3 DEF IInv, TypeOK
<1>4. FreeBlocksBlank'
  BY <1>1 DEF IInv, FreeBlocksBlank, isFree
<1>5. FillFailsOnlyWhenFull'
  <2>1. blks[src].valid = TRUE
    BY <1>0, <1>1
  <2>2. ASSUME NEW f \in Entry PROVE replValid'[f] = blks'[f].valid
    <3>1. CASE f = src
      BY ZenonT(60), <1>0, <1>1, <3>1
    <3>2. CASE f = dest
      BY ZenonT(60), <1>1, <2>1, <3>2
    <3>3. CASE f # src /\ f # dest
      BY ZenonT(60), <1>1, <3>3 DEF IInv, FillFailsOnlyWhenFull
    <3> QED
      BY <3>1, <3>2, <3>3
  <2> QED
    BY <1>2, <2>2 DEF FillFailsOnlyWhenFull
<1>6. /\ regenerateBlkAddr(dest)' = regenerateBlkAddr(src) /\ lineOf(dest)' = lineOf(src)
      /\ \A f \in Entry \ {src, dest} :
            regenerateBlkAddr(f)' = regenerateBlkAddr(f) /\ lineOf(f)' = lineOf(f)
  BY <1>1 DEF regenerateBlkAddr, lineOf
<1>7. LinesKnown'
  BY ZenonT(60), <1>0, <1>1, <1>6 DEF IInv, LinesKnown
<1>8. TagsUnique'
  BY <1>0, <1>1 DEF IInv, TagsUnique
<1>9. ASSUME NEW f \in Entry
      PROVE  Good(regenerateBlkAddr(f)', blks'[f].lockList)
  <2>1. CASE f = src
    BY <1>0, <1>1, <2>1 DEF Good
  <2>2. CASE f = dest
    BY <1>1, <1>6, <2>2, LocksGood DEF IInv
  <2>3. CASE f # src /\ f # dest
    BY <1>1, <1>6, <2>3, LocksGood DEF IInv
  <2> QED
    BY <2>1, <2>2, <2>3
<1>10. LocksDisjoint'
  BY <1>9 DEF LocksDisjoint, Good
<1> QED
  BY <1>3, <1>4, <1>5, <1>7, <1>8, <1>10 DEF IInv

\* Setting or clearing the dirty bit preserves the invariant.
LEMMA DirtyStep ==
  ASSUME IInv, NEW e \in Entry, setDirty(e) \/ writebackVisitor(e)
  PROVE  IInv'
<1>0. blks \in [Entry -> [valid : BOOLEAN, tag : Nat \union {-1}, secure : BOOLEAN,
                         dirty : BOOLEAN, lockList : SUBSET LockType]]
  BY ZenonT(60) DEF IInv, TypeOK
<1>1. Running /\ blks[e].valid
  BY ZenonT(60) DEF setDirty, writebackVisitor
<1>2. UNCHANGED <<replValid, failed, last>>
  BY <1>1 DEF setDirty, writebackVisitor
<1>3. PICK d \in BOOLEAN : blks' = [blks EXCEPT ![e].dirty = d]
  BY ZenonT(60) DEF setDirty, writebackVisitor
<1>4. blks' = [blks EXCEPT ![e] = [valid |-> TRUE, tag |-> blks[e].tag,
                                   secure |-> blks[e].secure, dirty |-> d,
                                   lockList |-> blks[e].lockList]]
  <2>1. [blks[e] EXCEPT !.dirty = d] =
          [valid |-> TRUE, tag |-> blks[e].tag, secure |-> blks[e].secure, dirty |-> d,
           lockList |-> blks[e].lockList]
    <3>1. blks[e] \in [valid : BOOLEAN, tag : Nat \union {-1}, secure : BOOLEAN,
                        dirty : BOOLEAN, lockList : SUBSET LockType]
      BY <1>0, <1>1
    <3>2. [blks[e] EXCEPT !.dirty = d] =
            [valid |-> blks[e].valid, tag |-> blks[e].tag, secure |-> blks[e].secure,
             dirty |-> d, lockList |-> blks[e].lockList]
      BY <3>1
    <3>3. blks[e].valid = TRUE
      BY <1>1, <3>1
    <3> QED
      BY ZenonT(60), <3>2, <3>3
  <2> QED
    BY ZenonT(60), <1>3, <2>1
<1>5. LastOK'
  BY ZenonT(60), <1>2 DEF IInv, TypeOK, LastOK
<1>6. blks[e].lockList \in SUBSET LockType /\ Good(regenerateBlkAddr(e), blks[e].lockList)
  BY <1>0, LocksGood DEF IInv
<1> QED
  BY ZenonT(60), <1>1, <1>2, <1>4, <1>5, <1>6, SameLineStep

\* What an access does: the locks of the block it finds become K.
Accesses(r, K) ==
  /\ Running /\ Block(r) # NoEntry
  /\ blks' = [blks EXCEPT ![Block(r)].lockList = K]
  /\ UNCHANGED <<replValid, failed>>

\* An access that leaves disjoint locks preserves the invariant.
LEMMA AccessStep ==
  ASSUME IInv, NEW r \in Requests, NEW K \in SUBSET LockType, Accesses(r, K),
         Good(regenerateBlkAddr(Block(r)), K), LastOK'
  PROVE  IInv'
<1> DEFINE e == Block(r)
<1>0. blks \in [Entry -> [valid : BOOLEAN, tag : Nat \union {-1}, secure : BOOLEAN,
                         dirty : BOOLEAN, lockList : SUBSET LockType]]
  BY ZenonT(60) DEF IInv, TypeOK
<1>1. e \in Entry /\ blks[e].valid
  BY BlockProps DEF Accesses
<1> HIDE DEF e
<1>2. blks' = [blks EXCEPT ![e] = [valid |-> TRUE, tag |-> blks[e].tag,
                                   secure |-> blks[e].secure, dirty |-> blks[e].dirty,
                                   lockList |-> K]]
  <2>1. blks' = [blks EXCEPT ![e].lockList = K]
    BY DEF Accesses, e
  <2>2. [blks[e] EXCEPT !.lockList = K] =
          [valid |-> TRUE, tag |-> blks[e].tag, secure |-> blks[e].secure,
           dirty |-> blks[e].dirty, lockList |-> K]
    <3>1. blks[e] \in [valid : BOOLEAN, tag : Nat \union {-1}, secure : BOOLEAN,
                        dirty : BOOLEAN, lockList : SUBSET LockType]
      BY <1>0, <1>1
    <3>2. [blks[e] EXCEPT !.lockList = K] =
            [valid |-> blks[e].valid, tag |-> blks[e].tag, secure |-> blks[e].secure,
             dirty |-> blks[e].dirty, lockList |-> K]
      BY <3>1
    <3>3. blks[e].valid = TRUE
      BY <1>1, <3>1
    <3> QED
      BY ZenonT(60), <3>2, <3>3
  <2> QED
    BY ZenonT(60), <2>1, <2>2
<1>3. blks[e].dirty \in BOOLEAN
  BY <1>0, <1>1
<1>4. Running /\ UNCHANGED <<replValid, failed>> /\ Good(regenerateBlkAddr(e), K)
  BY DEF Accesses, e
<1> QED
  BY ZenonT(60), <1>1, <1>2, <1>3, <1>4, SameLineStep

\* The locks a load-locked access leaves.
LEMMA LoadLockedProps ==
  ASSUME IInv, NEW r \in Requests, LoadLocked(r)
  PROVE  /\ Accesses(r, trackLoadLocked(blks[Block(r)].lockList, r))
         /\ IInv'
<1> DEFINE K == blks[Block(r)].lockList
           base == regenerateBlkAddr(Block(r))
<1>1. /\ Block(r) \in Entry /\ blks[Block(r)].tag \in Nat
      /\ base <= r.addr /\ r.addr + r.size - 1 < base + blkSize
  BY BlockProps DEF LoadLocked, IInv, LinesKnown
<1>2. K \in SUBSET LockType /\ Good(base, K) /\ base \in Nat
  <2>1. K \in SUBSET LockType
    BY ZenonT(60), <1>1 DEF IInv, TypeOK
  <2>2. base \in Nat
    BY <1>1, EntryProps, Regenerate DEF regenerateBlkAddr
  <2> QED
    BY <1>1, <2>1, <2>2, LocksGood DEF IInv
<1> HIDE DEF K, base
<1>3. trackLoadLocked(K, r) \in SUBSET LockType /\ Good(base, trackLoadLocked(K, r))
  BY <1>1, <1>2, TrackGood
<1>4. Accesses(r, trackLoadLocked(K, r))
  BY DEF LoadLocked, Accesses, K
<1>5. LastOK'
  BY DEF LoadLocked, LastOK
<1> QED
  BY <1>3, <1>4, <1>5, AccessStep DEF K, base

\* The locks a store, plain or conditional, leaves are among those there were.
LEMMA FewerStep ==
  ASSUME IInv, NEW r \in Requests, NEW K \in SUBSET blks[Block(r)].lockList, Accesses(r, K),
         LastOK'
  PROVE  IInv'
<1>1. Block(r) \in Entry
  BY BlockProps DEF Accesses
<1>2. /\ blks[Block(r)].lockList \in SUBSET LockType
      /\ Good(regenerateBlkAddr(Block(r)), blks[Block(r)].lockList)
  BY ZenonT(60), <1>1, LocksGood DEF IInv, TypeOK
<1>3. K \in SUBSET LockType /\ Good(regenerateBlkAddr(Block(r)), K)
  BY <1>2, FewerGood
<1> QED
  BY <1>3, AccessStep

\* A plain store.
LEMMA StoreProps ==
  ASSUME IInv, NEW r \in Requests, Store(r)
  PROVE  /\ Accesses(r, clearLoadLocks(blks[Block(r)].lockList, r))
         /\ IInv'
<1>1. Accesses(r, clearLoadLocks(blks[Block(r)].lockList, r))
  BY DEF Store, Accesses
<1>2. clearLoadLocks(blks[Block(r)].lockList, r) \subseteq blks[Block(r)].lockList
  BY DEF clearLoadLocks
<1>3. LastOK'
  BY DEF Store, LastOK
<1> QED
  BY <1>1, <1>2, <1>3, FewerStep

\* A store conditional: refused, or granted on a lock that it uses up.
LEMMA ConditionalProps ==
  ASSUME IInv, NEW r \in Requests, StoreConditional(r)
  PROVE  /\ IInv'
         /\ \/ /\ Accesses(r, clearLoadLocks(blks[Block(r)].lockList, r))
               /\ last' = [op |-> "StoreConditional", req |-> r, granted |-> FALSE]
            \/ \E k \in blks[Block(r)].lockList :
                 /\ matches(k, r)
                 /\ Accesses(r, clearLoadLocks(blks[Block(r)].lockList \ {k}, r))
                 /\ last' = [op |-> "StoreConditional", req |-> r, granted |-> TRUE]
<1> DEFINE L == blks[Block(r)].lockList
<1>1. LastOK'
  <2>1. PICK g \in BOOLEAN : last' = [op |-> "StoreConditional", req |-> r, granted |-> g]
    BY ZenonT(60) DEF StoreConditional
  <2> QED
    BY <2>1 DEF LastOK
<1>2. \/ /\ Accesses(r, clearLoadLocks(L, r))
         /\ last' = [op |-> "StoreConditional", req |-> r, granted |-> FALSE]
      \/ \E k \in L :
           /\ matches(k, r)
           /\ Accesses(r, clearLoadLocks(L \ {k}, r))
           /\ last' = [op |-> "StoreConditional", req |-> r, granted |-> TRUE]
  BY DEF StoreConditional, Accesses
<1>3. clearLoadLocks(L, r) \subseteq L /\ \A k \in L : clearLoadLocks(L \ {k}, r) \subseteq L
  BY DEF clearLoadLocks
<1>4. IInv'
  <2>1. CASE Accesses(r, clearLoadLocks(L, r))
    BY <2>1, <1>1, <1>3, FewerStep
  <2>2. CASE \E k \in L : Accesses(r, clearLoadLocks(L \ {k}, r))
    <3>1. PICK k \in L : Accesses(r, clearLoadLocks(L \ {k}, r))
      BY <2>2
    <3> QED
      BY <3>1, <1>1, <1>3, FewerStep
  <2> QED
    BY <1>2, <2>1, <2>2
<1> QED
  BY <1>2, <1>4

\* The invariant is inductive.
LEMMA StepIInv == IInv /\ [Next]_vars => IInv'
<1> SUFFICES ASSUME IInv, [Next]_vars PROVE IInv'
  BY SMTT(30)
<1>1. CASE UNCHANGED vars
  BY ZenonT(60), <1>1 DEF vars, IInv, TypeOK, FreeBlocksBlank, FillFailsOnlyWhenFull, LinesKnown, TagsUnique,
              LocksDisjoint, lineOf, regenerateBlkAddr
<1>2. CASE Next
  BY ZenonT(60), <1>2, AllocateStep, InvalidateStep, DirtyStep, MoveStep, LoadLockedProps, StoreProps,
     ConditionalProps DEF Next
<1> QED
  BY <1>1, <1>2

\* The invariant holds throughout.
LEMMA Invariance == Spec => []IInv
  BY InitIInv, StepIInv, PTL DEF Spec

\* The variables keep their types.
THEOREM TagStoreTyped == Spec => []TypeOK
<1>1. IInv => TypeOK
  BY DEF IInv
<1> QED
  BY <1>1, Invariance, PTL

\* Whatever the number of ways, an invalidated or moved block hands nothing of its
\* old line (CacheBlk::invalidate, the move assignment) to the next line inserted.
THEOREM FreeBlocksAlwaysBlank == Spec => []FreeBlocksBlank
<1>1. IInv => FreeBlocksBlank
  BY DEF IInv
<1> QED
  BY <1>1, Invariance, PTL

\* For every geometry, the valid bits of the replacement policy and of the blocks
\* agree, and a fill meets the assertion of insertBlock only in a full set.
THEOREM FillNeverFailsEarly == Spec => []FillFailsOnlyWhenFull
<1>1. IInv => FillFailsOnlyWhenFull
  BY DEF IInv
<1> QED
  BY <1>1, Invariance, PTL

\* For every geometry, a line is in one block and regenerateBlkAddr inverts the
\* split of the address into tag and set.
THEOREM WritebacksGoHome == Spec => []RegeneratedAddressFindsBlock
  BY FoundAgain, Invariance, PTL

\* The load locks of a block never overlap and never leave it.
THEOREM LocksStayDisjoint == Spec => []LocksDisjoint
<1>1. IInv => LocksDisjoint
  BY DEF IInv
<1> QED
  BY <1>1, Invariance, PTL

-----------------------------------------------------------------------------
(* The refinement.                                                         *)

\* The state of the store of lines, as the mapping computes it.
absLines == {lineOf(e) : e \in Present}

absDirty == {lineOf(e) : e \in {f \in Present : blks[f].dirty}}

\* Two blocks hold different lines.
LEMMA LineInjective ==
  ASSUME IInv, NEW e \in Entry, NEW f \in Entry, blks[e].valid, blks[f].valid,
         lineOf(e) = lineOf(f)
  PROVE  e = f
<1>1. blks[e].tag \in Nat /\ blks[f].tag \in Nat
  BY DEF IInv, LinesKnown
<1>2. /\ regenerateAddr(blks[e].tag, e[1]) = regenerateAddr(blks[f].tag, f[1])
      /\ blks[e].secure = blks[f].secure
  BY DEF lineOf, regenerateBlkAddr
<1>3. blks[e].tag = blks[f].tag /\ e[1] = f[1]
  BY <1>1, <1>2, EntryProps, Regenerate
<1> QED
  BY <1>2, <1>3 DEF IInv, TagsUnique

\* Two blocks share no byte of a memory space.
LEMMA BytesApart ==
  ASSUME IInv, NEW e \in Entry, NEW f \in Entry, blks[e].valid, blks[f].valid,
         blks[e].secure = blks[f].secure, NEW a \in Nat,
         regenerateBlkAddr(e) <= a, a < regenerateBlkAddr(e) + blkSize,
         regenerateBlkAddr(f) <= a, a < regenerateBlkAddr(f) + blkSize
  PROVE  e = f
<1>1. blks[e].tag \in Nat /\ blks[f].tag \in Nat
  BY DEF IInv, LinesKnown
<1>2. extractTag(a) = blks[e].tag /\ extractSet(a) = e[1]
  BY <1>1, EntryProps, TagAndSet DEF regenerateBlkAddr
<1>3. extractTag(a) = blks[f].tag /\ extractSet(a) = f[1]
  BY <1>1, EntryProps, TagAndSet DEF regenerateBlkAddr
<1> QED
  BY ZenonT(60), <1>2, <1>3 DEF IInv, TagsUnique

\* Block e holds the reservation p.
Holds(e, p) ==
  /\ blks[e].valid
  /\ \E k \in blks[e].lockList : \E a \in k.low .. k.high :
        p = <<k.ctx, [byte |-> a, secure |-> blks[e].secure]>>

\* The reservations are those of the blocks, before and after a step.
LEMMA Reserved ==
  /\ \A p : p \in reservedBytes <=> \E e \in Entry : Holds(e, p)
  /\ \A p : p \in reservedBytes' <=> \E e \in Entry : Holds(e, p)'
<1>1. ASSUME NEW p PROVE p \in reservedBytes <=> \E e \in Entry : Holds(e, p)
  BY DEF reservedBytes, Holds, Present
<1>2. ASSUME NEW p PROVE p \in reservedBytes' <=> \E e \in Entry : Holds(e, p)'
  BY DEF reservedBytes, Holds, Present
<1> QED
  BY <1>1, <1>2

\* The empty tag store is the empty store of lines.
LEMMA InitMaps == Init => Abs!Init
<1> SUFFICES ASSUME Init PROVE Abs!Init
  OBVIOUS
<1>1. \A e \in Entry : blks[e].valid = FALSE
  BY DEF Init, Invalidated
<1>2. Present = {}
  BY <1>1 DEF Present
<1> QED
  BY <1>2 DEF Abs!Init, Abs!None, Init, reservedBytes

\* A fill adds the line asked for, or stops the program and changes nothing.
LEMMA AllocateMaps ==
  ASSUME IInv, NEW l \in Lines, allocateBlock(l)
  PROVE  Abs!Fill(l) \/ UNCHANGED Abs!lvars
<1> DEFINE t == extractTag(l.addr)
<1>1. /\ l.addr \in Nat /\ l.secure \in BOOLEAN /\ l = [addr |-> l.addr, secure |-> l.secure]
      /\ regenerateAddr(t, extractSet(l.addr)) = l.addr
  BY LineAddress
<1>2. PICK e \in findVictim(l.addr) :
         IF isFree(blks[e])
           THEN /\ blks' = [blks EXCEPT ![e] = insert(blks[e], t, l.secure)]
                /\ replValid' = [replValid EXCEPT ![e] = TRUE]
                /\ UNCHANGED failed
           ELSE failed' = "insertBlock: !blk->isValid()" /\ UNCHANGED <<blks, replValid>>
  BY ZenonT(60) DEF allocateBlock
<1>3. e \in Entry /\ e[1] = extractSet(l.addr)
  <2> DEFINE S == getPossibleEntries(l.addr)
             free == {f \in S : ~replValid[f]}
  <2>1. S \subseteq Entry /\ \A f \in S : f[1] = extractSet(l.addr)
    BY DEF getPossibleEntries
  <2>2. free # {} => First(free) \in free
    BY <2>1, FirstProps
  <2> QED
    BY ZenonT(60), <1>2, <2>1, <2>2 DEF findVictim, getVictim
<1>4. UNCHANGED last
  BY ZenonT(60) DEF allocateBlock
<1>5. CASE isFree(blks[e])
  <2>0. blks \in [Entry -> [valid : BOOLEAN, tag : Nat \union {-1}, secure : BOOLEAN,
                           dirty : BOOLEAN, lockList : SUBSET LockType]]
    BY ZenonT(60) DEF IInv, TypeOK
  <2>1. blks[e] = Invalidated
    BY <1>3, <1>5 DEF IInv, FreeBlocksBlank
  <2>2. /\ blks[e].valid = FALSE /\ blks[e].secure = FALSE /\ blks[e].dirty = FALSE
        /\ blks[e].lockList = {}
    BY <2>1 DEF Invalidated
  <2>3. blks'[e] = insert(blks[e], t, l.secure) /\ \A f \in Entry \ {e} : blks'[f] = blks[f]
    BY <1>2, <1>3, <1>5, <2>0
  <2>4. (blks[e].secure \/ l.secure) = l.secure
    BY ZenonT(60), <2>2, <1>1
  <2>5. /\ blks'[e].valid = TRUE /\ blks'[e].tag = t /\ blks'[e].secure = l.secure
        /\ blks'[e].dirty = FALSE /\ blks'[e].lockList = {}
    <3>1. blks'[e] = [valid |-> TRUE, tag |-> t, secure |-> l.secure, dirty |-> FALSE,
                      lockList |-> {}]
      BY ZenonT(60), <2>2, <2>3, <2>4 DEF insert
    <3> QED
      BY <3>1
  <2>6. lineOf(e)' = l
    BY ZenonT(60), <1>1, <1>3, <2>5 DEF lineOf, regenerateBlkAddr
  <2>7. \A f \in Entry \ {e} : lineOf(f)' = lineOf(f)
    BY <2>3 DEF lineOf, regenerateBlkAddr
  <2>8. Present' = Present \union {e} /\ e \notin Present /\ Present \subseteq Entry
    BY <1>3, <2>2, <2>3, <2>5 DEF Present
  <2>9. absLines' = absLines \union {l}
    BY ZenonT(60), <2>6, <2>7, <2>8 DEF absLines
  <2>10. absDirty' = absDirty
    <3>1. {f \in Present' : blks'[f].dirty} = {f \in Present : blks[f].dirty}
      BY <2>3, <2>5, <2>8
    <3> QED
      BY ZenonT(60), <3>1, <2>7, <2>8 DEF absDirty
  <2>11. reservedBytes' = reservedBytes
    <3>1. ASSUME NEW p, NEW f \in Entry PROVE Holds(f, p)' <=> Holds(f, p)
      <4>1. CASE f = e
        BY ZenonT(60), <2>2, <2>5, <4>1 DEF Holds
      <4>2. CASE f # e
        BY <2>3, <4>2 DEF Holds
      <4> QED
        BY <4>1, <4>2
    <3> QED
      BY <3>1, Reserved
  <2>12. l \notin absLines
    <3>1. SUFFICES ASSUME NEW f \in Present, lineOf(f) = l PROVE FALSE
      BY DEF absLines
    <3>2. f \in Entry /\ blks[f].valid
      BY DEF Present
    <3>3. regenerateBlkAddr(f) = l.addr /\ blks[f].secure = l.secure
      BY <1>1, <3>1 DEF lineOf
    <3>4. f \in Hits(l.addr, l.secure)
      BY ZenonT(60), <3>2, <3>3, FoundAgain DEF RegeneratedAddressFindsBlock
    <3>5. findBlock(l.addr, l.secure) = f
      BY <1>1, <3>4, HitUnique
    <3> QED
      BY ZenonT(60), <3>2, <3>5, EntryProps DEF allocateBlock
  <2> QED
    BY <1>4, <2>9, <2>10, <2>11, <2>12 DEF Abs!Fill, absLines, absDirty
<1>6. CASE ~isFree(blks[e])
  <2>1. UNCHANGED <<blks, last>>
    BY ZenonT(60), <1>2, <1>4, <1>6
  <2> QED
    BY <2>1 DEF Abs!lvars, Present, lineOf, regenerateBlkAddr, reservedBytes
<1> QED
  BY <1>5, <1>6

\* Invalidating a block drops its line and the reservations on it, and no other.
LEMMA InvalidateMaps ==
  ASSUME IInv, NEW e \in Entry, invalidate(e)
  PROVE  \E l \in Lines : Abs!Drop(l)
<1> DEFINE l == lineOf(e)
<1>0. blks \in [Entry -> [valid : BOOLEAN, tag : Nat \union {-1}, secure : BOOLEAN,
                         dirty : BOOLEAN, lockList : SUBSET LockType]]
  BY ZenonT(60) DEF IInv, TypeOK
<1>1. blks[e].valid /\ l \in Lines /\ UNCHANGED last
  BY DEF invalidate, IInv, LinesKnown
<1>2. blks'[e].valid = FALSE /\ \A f \in Entry \ {e} : blks'[f] = blks[f]
  BY <1>0 DEF invalidate, invalidated, Invalidated
<1>3. \A f \in Entry \ {e} : lineOf(f)' = lineOf(f)
  BY <1>2 DEF lineOf, regenerateBlkAddr
<1>4. Present' = Present \ {e} /\ e \in Present /\ Present \subseteq Entry
  BY <1>1, <1>2 DEF Present
<1>5. \A f \in Present : f # e => lineOf(f) # l
  BY <1>1, LineInjective DEF Present
<1> HIDE DEF l
<1>6. l \in absLines /\ absLines' = absLines \ {l}
  BY <1>3, <1>4, <1>5 DEF absLines, l
<1>7. absDirty' = absDirty \ {l}
  <2>1. {f \in Present' : blks'[f].dirty} = {f \in Present : blks[f].dirty} \ {e}
    BY <1>2, <1>4
  <2> QED
    BY <2>1, <1>3, <1>4, <1>5 DEF absDirty, l
<1>8. reservedBytes' \subseteq reservedBytes
  <2>1. ASSUME NEW p, NEW f \in Entry, Holds(f, p)' PROVE Holds(f, p)
    BY <1>2, <2>1 DEF Holds
  <2> QED
    BY <2>1, Reserved
<1> QED
  BY ZenonT(60), <1>1, <1>6, <1>7, <1>8 DEF Abs!Drop, absLines, absDirty

\* Moving a block changes nothing.
LEMMA MoveMaps ==
  ASSUME IInv, NEW src \in Entry, NEW dest \in Entry, moveBlock(src, dest)
  PROVE  UNCHANGED Abs!lvars
<1>1. /\ src # dest /\ src[1] = dest[1] /\ blks[src].valid /\ blks[dest] = Invalidated
      /\ blks'[dest] = blks[src] /\ blks'[src] = Invalidated
      /\ replValid'[dest] = TRUE /\ replValid'[src] = FALSE
      /\ \A f \in Entry \ {src, dest} : blks'[f] = blks[f] /\ replValid'[f] = replValid[f]
  BY ZenonT(60), MoveProps
<1>2. Invalidated.valid = FALSE
  BY DEF Invalidated
<1>3. /\ lineOf(dest)' = lineOf(src)
      /\ \A f \in Entry \ {src, dest} : lineOf(f)' = lineOf(f)
  BY <1>1 DEF regenerateBlkAddr, lineOf
<1>4. /\ src \in Present /\ dest \notin Present /\ Present \subseteq Entry
      /\ Present' = (Present \ {src}) \union {dest}
  BY ZenonT(60), <1>1, <1>2 DEF Present
<1>5. absLines' = absLines
  BY <1>1, <1>3, <1>4 DEF absLines
<1>6. absDirty' = absDirty
  <2>1. {f \in Present' : blks'[f].dirty} =
          ({f \in Present : blks[f].dirty} \ {src})
          \union (IF blks[src].dirty THEN {dest} ELSE {})
    BY <1>1, <1>4
  <2> QED
    BY <2>1, <1>1, <1>3, <1>4 DEF absDirty
<1>7. reservedBytes' = reservedBytes
  <2>1. ASSUME NEW p PROVE (\E f \in Entry : Holds(f, p)') <=> (\E f \in Entry : Holds(f, p))
    <3>1. /\ ~Holds(dest, p) /\ ~Holds(src, p)'
          /\ Holds(dest, p)' <=> Holds(src, p)
      BY <1>1, <1>2 DEF Holds
    <3>2. \A f \in Entry \ {src, dest} : Holds(f, p)' <=> Holds(f, p)
      BY <1>1 DEF Holds
    <3> QED
      BY ZenonT(60), <3>1, <3>2
  <2> QED
    BY <2>1, Reserved
<1>8. UNCHANGED last
  BY DEF moveBlock
<1> QED
  BY ZenonT(60), <1>5, <1>6, <1>7, <1>8 DEF Abs!lvars, absLines, absDirty

\* The dirty bit of a block is the dirty mark of its line.
LEMMA DirtyMaps ==
  ASSUME IInv, NEW e \in Entry, setDirty(e) \/ writebackVisitor(e)
  PROVE  \E l \in Lines : Abs!SetDirty(l) \/ Abs!Clean(l)
<1> DEFINE l == lineOf(e)
<1>0. blks \in [Entry -> [valid : BOOLEAN, tag : Nat \union {-1}, secure : BOOLEAN,
                         dirty : BOOLEAN, lockList : SUBSET LockType]]
  BY ZenonT(60) DEF IInv, TypeOK
<1>1. blks[e].valid /\ l \in Lines /\ UNCHANGED last
  BY ZenonT(60) DEF setDirty, writebackVisitor, IInv, LinesKnown
<1>2. /\ \A f \in Entry : /\ blks'[f].valid = blks[f].valid /\ blks'[f].tag = blks[f].tag
                          /\ blks'[f].secure = blks[f].secure
                          /\ blks'[f].lockList = blks[f].lockList
      /\ \A f \in Entry \ {e} : blks'[f].dirty = blks[f].dirty
  <2>1. PICK d \in BOOLEAN : blks' = [blks EXCEPT ![e].dirty = d]
    BY ZenonT(60) DEF setDirty, writebackVisitor
  <2> QED
    BY ZenonT(60), <1>0, <2>1
<1>3. \A f \in Entry : lineOf(f)' = lineOf(f)
  BY SMTT(30), <1>2 DEF lineOf, regenerateBlkAddr
<1>4. Present' = Present /\ e \in Present /\ Present \subseteq Entry
  BY <1>1, <1>2 DEF Present
<1>5. \A f \in Present : f # e => lineOf(f) # l
  BY <1>1, LineInjective DEF Present
<1> HIDE DEF l
<1>6. l \in absLines /\ absLines' = absLines
  BY <1>3, <1>4 DEF absLines, l
<1>7. reservedBytes' = reservedBytes
  <2>1. ASSUME NEW p, NEW f \in Entry PROVE Holds(f, p)' <=> Holds(f, p)
    BY <1>2 DEF Holds
  <2> QED
    BY <2>1, Reserved
<1>8. CASE setDirty(e)
  <2>1. blks'[e].dirty = TRUE
    BY SMTT(30), <1>0, <1>8 DEF setDirty
  <2>2. {f \in Present' : blks'[f].dirty} = {f \in Present : blks[f].dirty} \union {e}
    BY <1>2, <1>4, <2>1
  <2>3. absDirty' = absDirty \union {l}
    BY <1>3, <1>4, <2>2 DEF absDirty, l
  <2> QED
    BY <1>1, <1>6, <1>7, <2>3 DEF Abs!SetDirty, absLines, absDirty
<1>9. CASE writebackVisitor(e)
  <2>1. blks[e].dirty /\ blks'[e].dirty = FALSE
    BY ZenonT(60), <1>0, <1>9 DEF writebackVisitor
  <2>2. {f \in Present' : blks'[f].dirty} = {f \in Present : blks[f].dirty} \ {e}
    BY <1>2, <1>4, <2>1
  <2>3. l \in absDirty /\ absDirty' = absDirty \ {l}
    BY ZenonT(60), <1>3, <1>4, <1>5, <2>1, <2>2 DEF absDirty, l
  <2> QED
    BY ZenonT(60), <1>1, <1>6, <1>7, <2>3 DEF Abs!Clean, absLines, absDirty
<1> QED
  BY <1>8, <1>9

\* An access changes the locks of one block and no line.
LEMMA AccessProps ==
  ASSUME IInv, NEW r \in Requests, NEW K, Accesses(r, K)
  PROVE  /\ absLines' = absLines /\ absDirty' = absDirty
         /\ blks'[Block(r)].lockList = K
         /\ \A f \in Entry : /\ blks'[f].valid = blks[f].valid
                             /\ blks'[f].secure = blks[f].secure
                             /\ f # Block(r) => blks'[f] = blks[f]
<1> DEFINE e == Block(r)
<1>0. blks \in [Entry -> [valid : BOOLEAN, tag : Nat \union {-1}, secure : BOOLEAN,
                         dirty : BOOLEAN, lockList : SUBSET LockType]]
  BY ZenonT(60) DEF IInv, TypeOK
<1>1. e \in Entry /\ blks' = [blks EXCEPT ![e].lockList = K]
  BY BlockProps DEF Accesses
<1> HIDE DEF e
<1>2. /\ \A f \in Entry : /\ blks'[f].valid = blks[f].valid /\ blks'[f].tag = blks[f].tag
                          /\ blks'[f].secure = blks[f].secure /\ blks'[f].dirty = blks[f].dirty
                          /\ f # e => blks'[f] = blks[f]
      /\ blks'[e].lockList = K
  BY SMTT(30), <1>0, <1>1
<1>3. \A f \in Entry : lineOf(f)' = lineOf(f)
  BY <1>2 DEF lineOf, regenerateBlkAddr
<1>4. Present' = Present /\ Present \subseteq Entry
  BY <1>2 DEF Present
<1>5. {f \in Present' : blks'[f].dirty} = {f \in Present : blks[f].dirty}
  BY SMTT(30), <1>2, <1>4
<1> QED
  BY <1>2, <1>3, <1>4, <1>5 DEF absLines, absDirty, e

\* A reservation of a byte of request r is kept in the block that r finds.
LEMMA SameBlock ==
  ASSUME IInv, NEW r \in Requests, Block(r) # NoEntry, NEW f \in Entry, blks[f].valid,
         NEW k \in blks[f].lockList, NEW a \in k.low .. k.high,
         blks[f].secure = r.secure, a \in r.addr .. r.addr + r.size - 1
  PROVE  f = Block(r)
<1>1. /\ Block(r) \in Entry /\ blks[Block(r)].valid /\ blks[Block(r)].secure = r.secure
      /\ regenerateBlkAddr(Block(r)) <= r.addr
      /\ r.addr + r.size - 1 < regenerateBlkAddr(Block(r)) + blkSize
  BY BlockProps
<1>2. r.addr \in Nat /\ r.size \in Nat \ {0} /\ k.low \in Nat /\ k.high \in Nat
  BY ZenonT(60), RequestWithin DEF IInv, TypeOK, LockType
<1>3. regenerateBlkAddr(f) <= k.low /\ k.high < regenerateBlkAddr(f) + blkSize
  BY DEF IInv, LocksDisjoint
<1>4. regenerateBlkAddr(Block(r)) \in Nat /\ regenerateBlkAddr(f) \in Nat
  <2>1. blks[Block(r)].tag \in Nat /\ blks[f].tag \in Nat
    BY <1>1 DEF IInv, LinesKnown
  <2> QED
    BY SMTT(30), <1>1, <2>1, EntryProps, Regenerate DEF regenerateBlkAddr
<1>5. a \in Nat
  BY <1>2
<1>6. /\ regenerateBlkAddr(Block(r)) <= a /\ a < regenerateBlkAddr(Block(r)) + blkSize
      /\ regenerateBlkAddr(f) <= a /\ a < regenerateBlkAddr(f) + blkSize
  BY SMTT(30), <1>1, <1>2, <1>3, <1>4, <1>5, GeometryAssumption
<1> QED
  BY SMTT(30), <1>1, <1>5, <1>6, BytesApart

\* A reservation after an access that added no lock was there before, and if it is
\* on a byte of the request, one of the locks left in the block covers the byte.
LEMMA Remaining ==
  ASSUME IInv, NEW r \in Requests, NEW K \in SUBSET blks[Block(r)].lockList, Accesses(r, K),
         NEW p \in reservedBytes'
  PROVE  /\ p \in reservedBytes
         /\ p[2] \in bytesOf(r) =>
              \E k \in K : \E a \in k.low .. k.high :
                 p[1] = k.ctx /\ a \in r.addr .. r.addr + r.size - 1
<1> DEFINE e == Block(r)
<1>1. /\ blks'[e].lockList = K
      /\ \A f \in Entry : /\ blks'[f].valid = blks[f].valid
                          /\ blks'[f].secure = blks[f].secure
                          /\ f # e => blks'[f] = blks[f]
  BY AccessProps
<1>2. PICK f \in Entry : Holds(f, p)'
  BY ZenonT(60), Reserved
<1>a. PICK k \in blks'[f].lockList : \E a \in k.low .. k.high :
         p = <<k.ctx, [byte |-> a, secure |-> blks'[f].secure]>>
  BY <1>2 DEF Holds
<1>3. PICK a \in k.low .. k.high : p = <<k.ctx, [byte |-> a, secure |-> blks'[f].secure]>>
  BY <1>a
<1>4. blks[f].valid /\ blks[f].secure = blks'[f].secure
  BY <1>1, <1>2 DEF Holds
<1>5. k \in blks[f].lockList
  BY <1>1
<1>6. p \in reservedBytes
  BY ZenonT(60), <1>3, <1>4, <1>5, Reserved DEF Holds
<1>7. ASSUME p[2] \in bytesOf(r)
      PROVE  k \in K /\ p[1] = k.ctx /\ a \in r.addr .. r.addr + r.size - 1
  <2>1. PICK b \in r.addr .. r.addr + r.size - 1 : p[2] = [byte |-> b, secure |-> r.secure]
    BY <1>7 DEF bytesOf
  <2>2. a = b /\ blks[f].secure = r.secure
    BY <2>1, <1>3, <1>4
  <2>3. f = e
    BY ZenonT(60), <2>1, <2>2, <1>4, <1>5, SameBlock DEF Accesses
  <2> QED
    BY ZenonT(60), <1>1, <1>3, <2>1, <2>2, <2>3
<1> QED
  BY <1>6, <1>7

\* A load-locked access reserves the bytes it reads and takes over no others.
LEMMA LoadLockedMaps ==
  ASSUME IInv, NEW r \in Requests, LoadLocked(r)
  PROVE  Abs!LoadLocked(r)
<1>0. PICK e \in Entry : e = Block(r)
  BY BlockProps DEF LoadLocked
<1> DEFINE K == trackLoadLocked(blks[e].lockList, r)
<1>1. Accesses(r, K)
  BY SMTT(30), <1>0, LoadLockedProps
<1>2. /\ absLines' = absLines /\ absDirty' = absDirty
      /\ blks'[e].lockList = K
      /\ \A f \in Entry : /\ blks'[f].valid = blks[f].valid
                          /\ blks'[f].secure = blks[f].secure
                          /\ f # e => blks'[f] = blks[f]
  BY <1>0, <1>1, AccessProps
<1>3. e \in Entry /\ blks[e].valid /\ blks[e].secure = r.secure
  BY <1>0, <1>1, BlockProps DEF Accesses
<1>4. r.addr \in Nat /\ r.size \in Nat \ {0}
  BY RequestWithin
<1>5. /\ Lock(r) \in K /\ K \subseteq blks[e].lockList \union {Lock(r)}
      /\ Lock(r).ctx = r.ctx /\ Lock(r).low = r.addr /\ Lock(r).high = r.addr + r.size - 1
  BY ZenonT(60) DEF trackLoadLocked, Lock
<1> HIDE DEF K
<1>6. {r.ctx} \X bytesOf(r) \subseteq reservedBytes'
  <2>1. SUFFICES ASSUME NEW a \in r.addr .. r.addr + r.size - 1
                 PROVE  <<r.ctx, [byte |-> a, secure |-> r.secure]>> \in reservedBytes'
    BY DEF bytesOf
  <2>2. a \in Lock(r).low .. Lock(r).high
    BY <1>5
  <2>3. Holds(e, <<r.ctx, [byte |-> a, secure |-> r.secure]>>)'
    BY ZenonT(60), <1>2, <1>3, <1>5, <2>2 DEF Holds
  <2> QED
    BY ZenonT(60), <1>3, <2>3, Reserved
<1>7. ASSUME NEW p \in reservedBytes'
      PROVE  p \in reservedBytes \union ({r.ctx} \X bytesOf(r))
  <2>1. PICK f \in Entry : Holds(f, p)'
    BY Reserved
  <2>a. PICK k \in blks'[f].lockList : \E a \in k.low .. k.high :
           p = <<k.ctx, [byte |-> a, secure |-> blks'[f].secure]>>
    BY <2>1 DEF Holds
  <2>2. PICK a \in k.low .. k.high : p = <<k.ctx, [byte |-> a, secure |-> blks'[f].secure]>>
    BY ZenonT(60), <2>a
  <2>3. blks[f].valid /\ blks[f].secure = blks'[f].secure
    BY ZenonT(60), <1>2, <2>1 DEF Holds
  <2>4. CASE k \in blks[f].lockList
    BY ZenonT(60), <2>2, <2>3, <2>4, Reserved DEF Holds
  <2>5. CASE f = e /\ k = Lock(r)
    <3>1. k.ctx = r.ctx /\ a \in r.addr .. r.addr + r.size - 1
      BY <1>5, <2>2, <2>5
    <3> QED
      BY ZenonT(60), <1>3, <2>2, <2>3, <2>5, <3>1 DEF bytesOf
  <2> QED
    BY <1>2, <1>5, <2>2, <2>4, <2>5
<1>8. last' = [op |-> "LoadLocked", req |-> r, granted |-> TRUE]
  BY DEF LoadLocked
<1> QED
  BY ZenonT(60), <1>2, <1>6, <1>7, <1>8 DEF Abs!LoadLocked, Abs!Mine, absLines, absDirty

\* A lock left by clearLoadLocks that covers a byte of the request is the
\* requesting context's.
LEMMA ClearedLocks ==
  ASSUME NEW r \in Requests, NEW L \in SUBSET LockType, NEW k \in clearLoadLocks(L, r),
         NEW a \in k.low .. k.high, a \in r.addr .. r.addr + r.size - 1
  PROVE  k \in L /\ k.ctx = r.ctx
<1>1. r.addr \in Nat /\ r.size \in Nat \ {0}
  BY RequestWithin
<1>2. k \in L /\ ~(intersects(k, r) /\ k.ctx # r.ctx)
  BY DEF clearLoadLocks
<1>3. k.low \in Nat /\ k.high \in Nat
  BY <1>2 DEF LockType
<1>4. intersects(k, r)
  BY <1>1, <1>3 DEF intersects
<1> QED
  BY <1>2, <1>4

\* The locks of the block an access finds.
LEMMA BlockLocks ==
  ASSUME IInv, NEW r \in Requests, Block(r) # NoEntry
  PROVE  /\ blks[Block(r)].lockList \in SUBSET LockType
         /\ Good(regenerateBlkAddr(Block(r)), blks[Block(r)].lockList)
<1>1. Block(r) \in Entry
  BY SMTT(30), BlockProps
<1> QED
  BY ZenonT(60), <1>1, LocksGood DEF IInv, TypeOK

\* A store ends the reservations of the other contexts on its bytes.
LEMMA StoreMaps ==
  ASSUME IInv, NEW r \in Requests, Store(r)
  PROVE  Abs!Store(r)
<1> DEFINE L == blks[Block(r)].lockList
           K == clearLoadLocks(L, r)
<1>1. Accesses(r, K) /\ Block(r) # NoEntry
  BY StoreProps DEF Accesses
<1>2. L \in SUBSET LockType /\ K \subseteq L
  BY <1>1, BlockLocks DEF clearLoadLocks
<1>3. absLines' = absLines /\ absDirty' = absDirty
  BY <1>1, AccessProps
<1> HIDE DEF L
<1>4. ASSUME NEW p \in reservedBytes'
      PROVE  p \in reservedBytes /\ (p[2] \in bytesOf(r) => p[1] = r.ctx)
  <2> HIDE DEF K
  <2>1. /\ p \in reservedBytes
        /\ p[2] \in bytesOf(r) =>
             \E k \in K : \E a \in k.low .. k.high :
                p[1] = k.ctx /\ a \in r.addr .. r.addr + r.size - 1
    BY <1>1, <1>2, Remaining DEF L
  <2>2. ASSUME NEW k \in K, NEW a \in k.low .. k.high, a \in r.addr .. r.addr + r.size - 1
        PROVE  k.ctx = r.ctx
    BY <1>2, <2>2, ClearedLocks DEF K
  <2> QED
    BY ZenonT(60), <2>1, <2>2
<1>5. last' = [op |-> "Store", req |-> r, granted |-> TRUE]
  BY ZenonT(60) DEF Store
<1> QED
  BY ZenonT(60), <1>3, <1>4, <1>5 DEF Abs!Store, Abs!On, absLines, absDirty

\* A store conditional is granted only on reserved bytes, and then ends every
\* reservation on them; refused, it adds none.
LEMMA ConditionalMaps ==
  ASSUME IInv, NEW r \in Requests, StoreConditional(r)
  PROVE  Abs!StoreConditional(r)
<1> DEFINE L == blks[Block(r)].lockList
<1>1. Block(r) # NoEntry
  BY SMTT(30) DEF StoreConditional
<1>2. L \in SUBSET LockType /\ Good(regenerateBlkAddr(Block(r)), L)
  BY ZenonT(60), <1>1, BlockLocks
<1>3. \/ /\ Accesses(r, clearLoadLocks(L, r))
         /\ last' = [op |-> "StoreConditional", req |-> r, granted |-> FALSE]
      \/ \E k \in L :
           /\ matches(k, r)
           /\ Accesses(r, clearLoadLocks(L \ {k}, r))
           /\ last' = [op |-> "StoreConditional", req |-> r, granted |-> TRUE]
  BY ConditionalProps
<1>4. CASE /\ Accesses(r, clearLoadLocks(L, r))
           /\ last' = [op |-> "StoreConditional", req |-> r, granted |-> FALSE]
  <2>1. clearLoadLocks(L, r) \subseteq L
    BY ZenonT(60) DEF clearLoadLocks
  <2>2. reservedBytes' \subseteq reservedBytes
    BY ZenonT(60), <1>4, <2>1, Remaining
  <2>3. absLines' = absLines /\ absDirty' = absDirty
    BY <1>4, AccessProps
  <2> QED
    BY ZenonT(60), <1>4, <2>2, <2>3 DEF Abs!StoreConditional, absLines, absDirty
<1>5. CASE \E k \in L :
             /\ matches(k, r)
             /\ Accesses(r, clearLoadLocks(L \ {k}, r))
             /\ last' = [op |-> "StoreConditional", req |-> r, granted |-> TRUE]
  <2>1. PICK j \in L :
           /\ matches(j, r)
           /\ Accesses(r, clearLoadLocks(L \ {j}, r))
           /\ last' = [op |-> "StoreConditional", req |-> r, granted |-> TRUE]
    BY ZenonT(60), <1>5
  <2> DEFINE K == clearLoadLocks(L \ {j}, r)
  <2>2. K \subseteq L /\ L \ {j} \in SUBSET LockType
    BY ZenonT(60), <1>2 DEF clearLoadLocks
  <2>3. absLines' = absLines /\ absDirty' = absDirty
    BY ZenonT(60), <2>1, AccessProps
  <2>4. /\ j.ctx = r.ctx /\ j.low <= r.addr /\ r.addr + r.size - 1 <= j.high
        /\ j.low \in Nat /\ j.high \in Nat /\ r.addr \in Nat /\ r.size \in Nat \ {0}
    BY ZenonT(60), <1>2, <2>1, RequestWithin DEF matches, LockType
  <2>5. {r.ctx} \X bytesOf(r) \subseteq reservedBytes
    <3>1. SUFFICES ASSUME NEW a \in r.addr .. r.addr + r.size - 1
                   PROVE  <<r.ctx, [byte |-> a, secure |-> r.secure]>> \in reservedBytes
      BY DEF bytesOf
    <3>2. a \in j.low .. j.high
      BY SMTT(30), <2>4
    <3>3. Block(r) \in Entry /\ blks[Block(r)].valid /\ blks[Block(r)].secure = r.secure
      BY ZenonT(60), <1>1, BlockProps
    <3> QED
      BY ZenonT(60), <2>4, <3>2, <3>3, Reserved DEF Holds
  <2>6. ASSUME NEW p \in reservedBytes'
        PROVE  p \in reservedBytes /\ p[2] \notin bytesOf(r)
    <3>1. /\ p \in reservedBytes
          /\ p[2] \in bytesOf(r) =>
               \E k \in K : \E a \in k.low .. k.high :
                  p[1] = k.ctx /\ a \in r.addr .. r.addr + r.size - 1
      <4> HIDE DEF K
      <4>1. Accesses(r, K)
        BY ZenonT(60), <2>1 DEF K
      <4> QED
        BY ZenonT(60), <4>1, <2>2, Remaining
    <3>2. ASSUME NEW k \in K, NEW a \in k.low .. k.high, a \in r.addr .. r.addr + r.size - 1
          PROVE  FALSE
      <4>1. k \in L \ {j}
        BY ZenonT(60), <2>2, <3>2, ClearedLocks
      <4>2. k.low \in Nat /\ k.high \in Nat /\ (k.high < j.low \/ j.high < k.low)
        BY <1>2, <2>1, <4>1 DEF Good, LockType
      <4> QED
        BY SMTT(30), <2>4, <3>2, <4>2
    <3> QED
      BY ZenonT(60), <3>1, <3>2
  <2> QED
    BY ZenonT(60), <2>1, <2>3, <2>5, <2>6
       DEF Abs!StoreConditional, Abs!Mine, Abs!On, absLines, absDirty
<1> QED
  BY <1>3, <1>4, <1>5

\* Every step of the tag store is a step of the store of lines or leaves it alone.
LEMMA StepMaps == IInv /\ [Next]_vars => [Abs!Next]_(Abs!lvars)
<1> SUFFICES ASSUME IInv, [Next]_vars PROVE Abs!Next \/ UNCHANGED Abs!lvars
  BY ZenonT(60), SMTT(30)
<1>1. CASE UNCHANGED vars
  BY <1>1 DEF vars, Abs!lvars, Present, lineOf, regenerateBlkAddr, reservedBytes
<1>2. ASSUME NEW l \in Lines, allocateBlock(l) PROVE Abs!Next \/ UNCHANGED Abs!lvars
  BY ZenonT(60), <1>2, AllocateMaps DEF Abs!Next
<1>3. ASSUME NEW e \in Entry, invalidate(e) PROVE Abs!Next
  BY ZenonT(60), <1>3, InvalidateMaps DEF Abs!Next
<1>4. ASSUME NEW e \in Entry, setDirty(e) \/ writebackVisitor(e) PROVE Abs!Next
  BY ZenonT(60), <1>4, DirtyMaps DEF Abs!Next
<1>5. ASSUME NEW src \in Entry, NEW dest \in Entry, moveBlock(src, dest)
      PROVE  UNCHANGED Abs!lvars
  BY <1>5, MoveMaps
<1>6. ASSUME NEW r \in Requests, LoadLocked(r) \/ Store(r) \/ StoreConditional(r)
      PROVE  Abs!Next
  BY ZenonT(60), <1>6, LoadLockedMaps, StoreMaps, ConditionalMaps DEF Abs!Next
<1> QED
  BY ZenonT(60), <1>1, <1>2, <1>3, <1>4, <1>5, <1>6 DEF Next

\* For every geometry, every set of lines and every set of accesses, the tag store
\* with its sets, ways, victims, moves and load locks implements the store of lines.
THEOREM TagStoreImplementsLines == Spec => ImplementsLineStore
<1>1. Init => Abs!Init
  BY InitMaps
<1>2. IInv /\ [Next]_vars => [Abs!Next]_(Abs!lvars)
  BY StepMaps
<1> QED
  BY <1>1, <1>2, Invariance, PTL DEF Spec, ImplementsLineStore, Abs!Spec
=============================================================================
