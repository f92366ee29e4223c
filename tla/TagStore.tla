------------------------------ MODULE TagStore ------------------------------
(***************************************************************************)
(* The tag store of a cache (BaseTags and BaseSetAssoc with the            *)
(* SetAssociative indexing and the Random replacement policy) and the      *)
(* metadata of its blocks (TaggedEntry, CacheBlk), with the operations the *)
(* cache runs on them: the fill of allocateBlock, the dirty bit of         *)
(* satisfyRequest and of writebackVisitor, and, as the classes offer them, *)
(* invalidation, moving a block and the load locks.                        *)
(*                                                                         *)
(* The lock list of a block is kept as a set: trackLoadLocked erases every *)
(* lock that intersects the one it adds, so the list never holds the same  *)
(* lock twice, and where checkWrite takes the first matching lock of the   *)
(* list the model takes any.                                               *)
(***************************************************************************)
EXTENDS FiniteSets, Integers

CONSTANTS numSets, assoc,
          blkSize,     \* bytes of a block (the entry size of the indexing policy)
          Lines,       \* the lines the cache is asked for, [addr, secure]
          Requests     \* the accesses of the contexts, [ctx, addr, size, secure]

ASSUME GeometryAssumption ==
  numSets \in Nat \ {0} /\ assoc \in Nat \ {0} /\ blkSize \in Nat \ {0}

\* An access stays within one block, as every packet the cache handles does.
ASSUME RequestAssumption ==
  /\ \A l \in Lines : /\ l \in [addr : Nat, secure : BOOLEAN]
                      /\ l.addr % blkSize = 0
  /\ \A r \in Requests : /\ r.addr \in Nat /\ r.size \in Nat \ {0} /\ r.secure \in BOOLEAN
                         /\ r = [ctx |-> r.ctx, addr |-> r.addr, size |-> r.size,
                                 secure |-> r.secure]
                         /\ r.addr \div blkSize = (r.addr + r.size - 1) \div blkSize

VARIABLES blks,       \* the metadata of the block at each set and way
          replValid,  \* RandomReplData::valid of each block
          last,       \* the last LL, store or SC and the answer of checkWrite
          failed      \* the assertion that ended the program, or "none"

vars == <<blks, replValid, last, failed>>

Entry == (0 .. numSets - 1) \X (0 .. assoc - 1)

NoEntry == <<-1, -1>>

-----------------------------------------------------------------------------
(* The indexing policy; an address is a block number and an offset.        *)

extractSet(addr) == (addr \div blkSize) % numSets

extractTag(addr) == (addr \div blkSize) \div numSets

regenerateAddr(tag, set) == (tag * numSets + set) * blkSize

getPossibleEntries(addr) == {e \in Entry : e[1] = extractSet(addr)}

-----------------------------------------------------------------------------
(* The load locks of a block.                                              *)

Lock(r) == [ctx |-> r.ctx, low |-> r.addr, high |-> r.addr + r.size - 1]

matches(k, r) == /\ k.ctx = r.ctx
                 /\ r.addr >= k.low
                 /\ r.addr + r.size - 1 <= k.high

intersects(k, r) == r.addr <= k.high /\ r.addr + r.size - 1 >= k.low

trackLoadLocked(locks, r) == {k \in locks : ~intersects(k, r)} \union {Lock(r)}

\* Mutant: the locks of the storing context are cleared in place of the others'.
clearLoadLocksOwn(locks, r) == {k \in locks : ~(intersects(k, r) /\ k.ctx = r.ctx)}

clearLoadLocks(locks, r) == {k \in locks : ~(intersects(k, r) /\ k.ctx # r.ctx)}

-----------------------------------------------------------------------------
(* The metadata of a block.                                                *)

\* CacheBlk::invalidate; the tag becomes MaxAddr, which is no block's tag.
Invalidated == [valid |-> FALSE, tag |-> -1, secure |-> FALSE, dirty |-> FALSE, lockList |-> {}]

isFree(b) == ~b.valid

matchTag(b, tag, secure) == b.valid /\ b.tag = tag /\ b.secure = secure

\* insert: only valid, tag and secure bit are written, the rest stays as it was.
insert(b, tag, secure) ==
  [valid |-> TRUE, tag |-> tag, secure |-> b.secure \/ secure, dirty |-> b.dirty,
   lockList |-> b.lockList]

invalidated(b) == Invalidated

\* CacheBlk::operator=(CacheBlk&&): the block left behind is invalidated.
moved(dest, src) ==
  [valid |-> TRUE, tag |-> src.tag, secure |-> dest.secure \/ src.secure,
   dirty |-> dest.dirty \/ src.dirty, lockList |-> src.lockList]

-----------------------------------------------------------------------------
(* BaseTags and BaseSetAssoc.                                              *)

Hits(addr, secure) ==
  {e \in getPossibleEntries(addr) : matchTag(blks[e], extractTag(addr), secure)}

First(entries) == CHOOSE e \in entries : \A f \in entries : e[2] <= f[2]

findBlock(addr, secure) ==
  IF Hits(addr, secure) = {} THEN NoEntry ELSE First(Hits(addr, secure))

Block(r) == findBlock(r.addr, r.secure)

regenerateBlkAddr(e) == regenerateAddr(blks[e].tag, e[1])

\* Mutant: the random draw stands although a candidate is marked invalid.
getVictimAny(candidates) == candidates

\* Random::getVictim: the first candidate marked invalid, else any candidate.
getVictim(candidates) ==
  LET free == {e \in candidates : ~replValid[e]}
  IN  IF free # {} THEN {First(free)} ELSE candidates

findVictim(addr) == getVictim(getPossibleEntries(addr))

-----------------------------------------------------------------------------
Init == /\ blks = [e \in Entry |-> Invalidated]
        /\ replValid = [e \in Entry |-> FALSE]
        /\ last = [op |-> "none"]
        /\ failed = "none"

Running == failed = "none"

\* allocateBlock, called for a line that findBlock does not find.  The victim is
\* inserted over: handleEvictions evicts nothing, so a valid victim reaches the
\* assertion of insertBlock.
allocateBlock(l) ==
  /\ Running
  /\ findBlock(l.addr, l.secure) = NoEntry
  /\ \E e \in findVictim(l.addr) :
       IF isFree(blks[e])
         THEN /\ blks' = [blks EXCEPT ![e] = insert(blks[e], extractTag(l.addr), l.secure)]
              /\ replValid' = [replValid EXCEPT ![e] = TRUE]
              /\ UNCHANGED failed
         ELSE failed' = "insertBlock: !blk->isValid()" /\ UNCHANGED <<blks, replValid>>
  /\ UNCHANGED last

\* BaseSetAssoc::invalidate of a valid block.
invalidate(e) ==
  /\ Running
  /\ blks[e].valid
  /\ blks' = [blks EXCEPT ![e] = invalidated(blks[e])]
  /\ replValid' = [replValid EXCEPT ![e] = FALSE]
  /\ UNCHANGED <<last, failed>>

\* BaseSetAssoc::moveBlock, to a free block of the same set: the destination comes
\* from findVictim for the address of the block moved.
moveBlock(src, dest) ==
  /\ Running
  /\ blks[src].valid /\ isFree(blks[dest]) /\ src[1] = dest[1]
  /\ blks' = [blks EXCEPT ![dest] = moved(blks[dest], blks[src]), ![src] = Invalidated]
  /\ replValid' = [replValid EXCEPT ![src] = FALSE, ![dest] = TRUE]
  /\ UNCHANGED <<last, failed>>

\* A response with dirty data, or a write to a whole line, marks the block dirty;
\* the writebacks and writebackVisitor clear the mark.
setDirty(e) ==
  /\ Running
  /\ blks[e].valid
  /\ blks' = [blks EXCEPT ![e].dirty = TRUE]
  /\ UNCHANGED <<replValid, last, failed>>

\* isSet is false for a block that is not valid.
writebackVisitor(e) ==
  /\ Running
  /\ blks[e].valid /\ blks[e].dirty
  /\ blks' = [blks EXCEPT ![e].dirty = FALSE]
  /\ UNCHANGED <<replValid, last, failed>>

LoadLocked(r) ==
  /\ Running
  /\ Block(r) # NoEntry
  /\ blks' = [blks EXCEPT ![Block(r)].lockList = trackLoadLocked(blks[Block(r)].lockList, r)]
  /\ last' = [op |-> "LoadLocked", req |-> r, granted |-> TRUE]
  /\ UNCHANGED <<replValid, failed>>

\* checkWrite for a plain store.
Store(r) ==
  /\ Running
  /\ Block(r) # NoEntry
  /\ blks' = [blks EXCEPT ![Block(r)].lockList = clearLoadLocks(blks[Block(r)].lockList, r)]
  /\ last' = [op |-> "Store", req |-> r, granted |-> TRUE]
  /\ UNCHANGED <<replValid, failed>>

\* checkWrite for a store conditional: the matching lock is used up, then the
\* locks of the other contexts are cleared whether or not there was one.
StoreConditional(r) ==
  /\ Running
  /\ Block(r) # NoEntry
  /\ LET locks == blks[Block(r)].lockList
         matching == {k \in locks : matches(k, r)}
     IN  \/ /\ matching = {}
            /\ blks' = [blks EXCEPT ![Block(r)].lockList = clearLoadLocks(locks, r)]
            /\ last' = [op |-> "StoreConditional", req |-> r, granted |-> FALSE]
         \/ \E k \in matching :
              /\ blks' = [blks EXCEPT ![Block(r)].lockList = clearLoadLocks(locks \ {k}, r)]
              /\ last' = [op |-> "StoreConditional", req |-> r, granted |-> TRUE]
  /\ UNCHANGED <<replValid, failed>>

Next ==
  \/ \E l \in Lines : allocateBlock(l)
  \/ \E e \in Entry : invalidate(e) \/ setDirty(e) \/ writebackVisitor(e)
  \/ \E src, dest \in Entry : moveBlock(src, dest)
  \/ \E r \in Requests : LoadLocked(r) \/ Store(r) \/ StoreConditional(r)

Spec == Init /\ [][Next]_vars

-----------------------------------------------------------------------------
(* Properties.                                                             *)

LockType == [ctx : {r.ctx : r \in Requests}, low : Nat, high : Nat]

\* Type invariant.
TypeOK ==
  /\ blks \in [Entry -> [valid : BOOLEAN, tag : Nat \union {-1}, secure : BOOLEAN,
                         dirty : BOOLEAN, lockList : SUBSET LockType]]
  /\ replValid \in [Entry -> BOOLEAN]
  /\ last.op \in {"none", "LoadLocked", "Store", "StoreConditional"}
  /\ last.op # "none" => last.req \in Requests /\ last.granted \in BOOLEAN
  /\ failed \in {"none", "insertBlock: !blk->isValid()"}

\* An invalid block carries nothing into the line inserted over it: insert writes
\* the valid bit, the tag and the secure bit only, so a dirty bit or a load lock
\* that outlived an invalidation or a move would become the next line's.
FreeBlocksBlank == \A e \in Entry : isFree(blks[e]) => blks[e] = Invalidated

\* The replacement policy and the blocks keep separate valid bits; they agree, so
\* getVictim never passes over a free block and the assertion of insertBlock ends
\* the program only in a set that has no free block left.
FillFailsOnlyWhenFull ==
  /\ \A e \in Entry : replValid[e] = blks[e].valid
  /\ failed # "none" =>
       \E s \in 0 .. numSets - 1 : \A w \in 0 .. assoc - 1 : blks[<<s, w>>].valid

\* A line sits in one block, and the address regenerated from the tag and the
\* position of that block finds the block again: a writeback goes to the line it
\* came from, and a lookup never has to choose.
RegeneratedAddressFindsBlock ==
  \A e \in Entry : blks[e].valid =>
     /\ Hits(regenerateBlkAddr(e), blks[e].secure) = {e}
     /\ [addr |-> regenerateBlkAddr(e), secure |-> blks[e].secure] \in Lines

\* Two load locks of a block never overlap, and a lock lies within the block it is
\* kept in, even after the block was moved or the way was reused: checkWrite, which
\* uses up one matching lock, leaves no second one behind.
LocksDisjoint ==
  \A e \in Entry : \A j, k \in blks[e].lockList :
     /\ j.low <= j.high
     /\ regenerateBlkAddr(e) <= j.low /\ j.high < regenerateBlkAddr(e) + blkSize
     /\ j # k => j.high < k.low \/ k.high < j.low

-----------------------------------------------------------------------------
(* The tag store implements the store of lines.                            *)

bytesOf(r) == {[byte |-> a, secure |-> r.secure] : a \in r.addr .. r.addr + r.size - 1}

Present == {e \in Entry : blks[e].valid}

lineOf(e) == [addr |-> regenerateBlkAddr(e), secure |-> blks[e].secure]

reservedBytes ==
  UNION {UNION {{k.ctx} \X {[byte |-> a, secure |-> blks[e].secure] : a \in k.low .. k.high}
                : k \in blks[e].lockList} : e \in Present}

Abs == INSTANCE LineStore WITH
         lines <- {lineOf(e) : e \in Present},
         dirty <- {lineOf(e) : e \in {f \in Present : blks[f].dirty}},
         reserved <- reservedBytes

\* Through fills, invalidations, moves between ways and every order of load-locked
\* reads, stores and store conditionals of the contexts, the tag store behaves as
\* the store of lines: a fill adds one line and disturbs no other, moving a block
\* changes nothing, and a store conditional is granted only on bytes its context
\* locked and no other context has stored to since, once per lock.
ImplementsLineStore == Abs!Spec
=============================================================================
