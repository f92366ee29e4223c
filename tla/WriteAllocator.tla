---------------------------- MODULE WriteAllocator ----------------------------
(***************************************************************************)
(* The write allocator (cache/include/cache_base.h): it watches the writes *)
(* that miss for a stream of consecutive addresses, and while there is one *)
(* holds back misses until whole lines are written.  A record, with its    *)
(* methods as operators.  Limits are in bytes.                             *)
(***************************************************************************)
EXTENDS Naturals

CONSTANTS coalesceLimit, noAllocateLimit, delayThreshold

Mode == {"ALLOCATE", "COALESCE", "NO_ALLOCATE"}

\* A block without a counter counts as zero, as delayCtr's operator[] has it.
NewWriteAllocator(Blk) ==
    [mode |-> "ALLOCATE", byteCount |-> 0, nextAddr |-> 0, delayCtr |-> [b \in Blk |-> 0]]

coalesce(wa) == wa.mode # "ALLOCATE"

reset(wa) == [wa EXCEPT !.mode = "ALLOCATE", !.byteCount = 0, !.nextAddr = 0]

\* delay() when it returns TRUE.
delay(wa, blk) == [wa EXCEPT !.delayCtr[blk] = @ - 1]

resetDelay(wa, blk) == [wa EXCEPT !.delayCtr[blk] = 0]

\* The mode after byteCount bytes of a stream: one switch per write at most.
nextMode(mode, byteCount) ==
    CASE mode = "ALLOCATE" /\ byteCount > coalesceLimit -> "COALESCE"
      [] mode = "COALESCE" /\ byteCount > noAllocateLimit -> "NO_ALLOCATE"
      [] OTHER -> mode

updateMode(wa, addr, size, blk) ==
    LET count == IF wa.mode = "NO_ALLOCATE" THEN wa.byteCount ELSE wa.byteCount + size
    IN  IF wa.nextAddr = addr
        THEN [mode |-> nextMode(wa.mode, count), byteCount |-> count, nextAddr |-> addr + size,
              delayCtr |-> [wa.delayCtr EXCEPT ![blk] = delayThreshold]]
        ELSE [mode |-> "ALLOCATE", byteCount |-> size, nextAddr |-> addr + size,
              delayCtr |-> [wa.delayCtr EXCEPT ![blk] = 0]]

=============================================================================
