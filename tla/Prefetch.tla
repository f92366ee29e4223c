----------------------------- MODULE Prefetch -----------------------------
(***************************************************************************)
(* The tagged prefetcher (prefetch::Base, Queued, Tagged) beside the cache *)
(* it watches: an access is shown to the prefetcher, which queues the next *)
(* lines; the cache takes a queued line when it has nothing else to send,  *)
(* looks once more whether the line is still wanted, and fetches it.       *)
(*                                                                         *)
(* An address is the number of its line; addresses are physical, and one   *)
(* security space is modelled.  Tagged gives every candidate priority 0,   *)
(* so the queue is in order of arrival and "lowest priority, oldest" is    *)
(* its head.  Candidates never leave the page of the access, so the queue  *)
(* of missing translations stays empty and is left out.  The two probe     *)
(* calls of recvTimingReq are commented out in the code; the model shows   *)
(* the accesses to the prefetcher at those two places.                     *)
(***************************************************************************)
EXTENDS FiniteSets, Lists

CONSTANTS pageLines,
          DemandLines,                 \* the lines the core asks for
          queueSize, degree,
          numEntries, demandReserve,   \* of the MSHR queue; its reserve is 0
          Configs,                     \* parameters of the prefetcher
          maxIssued                    \* bound on issuedPrefetches

Config == [queueFilter : BOOLEAN, queueSquash : BOOLEAN, cacheSnoop : BOOLEAN,
           onMiss : BOOLEAN, onInst : BOOLEAN, onData : BOOLEAN, onRead : BOOLEAN,
           onWrite : BOOLEAN, prefetchOnAccess : BOOLEAN,
           prefetchOnPfHit : BOOLEAN, throttleControlPct : 0 .. 100]

ASSUME PrefetchAssumption ==
  /\ DemandLines \subseteq Nat
  /\ pageLines \in Nat \ {0} /\ queueSize \in Nat \ {0} /\ degree \in Nat
  /\ Configs \subseteq Config

VARIABLES conf,               \* the configuration, fixed
          pfq,                \* the queued lines
          issuedPrefetches, usefulPrefetches,
          blks,               \* lines of the blocks the cache holds
          marked,             \* those whose block is marked prefetched
          mshrs,              \* allocated MSHRs [line, core, sent]
          demanded            \* lines of the accesses shown to notify()

prefetchVars == <<conf, pfq, issuedPrefetches, usefulPrefetches, blks, marked,
                  mshrs, demanded>>

\* "silent" stands for what probeNotify does not look at: software prefetches,
\* cache maintenance, writes that are being coalesced; "excluded" for what
\* observeAccess does not count: uncacheable accesses, invalidating writes and
\* clean evictions.
Kind == {"read", "write", "fetch", "excluded", "silent"}

-----------------------------------------------------------------------------
(* What the cache tells the prefetcher (CacheAccessor).                    *)

inCache(line) == line \in blks

hasBeenPrefetched(line) == line \in marked

Holds(queue, line) == \E i \in DOMAIN queue : queue[i].line = line

\* Mutant: only the blocks are looked at.
redundantCached(queue, line) == inCache(line)

\* Is line, with the MSHRs in queue, cached or on its way?
redundant(queue, line) == inCache(line) \/ Holds(queue, line)

-----------------------------------------------------------------------------
(* The prefetcher.                                                         *)

samePage(a, b) == a \div pageLines = b \div pageLines

observeAccess(kind, miss, prefetched) ==
  IF ~miss /\ conf.prefetchOnPfHit THEN prefetched
  ELSE /\ miss \/ conf.prefetchOnAccess
       /\ kind # "excluded"
       /\ IF kind = "fetch" THEN conf.onInst ELSE conf.onData
       /\ kind = "read" => conf.onRead
       /\ kind = "write" => conf.onWrite
       /\ conf.onMiss => miss

getMaxPermittedPrefetches(total) ==
  IF total = 0 \/ issuedPrefetches = 0 THEN total
  ELSE LET unthrottled == total - (total * conf.throttleControlPct) \div 100
           min_pfs == IF unthrottled = 0 THEN 1 ELSE unthrottled
       IN  min_pfs + ((total - min_pfs) * usefulPrefetches) \div issuedPrefetches

alreadyInQueue(queue, line) == \E i \in DOMAIN queue : queue[i] = line

addToQueue(queue, line) ==
  Append(IF Len(queue) = queueSize THEN Tail(queue) ELSE queue, line)

\* insert(), while the cache has the MSHRs in outstanding.
insert(queue, outstanding, line) ==
  IF \/ conf.queueFilter /\ alreadyInQueue(queue, line)
     \/ conf.cacheSnoop /\ redundant(outstanding, line)
  THEN queue
  ELSE addToQueue(queue, line)

keep(queue, line, queued) == IF queued = line THEN queue ELSE Append(queue, queued)

\* The first loop of notify(): what is queued for line is removed.
squashed(line) ==
  LET queue[k \in 0 .. Len(pfq)] ==
        IF k = 0 THEN <<>> ELSE keep(queue[k - 1], line, pfq[k])
  IN  IF conf.queueSquash THEN queue[Len(pfq)] ELSE pfq

\* The d-th line of calculatePrefetch.
candidate(line, d) == line + d

\* The second loop of notify() at a candidate: the loop is over (num_pfs is
\* compared after an insertion only), the candidate is on another page, or it
\* is inserted.
propose(pass, line, d, outstanding, max_pfs) ==
  IF \/ pass.num_pfs # 0 /\ pass.num_pfs = max_pfs
     \/ ~samePage(candidate(line, d), line)
  THEN pass
  ELSE [queue |-> insert(pass.queue, outstanding, candidate(line, d)),
        num_pfs |-> pass.num_pfs + 1]

notify(line, outstanding) ==
  LET max_pfs == getMaxPermittedPrefetches(degree)
      pass[d \in 0 .. degree] ==
        IF d = 0 THEN [queue |-> squashed(line), num_pfs |-> 0]
        ELSE propose(pass[d - 1], line, d, outstanding, max_pfs)
  IN  pass[degree].queue

\* An access shown to the prefetcher when the cache has the MSHRs in outstanding.
probeNotify(line, kind, miss, outstanding) ==
  LET prefetched == hasBeenPrefetched(line)
  IN  IF kind = "silent" THEN UNCHANGED <<pfq, usefulPrefetches, demanded>>
      ELSE /\ usefulPrefetches' = usefulPrefetches + (IF prefetched THEN 1 ELSE 0)
           /\ IF observeAccess(kind, miss, prefetched)
              THEN pfq' = notify(line, outstanding) /\ demanded' = demanded \union {line}
              ELSE UNCHANGED <<pfq, demanded>>

-----------------------------------------------------------------------------
(* The cache.  The blocks fetched stay: the program never evicts one.      *)

PrefetchInit ==
  /\ conf \in Configs
  /\ pfq = <<>> /\ issuedPrefetches = 0 /\ usefulPrefetches = 0
  /\ blks = {} /\ marked = {} /\ mshrs = <<>>
  /\ demanded = {}

isBlocked == Len(mshrs) = numEntries

\* Mutant: the mark stays.
clearPrefetchedNot(line) == marked

clearPrefetched(line) == marked \ {line}

\* recvTimingReq: on a hit the prefetcher is notified first and the mark of
\* the block cleared then; on a miss it is notified after the MSHR is in place.
\* It does not ask whether the cache is blocked: a miss that needs an MSHR when
\* none is free fails an assert of the queue, and no step follows.
recvTimingReq(line, kind) ==
  /\ inCache(line) \/ Holds(mshrs, line) \/ ~isBlocked
  /\ IF inCache(line)
     THEN /\ probeNotify(line, kind, FALSE, mshrs)
          /\ marked' = clearPrefetched(line)
          /\ UNCHANGED mshrs
     ELSE /\ mshrs' = IF Holds(mshrs, line)
                      THEN [i \in DOMAIN mshrs |->
                              IF mshrs[i].line = line THEN [mshrs[i] EXCEPT !.core = TRUE]
                                                      ELSE mshrs[i]]
                      ELSE Append(mshrs, [line |-> line, core |-> TRUE, sent |-> FALSE])
          /\ probeNotify(line, kind, TRUE, mshrs')
          /\ UNCHANGED marked
  /\ UNCHANGED <<conf, issuedPrefetches, blks>>

Unsent == {i \in DOMAIN mshrs : ~mshrs[i].sent}

canPrefetch == Len(mshrs) < numEntries - (1 + demandReserve)

\* A round of the memory side with a miss that is ready: the oldest is sent.
sendMiss ==
  /\ \E i \in Unsent : /\ \A j \in Unsent : i <= j
                       /\ mshrs' = [mshrs EXCEPT ![i].sent = TRUE]
  /\ UNCHANGED <<conf, pfq, issuedPrefetches, usefulPrefetches, blks, marked, demanded>>

\* A round without one: a prefetch is taken with getPacket, and dropped when
\* its line came in or was asked for since it was queued.
sendPrefetch ==
  /\ Unsent = {} /\ canPrefetch /\ ~isBlocked
  /\ pfq # <<>> /\ issuedPrefetches < maxIssued
  /\ pfq' = Tail(pfq)
  /\ issuedPrefetches' = issuedPrefetches + 1
  /\ mshrs' = IF redundant(mshrs, Head(pfq)) THEN mshrs
              ELSE Append(mshrs, [line |-> Head(pfq), core |-> FALSE, sent |-> TRUE])
  /\ UNCHANGED <<conf, usefulPrefetches, blks, marked, demanded>>

\* The answer to an MSHR: the block is marked when only the prefetcher asked.
\* The memory of this program answers within the send, sendMiss or sendPrefetch
\* followed at once by this action; the interface allows any time after it.
recvTimingResp(i) ==
  /\ mshrs[i].sent
  /\ blks' = blks \union {mshrs[i].line}
  /\ marked' = IF mshrs[i].core THEN marked ELSE marked \union {mshrs[i].line}
  /\ mshrs' = eraseAt(mshrs, i)
  /\ UNCHANGED <<conf, pfq, issuedPrefetches, usefulPrefetches, demanded>>

PrefetchNext ==
  \/ \E l \in DemandLines, k \in Kind : recvTimingReq(l, k)
  \/ sendMiss
  \/ sendPrefetch
  \/ \E i \in DOMAIN mshrs : recvTimingResp(i)

PrefetchSpec == PrefetchInit /\ [][PrefetchNext]_prefetchVars

-----------------------------------------------------------------------------

\* A prefetch is counted useful at most once: the useful ones, those whose
\* block still carries its mark, and those on their way are together no more
\* than those issued.  The mark is cleared after the probe that counts it, and
\* a demand that joins the MSHR of a prefetch keeps the mark from being set.
UsefulAccounted ==
  usefulPrefetches
    + Cardinality(marked)
    + Cardinality({i \in DOMAIN mshrs : ~mshrs[i].core}) <= issuedPrefetches

\* The throttle permits at least the share of the candidates it never throttles,
\* one of them always, and never more than all: the accuracy it multiplies by
\* stays at 100% or below, whatever is issued, used and marked in between.  The
\* loop of notify() compares for equality, so no other limit would end it.
ThrottleWithinDegree ==
  LET permitted == getMaxPermittedPrefetches(degree)
      throttled == (degree * conf.throttleControlPct) \div 100
  IN  /\ permitted \in degree - throttled .. degree
      /\ degree > 0 => permitted > 0

\* A line is fetched once: no two MSHRs have the same line and none has one the
\* cache holds, although what insert() found out about a line is stale when
\* its prefetch is taken from the queue.
NeverFetchedTwice ==
  /\ \A i, j \in DOMAIN mshrs : mshrs[i].line = mshrs[j].line => i = j
  /\ \A i \in DOMAIN mshrs : ~inCache(mshrs[i].line)

\* With cacheSnoop and queueSquash the queue holds no line that a demand access
\* the prefetcher was shown has asked for: squashing removes it if it was queued
\* before, snooping keeps it out afterwards, on its way or cached.
NoPrefetchBehindDemand ==
  conf.cacheSnoop /\ conf.queueSquash => \A i \in DOMAIN pfq : pfq[i] \notin demanded

=============================================================================
