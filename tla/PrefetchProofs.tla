---------------------------- MODULE PrefetchProofs ----------------------------
(***************************************************************************)
(* The properties of the prefetcher beside the cache, proved for every     *)
(* page size, queue size, degree and set of configurations.  PrefetchInv   *)
(* is about the MSHRs and the marks; BehindInv, about the queue, needs     *)
(* what the two loops of notify() do.                                      *)
(***************************************************************************)
EXTENDS Prefetch, SequenceTheorems, FiniteSetTheorems, TLAPS

(***************************************************************************)
(* The MSHRs and the marks                                                 *)
(***************************************************************************)

LEMMA SliceProps ==
    ASSUME NEW S, NEW s \in Seq(S), NEW m \in 1 .. Len(s) + 1, NEW n \in 0 .. Len(s), m <= n + 1
    PROVE  /\ SubSeq(s, m, n) \in Seq(S)
           /\ Len(SubSeq(s, m, n)) = n - m + 1
           /\ \A i \in 1 .. n - m + 1 : SubSeq(s, m, n)[i] = s[m + i - 1]
<1>1. Len(s) \in Nat /\ \A i \in 1 .. Len(s) : s[i] \in S
    BY LenProperties, ElementOfSeq
<1>2. m \in Int /\ n \in Int /\ \A i \in m .. n : s[i] \in S
    BY <1>1
<1>3. /\ SubSeq(s, m, n) \in Seq(S)
      /\ Len(SubSeq(s, m, n)) = IF m <= n THEN n - m + 1 ELSE 0
      /\ \A i \in 1 .. n - m + 1 : SubSeq(s, m, n)[i] = s[m + i - 1]
    BY <1>2, SubSeqProperties
<1>4. QED
    BY <1>1, <1>3

LEMMA EraseAtProps ==
    ASSUME NEW S, NEW s \in Seq(S), NEW k \in 1 .. Len(s)
    PROVE  /\ eraseAt(s, k) \in Seq(S) /\ Len(eraseAt(s, k)) = Len(s) - 1
           /\ \A i \in 1 .. Len(s) - 1 : eraseAt(s, k)[i] = s[IF i < k THEN i ELSE i + 1]
<1> DEFINE a == SubSeq(s, 1, k - 1)
           b == SubSeq(s, k + 1, Len(s))
<1>1. Len(s) \in Nat
    BY LenProperties
<1>2. /\ 1 \in 1 .. Len(s) + 1 /\ k - 1 \in 0 .. Len(s) /\ 1 <= (k - 1) + 1
      /\ k + 1 \in 1 .. Len(s) + 1 /\ Len(s) \in 0 .. Len(s) /\ k + 1 <= Len(s) + 1
    BY <1>1
<1>3. a \in Seq(S) /\ Len(a) = k - 1 /\ \A i \in 1 .. k - 1 : a[i] = s[i]
    <2>1. /\ a \in Seq(S) /\ Len(a) = (k - 1) - 1 + 1
          /\ \A i \in 1 .. (k - 1) - 1 + 1 : a[i] = s[1 + i - 1]
        BY <1>2, SliceProps
    <2>2. QED
        BY <1>1, <2>1
<1>4. b \in Seq(S) /\ Len(b) = Len(s) - k /\ \A i \in 1 .. Len(s) - k : b[i] = s[k + i]
    <2>1. /\ b \in Seq(S) /\ Len(b) = Len(s) - (k + 1) + 1
          /\ \A i \in 1 .. Len(s) - (k + 1) + 1 : b[i] = s[(k + 1) + i - 1]
        BY <1>2, SliceProps
    <2>2. QED
        BY <1>1, <2>1
<1>5. eraseAt(s, k) = a \o b
    BY DEF eraseAt
<1> HIDE DEF a, b
<1>6. /\ a \o b \in Seq(S) /\ Len(a \o b) = Len(a) + Len(b)
      /\ \A i \in 1 .. Len(a) + Len(b) : (a \o b)[i] = IF i <= Len(a) THEN a[i] ELSE b[i - Len(a)]
    BY ZenonT(60), <1>3, <1>4, ConcatProperties
<1>7. QED
    BY <1>1, <1>3, <1>4, <1>5, <1>6

\* What an MSHR is, for lines in L.
Mshr(L) == [line : L, core : BOOLEAN, sent : BOOLEAN]

\* The MSHRs in queue that only the prefetcher asked for.
Alone(queue) == {i \in DOMAIN queue : ~queue[i].core}

LEMMA AloneFinite ==
    ASSUME NEW S, NEW s \in Seq(S)
    PROVE  /\ DOMAIN s = 1 .. Len(s) /\ Len(s) \in Nat
           /\ IsFiniteSet(Alone(s)) /\ Cardinality(Alone(s)) \in Nat
<1>1. DOMAIN s = 1 .. Len(s) /\ Len(s) \in Nat
    BY LenProperties
<1>2. IsFiniteSet(1 .. Len(s)) /\ Alone(s) \in SUBSET (1 .. Len(s))
    BY <1>1, FS_Interval DEF Alone
<1>3. IsFiniteSet(Alone(s))
    BY <1>2, FS_Subset
<1>4. QED
    BY <1>1, <1>3, FS_CardinalityType

LEMMA AloneAppend ==
    ASSUME NEW S, NEW s \in Seq(S), NEW r \in S
    PROVE  Cardinality(Alone(Append(s, r))) <= Cardinality(Alone(s)) + (IF r.core THEN 0 ELSE 1)
<1> DEFINE t == Append(s, r)
<1>1. /\ t \in Seq(S) /\ Len(t) = Len(s) + 1 /\ t[Len(s) + 1] = r
      /\ \A i \in 1 .. Len(s) : t[i] = s[i]
    BY AppendProperties
<1>2. /\ DOMAIN s = 1 .. Len(s) /\ Len(s) \in Nat /\ DOMAIN t = 1 .. Len(t)
      /\ IsFiniteSet(Alone(s)) /\ Cardinality(Alone(s)) \in Nat
    BY <1>1, AloneFinite
<1> HIDE DEF t
<1>3. CASE r.core
    <2>1. Alone(t) = Alone(s)
        BY <1>1, <1>2, <1>3 DEF Alone
    <2>2. QED
        BY <1>2, <1>3, <2>1 DEF t
<1>4. CASE ~r.core
    <2>1. Alone(t) = Alone(s) \union {Len(s) + 1}
        BY <1>1, <1>2, <1>4 DEF Alone
    <2>2. Cardinality(Alone(t)) <= Cardinality(Alone(s)) + 1
        BY <1>2, <2>1, FS_AddElement
    <2>3. QED
        BY <1>4, <2>2 DEF t
<1>5. QED
    BY <1>3, <1>4

LEMMA AloneErased ==
    ASSUME NEW S, NEW s \in Seq(S), NEW k \in 1 .. Len(s)
    PROVE  Cardinality(Alone(eraseAt(s, k)))
             <= Cardinality(Alone(s)) - (IF s[k].core THEN 0 ELSE 1)
<1> DEFINE t == eraseAt(s, k)
           old(i) == IF i < k THEN i ELSE i + 1
           f == [i \in Alone(t) |-> old(i)]
           rest == Alone(s) \ {k}
<1>1. /\ t \in Seq(S) /\ Len(t) = Len(s) - 1
      /\ \A i \in 1 .. Len(s) - 1 : t[i] = s[old(i)]
    BY EraseAtProps
<1>2. /\ DOMAIN s = 1 .. Len(s) /\ Len(s) \in Nat /\ DOMAIN t = 1 .. Len(t)
      /\ IsFiniteSet(Alone(s)) /\ Cardinality(Alone(s)) \in Nat
    BY <1>1, AloneFinite
<1> HIDE DEF t
<1>3. \A i \in Alone(t) : i \in 1 .. Len(s) - 1 /\ old(i) \in rest
    BY <1>1, <1>2 DEF Alone
<1>4. \A i, j \in Alone(t) : old(i) = old(j) => i = j
    BY <1>2, <1>3
<1>5. f \in Injection(Alone(t), rest)
    <2>1. f \in [Alone(t) -> rest]
        BY <1>3
    <2>2. \A i, j \in Alone(t) : f[i] = f[j] => i = j
        BY <1>4
    <2>3. QED
        BY <2>1, <2>2 DEF Injection, IsInjective
<1>6. /\ IsFiniteSet(rest)
      /\ Cardinality(rest) = IF k \in Alone(s) THEN Cardinality(Alone(s)) - 1
                                               ELSE Cardinality(Alone(s))
    BY ZenonT(60), <1>2, FS_RemoveElement
<1>7. Cardinality(Alone(t)) <= Cardinality(rest)
    <2> HIDE DEF f, rest
    <2>1. QED
        BY <1>5, <1>6, FS_Injection
<1>8. k \in Alone(s) <=> ~s[k].core
    BY <1>2 DEF Alone
<1>9. CASE s[k].core
    BY <1>2, <1>6, <1>7, <1>8, <1>9 DEF t
<1>10. CASE ~s[k].core
    BY <1>2, <1>6, <1>7, <1>8, <1>10 DEF t
<1>11. QED
    BY <1>9, <1>10

LEMMA AloneTouched ==
    ASSUME NEW S, NEW s \in Seq(S), NEW t \in Seq(S), Len(t) = Len(s),
           \A i \in 1 .. Len(s) : s[i].core => t[i].core
    PROVE  Cardinality(Alone(t)) <= Cardinality(Alone(s))
<1>1. /\ DOMAIN s = 1 .. Len(s) /\ DOMAIN t = 1 .. Len(t) /\ IsFiniteSet(Alone(s))
    BY AloneFinite
<1>2. Alone(t) \in SUBSET Alone(s)
    BY <1>1 DEF Alone
<1>3. QED
    BY <1>1, <1>2, FS_Subset

\* NeverFetchedTwice of the MSHRs in queue and the blocks in cached.
FetchedOnce(queue, cached) ==
    /\ \A i, j \in 1 .. Len(queue) : queue[i].line = queue[j].line => i = j
    /\ \A i \in 1 .. Len(queue) : queue[i].line \notin cached

\* The MSHRs are records, the marks are those of cached blocks and finitely
\* many, the counters are numbers: what the two properties need to be inductive.
PrefetchInv ==
    /\ \E L : mshrs \in Seq(Mshr(L))
    /\ IsFiniteSet(marked) /\ marked \subseteq blks
    /\ usefulPrefetches \in Nat /\ issuedPrefetches \in Nat
    /\ FetchedOnce(mshrs, blks)
    /\ usefulPrefetches + Cardinality(marked) + Cardinality(Alone(mshrs)) <= issuedPrefetches

LEMMA PrefetchInvImplies ==
    ASSUME PrefetchInv
    PROVE  NeverFetchedTwice /\ UsefulAccounted
<1>1. PICK L : mshrs \in Seq(Mshr(L))
    BY DEF PrefetchInv
<1>2. DOMAIN mshrs = 1 .. Len(mshrs)
    BY <1>1, LenProperties
<1>3. NeverFetchedTwice
    BY <1>2 DEF PrefetchInv, FetchedOnce, NeverFetchedTwice, inCache
<1>4. UsefulAccounted
    BY DEF PrefetchInv, UsefulAccounted, Alone
<1>5. QED
    BY <1>3, <1>4

\* The MSHRs of a list stay records when lines are added.
LEMMA MshrGrows ==
    ASSUME NEW L, NEW s \in Seq(Mshr(L)), NEW x
    PROVE  s \in Seq(Mshr(L \union {x}))
<1>1. \A e \in Mshr(L) : e \in Mshr(L \union {x})
    BY DEF Mshr
<1>2. Len(s) \in Nat /\ s \in [1 .. Len(s) -> Mshr(L)]
    BY LenProperties
<1>3. s \in [1 .. Len(s) -> Mshr(L \union {x})]
    BY ZenonT(60), <1>1, <1>2
<1>4. QED
    <2> DEFINE M == Mshr(L \union {x})
               n == Len(s)
    <2>1. n \in Nat /\ s \in [1 .. n -> M]
        BY ZenonT(60), <1>2, <1>3
    <2> HIDE DEF M, n
    <2>2. s \in Seq(M)
        BY <2>1, SeqDef
    <2>3. QED
        BY <2>2 DEF M

\* A new MSHR for a line that is neither cached nor on its way.
LEMMA MshrAllocated ==
    ASSUME NEW L, mshrs \in Seq(Mshr(L)), NEW line, NEW core \in BOOLEAN, NEW sentNow \in BOOLEAN,
           FetchedOnce(mshrs, blks), ~redundant(mshrs, line),
           NEW queue, queue = Append(mshrs, [line |-> line, core |-> core, sent |-> sentNow])
    PROVE  /\ queue \in Seq(Mshr(L \union {line})) /\ FetchedOnce(queue, blks)
           /\ Cardinality(Alone(queue)) <= Cardinality(Alone(mshrs)) + (IF core THEN 0 ELSE 1)
<1> DEFINE r == [line |-> line, core |-> core, sent |-> sentNow]
           M == Mshr(L \union {line})
<1>1. mshrs \in Seq(M) /\ r \in M /\ r.core = core /\ r.line = line
    BY ZenonT(60), MshrGrows DEF Mshr
<1> HIDE DEF r, M
<1>2. /\ queue \in Seq(M) /\ Len(queue) = Len(mshrs) + 1 /\ queue[Len(mshrs) + 1] = r
      /\ \A i \in 1 .. Len(mshrs) : queue[i] = mshrs[i]
    BY <1>1, AppendProperties DEF r
<1>3. Cardinality(Alone(queue)) <= Cardinality(Alone(mshrs)) + (IF core THEN 0 ELSE 1)
    BY <1>1, AloneAppend DEF r
<1>4. Len(mshrs) \in Nat /\ DOMAIN mshrs = 1 .. Len(mshrs)
    BY <1>1, LenProperties
<1>5. line \notin blks /\ \A i \in 1 .. Len(mshrs) : mshrs[i].line # line
    BY ZenonT(60), <1>4 DEF redundant, inCache, Holds
<1>6. FetchedOnce(queue, blks)
    BY <1>1, <1>2, <1>4, <1>5 DEF FetchedOnce
<1>7. QED
    BY <1>2, <1>3, <1>6 DEF M

LEMMA HitKeeps ==
    ASSUME PrefetchInv, NEW line, NEW kind, recvTimingReq(line, kind), inCache(line)
    PROVE  PrefetchInv'
<1>1. /\ mshrs' = mshrs /\ blks' = blks /\ issuedPrefetches' = issuedPrefetches
      /\ marked' = marked \ {line}
      /\ \/ usefulPrefetches' = usefulPrefetches
         \/ usefulPrefetches' = usefulPrefetches + (IF line \in marked THEN 1 ELSE 0)
    BY ZenonT(60) DEF recvTimingReq, probeNotify, clearPrefetched, hasBeenPrefetched
<1>2. /\ IsFiniteSet(marked \ {line})
      /\ Cardinality(marked \ {line}) = IF line \in marked THEN Cardinality(marked) - 1
                                                           ELSE Cardinality(marked)
    BY FS_RemoveElement DEF PrefetchInv
<1>3. Cardinality(marked) \in Nat /\ Cardinality(Alone(mshrs)) \in Nat
    BY FS_CardinalityType, AloneFinite DEF PrefetchInv
<1>4. usefulPrefetches' \in Nat
    BY <1>1 DEF PrefetchInv
<1>5. usefulPrefetches' + Cardinality(marked') <= usefulPrefetches + Cardinality(marked)
    BY <1>1, <1>2, <1>3 DEF PrefetchInv
<1>6. usefulPrefetches' + Cardinality(marked') + Cardinality(Alone(mshrs)) <= issuedPrefetches
    BY <1>1, <1>2, <1>3, <1>4, <1>5 DEF PrefetchInv
<1>7. marked' \subseteq blks' /\ IsFiniteSet(marked')
    BY <1>1, <1>2 DEF PrefetchInv
<1>8. QED
    BY <1>1, <1>4, <1>6, <1>7 DEF PrefetchInv

\* A miss is not marked, and a demand joining an MSHR keeps its line.
LEMMA MissKeeps ==
    ASSUME PrefetchInv, NEW line, NEW kind, recvTimingReq(line, kind), ~inCache(line)
    PROVE  PrefetchInv'
<1>1. /\ mshrs' = IF Holds(mshrs, line)
                  THEN [i \in DOMAIN mshrs |->
                          IF mshrs[i].line = line THEN [mshrs[i] EXCEPT !.core = TRUE] ELSE mshrs[i]]
                  ELSE Append(mshrs, [line |-> line, core |-> TRUE, sent |-> FALSE])
      /\ blks' = blks /\ issuedPrefetches' = issuedPrefetches /\ marked' = marked
    BY DEF recvTimingReq
<1>2. usefulPrefetches' = usefulPrefetches
    <2>1. ~hasBeenPrefetched(line)
        BY DEF PrefetchInv, inCache, hasBeenPrefetched
    <2>2. probeNotify(line, kind, TRUE, mshrs')
        BY ZenonT(60) DEF recvTimingReq
    <2>3. usefulPrefetches' = usefulPrefetches \/ usefulPrefetches' = usefulPrefetches + 0
        BY ZenonT(60), <2>1, <2>2 DEF probeNotify
    <2>4. QED
        BY <2>3 DEF PrefetchInv
<1>3. PICK L : mshrs \in Seq(Mshr(L))
    BY DEF PrefetchInv
<1>4. DOMAIN mshrs = 1 .. Len(mshrs) /\ Len(mshrs) \in Nat
    BY <1>3, LenProperties
<1>5. /\ \E K : mshrs' \in Seq(Mshr(K)) /\ FetchedOnce(mshrs', blks)
      /\ \E K : mshrs' \in Seq(Mshr(K)) /\ Cardinality(Alone(mshrs')) <= Cardinality(Alone(mshrs))
    <2>1. CASE Holds(mshrs, line)
        <3>1. ASSUME NEW i \in 1 .. Len(mshrs)
              PROVE  mshrs'[i] \in Mshr(L) /\ mshrs'[i].line = mshrs[i].line
                     /\ (mshrs[i].core => mshrs'[i].core)
            <4>1. mshrs[i] \in Mshr(L)
                BY <1>3, ElementOfSeq
            <4>2. mshrs'[i] = IF mshrs[i].line = line THEN [mshrs[i] EXCEPT !.core = TRUE] ELSE mshrs[i]
                BY <1>1, <1>4, <2>1
            <4>3. QED
                BY ZenonT(60), <4>1, <4>2 DEF Mshr
        <3>2. DOMAIN mshrs' = 1 .. Len(mshrs) /\ mshrs' = [i \in 1 .. Len(mshrs) |-> mshrs'[i]]
            BY <1>1, <1>4, <2>1
        <3>3. mshrs' \in [1 .. Len(mshrs) -> Mshr(L)]
            BY <3>1, <3>2
        <3>4. mshrs' \in Seq(Mshr(L)) /\ Len(mshrs') = Len(mshrs)
            BY <1>4, <3>3, SeqDef, LenProperties
        <3>5. Cardinality(Alone(mshrs')) <= Cardinality(Alone(mshrs))
            BY ZenonT(60), <1>3, <3>1, <3>4, AloneTouched
        <3>6. FetchedOnce(mshrs', blks)
            BY ZenonT(60), <3>1, <3>4 DEF PrefetchInv, FetchedOnce
        <3>7. QED
            BY <3>4, <3>5, <3>6
    <2>2. CASE ~Holds(mshrs, line)
        <3>1. ~redundant(mshrs, line) /\ FetchedOnce(mshrs, blks)
            BY <2>2 DEF redundant, PrefetchInv
        <3>2. mshrs' = Append(mshrs, [line |-> line, core |-> TRUE, sent |-> FALSE])
            BY <1>1, <2>2
        <3>3. /\ mshrs' \in Seq(Mshr(L \union {line})) /\ FetchedOnce(mshrs', blks)
              /\ Cardinality(Alone(mshrs')) <= Cardinality(Alone(mshrs)) + (IF TRUE THEN 0 ELSE 1)
            BY ZenonT(60), <1>3, <3>1, <3>2, MshrAllocated
        <3>4. Cardinality(Alone(mshrs)) \in Nat /\ Cardinality(Alone(mshrs')) \in Nat
            BY <1>3, <3>3, AloneFinite
        <3>5. QED
            BY <3>3, <3>4
    <2>3. QED
        BY <2>1, <2>2
<1>6. /\ Cardinality(Alone(mshrs)) \in Nat /\ Cardinality(Alone(mshrs')) \in Nat
      /\ Cardinality(marked) \in Nat
    BY <1>3, <1>5, AloneFinite, FS_CardinalityType DEF PrefetchInv
<1>7. usefulPrefetches + Cardinality(marked) + Cardinality(Alone(mshrs')) <= issuedPrefetches
    BY <1>5, <1>6 DEF PrefetchInv
<1>8. QED
    BY ZenonT(60), <1>1, <1>2, <1>5, <1>7 DEF PrefetchInv

LEMMA SendMissKeeps ==
    ASSUME PrefetchInv, sendMiss
    PROVE  PrefetchInv'
<1>1. PICK k \in Unsent : mshrs' = [mshrs EXCEPT ![k].sent = TRUE]
    BY ZenonT(60) DEF sendMiss
<1>2. PICK L : mshrs \in Seq(Mshr(L))
    BY DEF PrefetchInv
<1>3. DOMAIN mshrs = 1 .. Len(mshrs) /\ Len(mshrs) \in Nat /\ k \in 1 .. Len(mshrs)
    BY <1>2, LenProperties DEF Unsent
<1>4. ASSUME NEW i \in 1 .. Len(mshrs)
      PROVE  mshrs'[i] \in Mshr(L) /\ mshrs'[i].line = mshrs[i].line
             /\ (mshrs[i].core => mshrs'[i].core)
    <2>1. mshrs[i] \in Mshr(L)
        BY <1>2, ElementOfSeq
    <2>2. mshrs'[i] = IF i = k THEN [mshrs[i] EXCEPT !.sent = TRUE] ELSE mshrs[i]
        BY ZenonT(60), <1>1, <1>3
    <2>3. QED
        BY ZenonT(60), <2>1, <2>2 DEF Mshr
<1>5. DOMAIN mshrs' = 1 .. Len(mshrs) /\ mshrs' = [i \in 1 .. Len(mshrs) |-> mshrs'[i]]
    BY ZenonT(60), <1>1, <1>3
<1>6. mshrs' \in [1 .. Len(mshrs) -> Mshr(L)]
    BY <1>4, <1>5
<1>7. mshrs' \in Seq(Mshr(L)) /\ Len(mshrs') = Len(mshrs)
    BY <1>3, <1>6, SeqDef, LenProperties
<1>8. /\ blks' = blks /\ marked' = marked /\ issuedPrefetches' = issuedPrefetches
      /\ usefulPrefetches' = usefulPrefetches
    BY DEF sendMiss
<1>9. Cardinality(Alone(mshrs')) <= Cardinality(Alone(mshrs))
    BY ZenonT(60), <1>2, <1>4, <1>7, AloneTouched
<1>10. FetchedOnce(mshrs', blks)
    BY <1>4, <1>7 DEF PrefetchInv, FetchedOnce
<1>11. /\ Cardinality(Alone(mshrs)) \in Nat /\ Cardinality(Alone(mshrs')) \in Nat
       /\ Cardinality(marked) \in Nat
    BY <1>2, <1>7, AloneFinite, FS_CardinalityType DEF PrefetchInv
<1>12. usefulPrefetches + Cardinality(marked) + Cardinality(Alone(mshrs')) <= issuedPrefetches
    BY <1>9, <1>11 DEF PrefetchInv
<1>13. QED
    BY <1>7, <1>8, <1>10, <1>12 DEF PrefetchInv

LEMMA SendPrefetchKeeps ==
    ASSUME PrefetchInv, sendPrefetch
    PROVE  PrefetchInv'
<1> DEFINE line == Head(pfq)
<1>1. /\ blks' = blks /\ marked' = marked /\ issuedPrefetches' = issuedPrefetches + 1
      /\ usefulPrefetches' = usefulPrefetches
      /\ mshrs' = IF redundant(mshrs, line) THEN mshrs
                  ELSE Append(mshrs, [line |-> line, core |-> FALSE, sent |-> TRUE])
    BY DEF sendPrefetch
<1> HIDE DEF line
<1>2. PICK L : mshrs \in Seq(Mshr(L))
    BY DEF PrefetchInv
<1>3. Cardinality(Alone(mshrs)) \in Nat /\ Cardinality(marked) \in Nat
    BY <1>2, AloneFinite, FS_CardinalityType DEF PrefetchInv
<1>4. CASE redundant(mshrs, line)
    <2>1. mshrs' = mshrs
        BY <1>1, <1>4
    <2>2. usefulPrefetches + Cardinality(marked) + Cardinality(Alone(mshrs)) <= issuedPrefetches + 1
        BY <1>3 DEF PrefetchInv
    <2>3. QED
        BY <1>1, <2>1, <2>2 DEF PrefetchInv
<1>5. CASE ~redundant(mshrs, line)
    <2>1. mshrs' = Append(mshrs, [line |-> line, core |-> FALSE, sent |-> TRUE])
        BY <1>1, <1>5
    <2>2. FetchedOnce(mshrs, blks)
        BY DEF PrefetchInv
    <2>3. /\ mshrs' \in Seq(Mshr(L \union {line})) /\ FetchedOnce(mshrs', blks)
          /\ Cardinality(Alone(mshrs')) <= Cardinality(Alone(mshrs)) + (IF FALSE THEN 0 ELSE 1)
        BY ZenonT(60), <1>2, <1>5, <2>1, <2>2, MshrAllocated
    <2>4. Cardinality(Alone(mshrs')) \in Nat
        BY <2>3, AloneFinite
    <2>5. usefulPrefetches + Cardinality(marked) + Cardinality(Alone(mshrs')) <= issuedPrefetches + 1
        BY <1>3, <2>3, <2>4 DEF PrefetchInv
    <2>6. QED
        BY <1>1, <2>3, <2>5 DEF PrefetchInv
<1>6. QED
    BY <1>4, <1>5

LEMMA FillKeeps ==
    ASSUME PrefetchInv, NEW k \in DOMAIN mshrs, recvTimingResp(k)
    PROVE  PrefetchInv'
<1> DEFINE line == mshrs[k].line
<1>1. /\ blks' = blks \union {line} /\ issuedPrefetches' = issuedPrefetches
      /\ marked' = IF mshrs[k].core THEN marked ELSE marked \union {line}
      /\ usefulPrefetches' = usefulPrefetches /\ mshrs' = eraseAt(mshrs, k)
    BY DEF recvTimingResp
<1>2. PICK L : mshrs \in Seq(Mshr(L))
    BY DEF PrefetchInv
<1>3. DOMAIN mshrs = 1 .. Len(mshrs) /\ Len(mshrs) \in Nat /\ k \in 1 .. Len(mshrs)
    BY ZenonT(60), <1>2, LenProperties
<1>4. /\ mshrs' \in Seq(Mshr(L)) /\ Len(mshrs') = Len(mshrs) - 1
      /\ \A i \in 1 .. Len(mshrs) - 1 : mshrs'[i] = mshrs[IF i < k THEN i ELSE i + 1]
    BY ZenonT(60), <1>1, <1>2, <1>3, EraseAtProps
<1>5. Cardinality(Alone(mshrs')) <= Cardinality(Alone(mshrs)) - (IF mshrs[k].core THEN 0 ELSE 1)
    BY <1>1, <1>2, <1>3, AloneErased
<1>6. FetchedOnce(mshrs, blks)
    BY DEF PrefetchInv
<1>7. FetchedOnce(mshrs', blks')
    <2>1. ASSUME NEW i \in 1 .. Len(mshrs')
          PROVE  \E a \in 1 .. Len(mshrs) : /\ mshrs'[i] = mshrs[a] /\ a # k
                                            /\ (a = i /\ i < k) \/ (a = i + 1 /\ i >= k)
        <3>1. CASE i < k
            BY <1>3, <1>4, <3>1
        <3>2. CASE i >= k
            <4>1. i + 1 \in 1 .. Len(mshrs) /\ i + 1 # k /\ mshrs'[i] = mshrs[i + 1]
                BY <1>3, <1>4, <3>2
            <4>2. QED
                BY <3>2, <4>1
        <3>3. i < k \/ i >= k
            BY <1>3, <1>4
        <3>4. QED
            BY ZenonT(60), <3>1, <3>2, <3>3
    <2>2. ASSUME NEW i \in 1 .. Len(mshrs'), NEW j \in 1 .. Len(mshrs'),
                 mshrs'[i].line = mshrs'[j].line
          PROVE  i = j
        <3>1. PICK a \in 1 .. Len(mshrs) :
                  mshrs'[i] = mshrs[a] /\ ((a = i /\ i < k) \/ (a = i + 1 /\ i >= k))
            BY ZenonT(60), <2>1
        <3>2. PICK b \in 1 .. Len(mshrs) :
                  mshrs'[j] = mshrs[b] /\ ((b = j /\ j < k) \/ (b = j + 1 /\ j >= k))
            BY <2>1
        <3>3. a = b
            BY <1>6, <2>2, <3>1, <3>2 DEF FetchedOnce
        <3>4. i \in Nat /\ j \in Nat /\ k \in Nat
            BY <1>3, <1>4
        <3>5. QED
            BY <3>1, <3>2, <3>3, <3>4
    <2>3. ASSUME NEW i \in 1 .. Len(mshrs') PROVE mshrs'[i].line \notin blks'
        <3>1. PICK a \in 1 .. Len(mshrs) : mshrs'[i] = mshrs[a] /\ a # k
            BY <2>1
        <3>2. mshrs[a].line # mshrs[k].line /\ mshrs[a].line \notin blks
            BY <1>3, <1>6, <3>1 DEF FetchedOnce
        <3>3. QED
            BY <1>1, <3>1, <3>2
    <2>4. QED
        BY <2>2, <2>3 DEF FetchedOnce
<1>8. /\ IsFiniteSet(marked') /\ marked' \subseteq blks'
      /\ Cardinality(marked') <= Cardinality(marked) + (IF mshrs[k].core THEN 0 ELSE 1)
    <2>1. IsFiniteSet(marked) /\ marked \subseteq blks /\ Cardinality(marked) \in Nat
        BY FS_CardinalityType DEF PrefetchInv
    <2>2. CASE mshrs[k].core
        BY <1>1, <2>1, <2>2
    <2>3. CASE ~mshrs[k].core
        <3>1. marked' = marked \union {line}
            BY <1>1, <2>3
        <3>2. IsFiniteSet(marked') /\ Cardinality(marked') <= Cardinality(marked) + 1
            <4>1. /\ IsFiniteSet(marked \union {line})
                  /\ Cardinality(marked \union {line})
                       = IF line \in marked THEN Cardinality(marked) ELSE Cardinality(marked) + 1
                BY <2>1, FS_AddElement
            <4> HIDE DEF line
            <4>2. QED
                BY <2>1, <3>1, <4>1
        <3>3. QED
            BY <1>1, <2>1, <2>3, <3>1, <3>2
    <2>4. QED
        BY <2>2, <2>3
<1>9. /\ Cardinality(Alone(mshrs)) \in Nat /\ Cardinality(Alone(mshrs')) \in Nat
      /\ Cardinality(marked) \in Nat /\ Cardinality(marked') \in Nat
    BY ZenonT(60), <1>2, <1>4, <1>8, AloneFinite, FS_CardinalityType DEF PrefetchInv
<1>10. Cardinality(marked') + Cardinality(Alone(mshrs'))
         <= Cardinality(marked) + Cardinality(Alone(mshrs))
    <2>1. CASE mshrs[k].core
        BY <1>5, <1>8, <1>9, <2>1
    <2>2. CASE ~mshrs[k].core
        BY <1>5, <1>8, <1>9, <2>2
    <2>3. QED
        BY <2>1, <2>2
<1>11. usefulPrefetches + Cardinality(marked') + Cardinality(Alone(mshrs')) <= issuedPrefetches
    BY <1>9, <1>10 DEF PrefetchInv
<1>12. QED
    BY ZenonT(60), <1>1, <1>4, <1>7, <1>8, <1>11 DEF PrefetchInv

\* PrefetchInv is an invariant of the prefetcher beside the cache, for every page
\* size, queue size, degree, number of MSHRs and configuration.
THEOREM PrefetchInvariant == PrefetchSpec => []PrefetchInv
<1>1. PrefetchInit => PrefetchInv
    <2>1. SUFFICES ASSUME PrefetchInit PROVE PrefetchInv
        OBVIOUS
    <2>2. mshrs \in Seq(Mshr({})) /\ Len(mshrs) = 0 /\ DOMAIN mshrs = {}
        BY <2>1, EmptySeq DEF PrefetchInit
    <2>3. Alone(mshrs) = {} /\ marked = {} /\ issuedPrefetches = 0 /\ usefulPrefetches = 0
        BY <2>1, <2>2 DEF PrefetchInit, Alone
    <2>4. IsFiniteSet({}) /\ Cardinality({}) = 0
        BY FS_EmptySet
    <2>5. FetchedOnce(mshrs, blks)
        BY <2>2 DEF FetchedOnce
    <2>6. QED
        BY <2>2, <2>3, <2>4, <2>5 DEF PrefetchInv
<1>2. PrefetchInv /\ [PrefetchNext]_prefetchVars => PrefetchInv'
    <2>1. SUFFICES ASSUME PrefetchInv, [PrefetchNext]_prefetchVars PROVE PrefetchInv'
        OBVIOUS
    <2>2. CASE \E l \in DemandLines, k \in Kind : recvTimingReq(l, k)
        BY <2>1, <2>2, HitKeeps, MissKeeps
    <2>3. CASE sendMiss
        BY <2>1, <2>3, SendMissKeeps
    <2>4. CASE sendPrefetch
        BY <2>1, <2>4, SendPrefetchKeeps
    <2>5. CASE \E i \in DOMAIN mshrs : recvTimingResp(i)
        BY <2>1, <2>5, FillKeeps
    <2>6. CASE UNCHANGED prefetchVars
        BY <2>1, <2>6 DEF prefetchVars, PrefetchInv
    <2>7. QED
        BY <2>1, <2>2, <2>3, <2>4, <2>5, <2>6 DEF PrefetchNext
<1>3. QED
    BY <1>1, <1>2, PTL DEF PrefetchSpec

\* No line is fetched twice: getPacket's line is looked up once more before its
\* MSHR is allocated, and a miss joins the MSHR that is there (recvTimingReq).
THEOREM LinesFetchedOnce == PrefetchSpec => []NeverFetchedTwice
<1>1. PrefetchInv => NeverFetchedTwice
    BY PrefetchInvImplies
<1>2. QED
    BY <1>1, PrefetchInvariant, PTL

\* A prefetch is counted useful at most once (usefulPrefetches of probeNotify,
\* clearPrefetched of recvTimingReq, setPrefetched of serviceMSHRTargets).
THEOREM UsefulCountedOnce == PrefetchSpec => []UsefulAccounted
<1>1. PrefetchInv => UsefulAccounted
    BY PrefetchInvImplies
<1>2. QED
    BY <1>1, PrefetchInvariant, PTL

(***************************************************************************)
(* The throttle                                                            *)
(***************************************************************************)

LEMMA TimesMonotone ==
    ASSUME NEW a \in Nat, NEW u \in Nat, NEW i \in Nat, u <= i
    PROVE  a * u \in Nat /\ a * u <= a * i
<1>1. a * (i - u) \in Nat
    <2>1. PICK k \in Nat : k = i - u
        OBVIOUS
    <2>2. a * k \in Nat
        BY <2>1
    <2>3. QED
        BY <2>1, <2>2
<1>2. a * i = a * u + a * (i - u)
    OBVIOUS
<1>3. a * u \in Nat /\ a * i \in Nat
    OBVIOUS
<1>4. QED
    BY <1>1, <1>2, <1>3

\* A share u / i of a, rounded down, is between nothing and all of it.
LEMMA ShareWithin ==
    ASSUME NEW a \in Nat, NEW u \in Nat, NEW i \in Nat, i > 0, u <= i
    PROVE  (a * u) \div i \in 0 .. a
<1> DEFINE m == a * u
           part == m \div i
<1>1. m \in Nat /\ m <= a * i
    BY TimesMonotone
<1> HIDE DEF m
<1>2. part \in Nat /\ i * part <= m
    BY <1>1
<1> HIDE DEF part
<1>3. part <= a
    <2>1. SUFFICES ASSUME part >= a + 1 PROVE FALSE
        BY <1>2
    <2>2. i * (a + 1) <= i * part
        BY <1>2, <2>1, TimesMonotone
    <2>3. i * (a + 1) = a * i + i /\ i * part \in Nat /\ a * i \in Nat
        BY <1>2
    <2>4. QED
        BY <1>1, <1>2, <2>2, <2>3
<1>4. QED
    BY <1>2, <1>3 DEF part, m

LEMMA ThrottleWithin ==
    ASSUME PrefetchInv, conf \in Configs
    PROVE  ThrottleWithinDegree
<1> DEFINE pct == conf.throttleControlPct
           throttled == (degree * pct) \div 100
           unthrottled == degree - throttled
           min_pfs == IF unthrottled = 0 THEN 1 ELSE unthrottled
           more == ((degree - min_pfs) * usefulPrefetches) \div issuedPrefetches
           permitted == getMaxPermittedPrefetches(degree)
<1>1. degree \in Nat /\ pct \in 0 .. 100
    BY PrefetchAssumption DEF Config
<1>2. throttled \in 0 .. degree
    <2> HIDE DEF pct
    <2>1. QED
        BY <1>1, ShareWithin
<1>3. permitted = IF degree = 0 \/ issuedPrefetches = 0 THEN degree ELSE min_pfs + more
    BY DEF getMaxPermittedPrefetches
<1>4. /\ usefulPrefetches \in Nat /\ issuedPrefetches \in Nat
      /\ usefulPrefetches <= issuedPrefetches
    <2>1. PICK L : mshrs \in Seq(Mshr(L))
        BY DEF PrefetchInv
    <2>2. Cardinality(marked) \in Nat /\ Cardinality(Alone(mshrs)) \in Nat
        BY <2>1, AloneFinite, FS_CardinalityType DEF PrefetchInv
    <2>3. QED
        BY <2>2 DEF PrefetchInv
<1> HIDE DEF throttled, permitted
<1>5. /\ permitted \in degree - throttled .. degree
      /\ degree > 0 => permitted > 0
    <2>1. CASE degree = 0 \/ issuedPrefetches = 0
        BY <1>1, <1>2, <1>3, <2>1
    <2>2. CASE ~(degree = 0 \/ issuedPrefetches = 0)
        <3>1. min_pfs \in 1 .. degree /\ degree - min_pfs \in Nat /\ degree - throttled <= min_pfs
            BY <1>1, <1>2, <2>2
        <3> HIDE DEF min_pfs
        <3>2. more \in 0 .. degree - min_pfs
            BY <1>4, <2>2, <3>1, ShareWithin
        <3> HIDE DEF more
        <3>3. QED
            BY <1>1, <1>2, <1>3, <2>2, <3>1, <3>2
    <2>3. QED
        BY <2>1, <2>2
<1>6. QED
    BY <1>5 DEF ThrottleWithinDegree, permitted, throttled

\* The throttle stays within the degree, for every degree, percentage and
\* sequence of accesses and fills (getMaxPermittedPrefetches): UsefulAccounted
\* keeps the accuracy it computes at 100% or below.
THEOREM ThrottleBounded == PrefetchSpec => []ThrottleWithinDegree
<1>1. PrefetchInit => conf \in Configs
    BY DEF PrefetchInit
<1>2. conf \in Configs /\ [PrefetchNext]_prefetchVars => (conf \in Configs)'
    BY DEF PrefetchNext, prefetchVars, recvTimingReq, sendMiss, sendPrefetch, recvTimingResp
<1>3. PrefetchInv /\ conf \in Configs => ThrottleWithinDegree
    BY ThrottleWithin
<1>4. QED
    BY <1>1, <1>2, <1>3, PrefetchInvariant, PTL DEF PrefetchSpec

(***************************************************************************)
(* The queue                                                               *)
(***************************************************************************)

\* Induction over the rounds of a loop, about a set of rounds.
LEMMA NoFirstRound ==
    ASSUME NEW n \in Nat, NEW T \in SUBSET (0 .. n), 0 \notin T,
           \A m \in 1 .. n : m \in T => m - 1 \in T
    PROVE  T = {}
<1>1. SUFFICES ASSUME T # {} PROVE FALSE
    OBVIOUS
<1>2. T \in SUBSET Nat
    OBVIOUS
<1>3. PICK m \in T : \A k \in T : ~ (<<k, m>> \in OpToRel(<, Nat))
    BY ZenonT(60), <1>1, <1>2, WFMin, NatLessThanWellFounded
<1>4. m \in T /\ m \in 0 .. n /\ m # 0
    BY ZenonT(60), <1>3
<1>5. m \in 1 .. n /\ m \in Nat /\ m - 1 \in Nat /\ m - 1 < m
    BY <1>4
<1>6. m - 1 \in T
    BY ZenonT(60), <1>4, <1>5
<1>7. QED
    BY ZenonT(60), <1>3, <1>5, <1>6 DEF OpToRel

\* f gives the queue after each round of the first loop of notify().
Squashes(f, n, s, line) ==
    f = [k \in 0 .. n |-> IF k = 0 THEN << >> ELSE keep(f[k - 1], line, s[k])]

LEMMA SquashRuns ==
    ASSUME NEW n \in Nat, NEW s, NEW line
    PROVE  \E f : Squashes(f, n, s, line)
<1> DEFINE Runs(m) == \E f : Squashes(f, m, s, line)
           T == {m \in 0 .. n : ~Runs(m)}
<1>1. 0 \notin T
    <2>1. \A k \in 0 .. 0 : k = 0
        OBVIOUS
    <2>2. [k \in 0 .. 0 |-> << >>] = [k \in 0 .. 0 |-> IF k = 0 THEN << >>
                         ELSE keep([j \in 0 .. 0 |-> << >>][k - 1], line, s[k])]
        BY ZenonT(60), <2>1
    <2>3. QED
        BY ZenonT(60), <2>2 DEF Squashes
<1>2. ASSUME NEW m \in 1 .. n, Runs(m - 1)
      PROVE  Runs(m)
    <2>1. PICK f : f = [k \in 0 .. m - 1 |-> IF k = 0 THEN << >>
                                             ELSE keep(f[k - 1], line, s[k])]
        BY ZenonT(60), <1>2 DEF Squashes
    <2> DEFINE g == [k \in 0 .. m |-> IF k = m THEN keep(f[m - 1], line, s[m]) ELSE f[k]]
    <2>2. ASSUME NEW k \in 0 .. m
          PROVE  g[k] = IF k = 0 THEN << >> ELSE keep(g[k - 1], line, s[k])
        <3>1. CASE k = m
            <4>1. m # 0 /\ m \in 0 .. m /\ m - 1 \in 0 .. m /\ m - 1 # m
                BY <1>2
            <4>2. g[m - 1] = f[m - 1] /\ g[m] = keep(f[m - 1], line, s[m])
                BY ZenonT(60), <4>1
            <4>3. QED
                BY ZenonT(60), <3>1, <4>1, <4>2
        <3>2. CASE k # m
            <4>1. k \in 0 .. m - 1 /\ (k # 0 => k - 1 \in 0 .. m /\ k - 1 # m)
                BY <1>2, <2>2, <3>2
            <4>2. g[k] = f[k] /\ (k # 0 => g[k - 1] = f[k - 1])
                BY ZenonT(60), <3>2, <4>1
            <4>3. f[k] = IF k = 0 THEN << >> ELSE keep(f[k - 1], line, s[k])
                BY ZenonT(60), <2>1, <4>1
            <4>4. QED
                BY ZenonT(60), <4>2, <4>3
        <3>3. QED
            BY ZenonT(60), <3>1, <3>2
    <2>3. g = [k \in 0 .. m |-> IF k = 0 THEN << >> ELSE keep(g[k - 1], line, s[k])]
        BY ZenonT(60), <2>2
    <2>4. QED
        BY ZenonT(60), <2>3 DEF Squashes
<1> HIDE DEF Runs
<1>3. \A m \in 1 .. n : m \in T => m - 1 \in T
    <2>1. \A m \in 1 .. n : m - 1 \in 0 .. n
        OBVIOUS
    <2>2. QED
        BY ZenonT(60), <1>2, <2>1
<1>4. T = {}
    <2>1. T \in SUBSET (0 .. n)
        OBVIOUS
    <2> HIDE DEF T
    <2>2. QED
        BY ZenonT(60), <1>1, <1>3, <2>1, NoFirstRound
<1>5. n \in 0 .. n
    OBVIOUS
<1>6. Runs(n)
    BY ZenonT(60), <1>4, <1>5
<1>7. QED
    BY ZenonT(60), <1>6 DEF Runs

\* f gives the state of the second loop of notify() after each candidate.
Proposes(f, n, start, line, outstanding, max_pfs) ==
    f = [d \in 0 .. n |-> IF d = 0 THEN start
                          ELSE propose(f[d - 1], line, d, outstanding, max_pfs)]

LEMMA ProposeRuns ==
    ASSUME NEW n \in Nat, NEW start, NEW line, NEW outstanding, NEW max_pfs
    PROVE  \E f : Proposes(f, n, start, line, outstanding, max_pfs)
<1> DEFINE Runs(m) == \E f : Proposes(f, m, start, line, outstanding, max_pfs)
           T == {m \in 0 .. n : ~Runs(m)}
<1>1. 0 \notin T
    <2>1. \A d \in 0 .. 0 : d = 0
        OBVIOUS
    <2>2. [d \in 0 .. 0 |-> start] = [d \in 0 .. 0 |-> IF d = 0 THEN start
              ELSE propose([j \in 0 .. 0 |-> start][d - 1], line, d, outstanding, max_pfs)]
        BY ZenonT(60), <2>1
    <2>3. QED
        BY ZenonT(60), <2>2 DEF Proposes
<1>2. ASSUME NEW m \in 1 .. n, Runs(m - 1)
      PROVE  Runs(m)
    <2>1. PICK f : f = [d \in 0 .. m - 1 |-> IF d = 0 THEN start
                            ELSE propose(f[d - 1], line, d, outstanding, max_pfs)]
        BY ZenonT(60), <1>2 DEF Proposes
    <2> DEFINE g == [d \in 0 .. m |->
                       IF d = m THEN propose(f[m - 1], line, m, outstanding, max_pfs) ELSE f[d]]
    <2>2. ASSUME NEW d \in 0 .. m
          PROVE  g[d] = IF d = 0 THEN start ELSE propose(g[d - 1], line, d, outstanding, max_pfs)
        <3>1. CASE d = m
            <4>1. m # 0 /\ m \in 0 .. m /\ m - 1 \in 0 .. m /\ m - 1 # m
                BY <1>2
            <4>2. g[m - 1] = f[m - 1] /\ g[m] = propose(f[m - 1], line, m, outstanding, max_pfs)
                BY ZenonT(60), <4>1
            <4>3. QED
                BY ZenonT(60), <3>1, <4>1, <4>2
        <3>2. CASE d # m
            <4>1. d \in 0 .. m - 1 /\ (d # 0 => d - 1 \in 0 .. m /\ d - 1 # m)
                BY <1>2, <2>2, <3>2
            <4>2. g[d] = f[d] /\ (d # 0 => g[d - 1] = f[d - 1])
                BY ZenonT(60), <3>2, <4>1
            <4>3. f[d] = IF d = 0 THEN start ELSE propose(f[d - 1], line, d, outstanding, max_pfs)
                BY ZenonT(60), <2>1, <4>1
            <4>4. QED
                BY ZenonT(60), <4>2, <4>3
        <3>3. QED
            BY ZenonT(60), <3>1, <3>2
    <2>3. g = [d \in 0 .. m |-> IF d = 0 THEN start
                            ELSE propose(g[d - 1], line, d, outstanding, max_pfs)]
        BY ZenonT(60), <2>2
    <2>4. QED
        BY ZenonT(60), <2>3 DEF Proposes
<1> HIDE DEF Runs
<1>3. \A m \in 1 .. n : m \in T => m - 1 \in T
    <2>1. \A m \in 1 .. n : m - 1 \in 0 .. n
        OBVIOUS
    <2>2. QED
        BY ZenonT(60), <1>2, <2>1
<1>4. T = {}
    <2>1. T \in SUBSET (0 .. n)
        OBVIOUS
    <2> HIDE DEF T
    <2>2. QED
        BY ZenonT(60), <1>1, <1>3, <2>1, NoFirstRound
<1>5. n \in 0 .. n
    OBVIOUS
<1>6. Runs(n)
    BY ZenonT(60), <1>4, <1>5
<1>7. QED
    BY ZenonT(60), <1>6 DEF Runs

\* A queue of lines without those of X.
Free(queue, X) == queue \in Seq(Nat) /\ \A i \in 1 .. Len(queue) : queue[i] \notin X

LEMMA FreeAppend ==
    ASSUME NEW queue, NEW X, Free(queue, X), NEW line \in Nat, line \notin X
    PROVE  Free(Append(queue, line), X)
<1>1. Len(queue) \in Nat
    BY LenProperties DEF Free
<1>2. QED
    BY <1>1, AppendProperties DEF Free

LEMMA FreeTail ==
    ASSUME NEW queue, NEW X, Free(queue, X), queue # << >>
    PROVE  Free(Tail(queue), X) /\ Head(queue) \in Nat
<1>1. Len(queue) \in Nat \ {0}
    BY LenProperties, EmptySeq DEF Free
<1>2. QED
    BY <1>1, HeadTailProperties DEF Free

\* insert() adds no line that is cached or has an MSHR, when it looks (cacheSnoop).
LEMMA InsertFree ==
    ASSUME NEW queue, NEW X, Free(queue, X), NEW line \in Nat, NEW outstanding,
           \A l \in X : redundant(outstanding, l), conf.cacheSnoop \/ X = {}
    PROVE  Free(insert(queue, outstanding, line), X)
<1>1. CASE insert(queue, outstanding, line) = queue
    BY ZenonT(60), <1>1
<1>2. CASE insert(queue, outstanding, line) # queue
    <2>1. ~(conf.cacheSnoop /\ redundant(outstanding, line))
          /\ insert(queue, outstanding, line) = addToQueue(queue, line)
        BY ZenonT(60), <1>2 DEF insert
    <2>2. line \notin X
        BY ZenonT(60), <2>1
    <2>3. CASE Len(queue) = queueSize
        <3>1. queue # << >>
            BY <2>3, PrefetchAssumption, EmptySeq DEF Free
        <3>2. QED
            BY ZenonT(60), <2>1, <2>2, <2>3, <3>1, FreeTail, FreeAppend DEF addToQueue
    <2>4. CASE Len(queue) # queueSize
        BY ZenonT(60), <2>1, <2>2, <2>4, FreeAppend DEF addToQueue
    <2>5. QED
        BY ZenonT(60), <2>3, <2>4
<1>3. QED
    BY ZenonT(60), <1>1, <1>2

\* Squashing keeps the other lines out, and removes line.
LEMMA SquashFree ==
    ASSUME NEW X, NEW Y, NEW line, Free(pfq, X),
           Y \subseteq X \/ (conf.queueSquash /\ Y \subseteq X \union {line})
    PROVE  Free(squashed(line), Y)
<1> DEFINE n == Len(pfq)
           f == CHOOSE g : Squashes(g, n, pfq, line)
<1>1. n \in Nat /\ \A k \in 1 .. n : pfq[k] \in Nat /\ pfq[k] \notin X
    BY LenProperties, ElementOfSeq DEF Free
<1>2. CASE ~conf.queueSquash
    BY ZenonT(60), <1>2 DEF squashed, Free
<1>3. CASE conf.queueSquash
    <2>1. squashed(line) = f[n]
        BY ZenonT(60), <1>3 DEF squashed, Squashes
    <2>2. Squashes(f, n, pfq, line)
        <3>1. \E g : Squashes(g, n, pfq, line)
            BY ZenonT(60), <1>1, SquashRuns
        <3>2. QED
            BY ZenonT(60), <3>1
    <2> HIDE DEF f, n
    <2>3. \A k \in 0 .. n : f[k] = IF k = 0 THEN << >> ELSE keep(f[k - 1], line, pfq[k])
        BY ZenonT(60), <2>2 DEF Squashes
    <2> DEFINE T == {m \in 0 .. n : ~Free(f[m], Y)}
    <2>4. 0 \notin T
        <3>1. Free(<< >>, Y)
            BY EmptySeq DEF Free
        <3>2. 0 \in 0 .. n => f[0] = << >>
            BY ZenonT(60), <2>3
        <3>3. QED
            BY ZenonT(60), <3>1, <3>2
    <2>5. ASSUME NEW m \in 1 .. n, Free(f[m - 1], Y) PROVE Free(f[m], Y)
        <3>1. m \in 0 .. n /\ m # 0
            BY <1>1
        <3>2. f[m] = keep(f[m - 1], line, pfq[m])
            BY ZenonT(60), <2>3, <3>1
        <3>3. CASE pfq[m] = line
            BY ZenonT(60), <2>5, <3>2, <3>3 DEF keep
        <3>4. CASE pfq[m] # line
            <4>1. pfq[m] \notin Y /\ pfq[m] \in Nat
                BY ZenonT(60), <1>1, <3>4
            <4>2. QED
                BY ZenonT(60), <2>5, <3>2, <3>4, <4>1, FreeAppend DEF keep
        <3>5. QED
            BY ZenonT(60), <3>3, <3>4
    <2>6. \A m \in 1 .. n : m \in T => m - 1 \in T
        <3>1. \A m \in 1 .. n : m - 1 \in 0 .. n
            BY <1>1
        <3>2. QED
            BY ZenonT(60), <2>5, <3>1
    <2>7. T = {}
        <3>1. T \in SUBSET (0 .. n)
            OBVIOUS
        <3> HIDE DEF T
        <3>2. QED
            BY ZenonT(60), <1>1, <2>4, <2>6, <3>1, NoFirstRound
    <2>8. n \in 0 .. n
        BY <1>1
    <2>9. QED
        BY ZenonT(60), <2>1, <2>7, <2>8
<1>4. QED
    BY ZenonT(60), <1>2, <1>3

\* notify() adds no line that is cached or has an MSHR, when insert() looks.
LEMMA NotifyFree ==
    ASSUME NEW X, NEW line \in Nat, NEW outstanding, Free(squashed(line), X),
           \A l \in X : redundant(outstanding, l), conf.cacheSnoop \/ X = {}
    PROVE  Free(notify(line, outstanding), X)
<1> DEFINE max_pfs == getMaxPermittedPrefetches(degree)
           start == [queue |-> squashed(line), num_pfs |-> 0]
           f == CHOOSE g : Proposes(g, degree, start, line, outstanding, max_pfs)
<1>1. degree \in Nat
    BY PrefetchAssumption
<1>2. notify(line, outstanding) = f[degree].queue
    BY ZenonT(60) DEF notify, Proposes
<1>3. start.queue = squashed(line)
    BY ZenonT(60)
<1> HIDE DEF start, max_pfs
<1>4. Proposes(f, degree, start, line, outstanding, max_pfs)
    <2>1. \E g : Proposes(g, degree, start, line, outstanding, max_pfs)
        BY ZenonT(60), <1>1, ProposeRuns
    <2>2. QED
        BY ZenonT(60), <2>1
<1> HIDE DEF f
<1>5. \A d \in 0 .. degree : f[d] = IF d = 0 THEN start
                                ELSE propose(f[d - 1], line, d, outstanding, max_pfs)
    BY ZenonT(60), <1>4 DEF Proposes
<1> DEFINE T == {m \in 0 .. degree : ~Free(f[m].queue, X)}
<1>6. 0 \notin T
    <2>1. 0 \in 0 .. degree => f[0] = start
        BY ZenonT(60), <1>5
    <2>2. QED
        BY ZenonT(60), <1>3, <2>1
<1>7. ASSUME NEW m \in 1 .. degree, Free(f[m - 1].queue, X) PROVE Free(f[m].queue, X)
    <2>1. m \in 0 .. degree /\ m # 0 /\ candidate(line, m) \in Nat
        BY <1>1 DEF candidate
    <2>2. f[m] = propose(f[m - 1], line, m, outstanding, max_pfs)
        BY ZenonT(60), <1>5, <2>1
    <2>3. \/ f[m] = f[m - 1]
          \/ f[m].queue = insert(f[m - 1].queue, outstanding, candidate(line, m))
        <3>1. \/ f[m] = f[m - 1]
              \/ f[m] = [queue |-> insert(f[m - 1].queue, outstanding, candidate(line, m)),
                         num_pfs |-> f[m - 1].num_pfs + 1]
            BY ZenonT(60), <2>2 DEF propose
        <3>2. QED
            BY <3>1
    <2>4. QED
        BY ZenonT(60), <1>7, <2>1, <2>3, InsertFree
<1>8. \A m \in 1 .. degree : m \in T => m - 1 \in T
    <2>1. \A m \in 1 .. degree : m - 1 \in 0 .. degree
        BY <1>1
    <2>2. QED
        BY ZenonT(60), <1>7, <2>1
<1>9. T = {}
    <2>1. T \in SUBSET (0 .. degree)
        OBVIOUS
    <2> HIDE DEF T
    <2>2. QED
        BY ZenonT(60), <1>1, <1>6, <1>8, <2>1, NoFirstRound
<1>10. degree \in 0 .. degree
    BY <1>1
<1>11. QED
    BY ZenonT(60), <1>2, <1>9, <1>10

\* Every line the prefetcher was shown is cached or has an MSHR, and the queue is
\* a list of lines, without those when it is squashed and the cache is looked at.
BehindInv ==
    /\ \A l \in demanded : redundant(mshrs, l)
    /\ Free(pfq, {})
    /\ conf.cacheSnoop /\ conf.queueSquash => Free(pfq, demanded)

\* A line stays covered while MSHRs are added and change, and when one is answered.
LEMMA StaysHeld ==
    ASSUME PrefetchInv, PrefetchNext, NEW l, redundant(mshrs, l)
    PROVE  redundant(mshrs, l)'
<1>1. CASE l \in blks
    <2>1. l \in blks'
        BY ZenonT(60), <1>1 DEF PrefetchNext, recvTimingReq, sendMiss, sendPrefetch, recvTimingResp
    <2>2. QED
        BY ZenonT(60), <2>1 DEF redundant, inCache
<1>2. CASE Holds(mshrs, l)
    <2>1. PICK L : mshrs \in Seq(Mshr(L))
        BY ZenonT(60) DEF PrefetchInv
    <2>2. Len(mshrs) \in Nat /\ DOMAIN mshrs = 1 .. Len(mshrs)
        BY ZenonT(60), <2>1, LenProperties
    <2>3. PICK i \in 1 .. Len(mshrs) : mshrs[i].line = l
        BY ZenonT(60), <1>2, <2>2 DEF Holds
    <2>4. mshrs[i] \in Mshr(L)
        BY ZenonT(60), <2>1, <2>3, ElementOfSeq
    <2>5. ASSUME NEW e, mshrs' = Append(mshrs, e)
          PROVE  i \in DOMAIN mshrs' /\ mshrs'[i].line = l
        <3>1. i \in 1 .. Len(mshrs) + 1 /\ i # Len(mshrs) + 1
            BY <2>2, <2>3
        <3>2. DOMAIN Append(mshrs, e) = 1 .. Len(mshrs) + 1 /\ Append(mshrs, e)[i] = mshrs[i]
            BY <2>1, <2>2, <3>1
        <3>3. QED
            BY ZenonT(60), <2>3, <2>5, <3>1, <3>2
    <2>6. ASSUME NEW line, NEW kind, recvTimingReq(line, kind) PROVE Holds(mshrs', l)
        <3>1. CASE mshrs' = mshrs
            BY ZenonT(60), <1>2, <3>1
        <3>2. CASE mshrs' = Append(mshrs, [line |-> line, core |-> TRUE, sent |-> FALSE])
            BY ZenonT(60), <2>5, <3>2 DEF Holds
        <3>3. CASE mshrs' = [j \in DOMAIN mshrs |-> IF mshrs[j].line = line
                                  THEN [mshrs[j] EXCEPT !.core = TRUE] ELSE mshrs[j]]
            <4>1. mshrs'[i] = IF mshrs[i].line = line THEN [mshrs[i] EXCEPT !.core = TRUE] ELSE mshrs[i]
                BY ZenonT(60), <2>2, <2>3, <3>3
            <4>2. mshrs'[i].line = l
                BY ZenonT(60), <2>3, <2>4, <4>1 DEF Mshr
            <4>3. i \in DOMAIN mshrs'
                BY ZenonT(60), <2>2, <2>3, <3>3
            <4>4. QED
                BY ZenonT(60), <4>2, <4>3 DEF Holds
        <3>4. QED
            BY ZenonT(60), <2>6, <3>1, <3>2, <3>3 DEF recvTimingReq
    <2>7. ASSUME sendMiss PROVE Holds(mshrs', l)
        <3>1. PICK k \in DOMAIN mshrs : mshrs' = [mshrs EXCEPT ![k].sent = TRUE]
            BY ZenonT(60), <2>7 DEF sendMiss, Unsent
        <3>2. mshrs'[i] = IF i = k THEN [mshrs[i] EXCEPT !.sent = TRUE] ELSE mshrs[i]
            BY ZenonT(60), <2>2, <2>3, <3>1
        <3>3. mshrs'[i].line = l
            BY ZenonT(60), <2>3, <2>4, <3>2 DEF Mshr
        <3>4. i \in DOMAIN mshrs'
            BY ZenonT(60), <2>2, <2>3, <3>1
        <3>5. QED
            BY ZenonT(60), <3>3, <3>4 DEF Holds
    <2>8. ASSUME sendPrefetch PROVE Holds(mshrs', l)
        BY ZenonT(60), <1>2, <2>5, <2>8 DEF sendPrefetch, Holds
    <2>9. ASSUME NEW k \in DOMAIN mshrs, recvTimingResp(k) PROVE redundant(mshrs, l)'
        <3>1. mshrs' = eraseAt(mshrs, k) /\ blks' = blks \union {mshrs[k].line} /\ k \in 1 .. Len(mshrs)
            BY ZenonT(60), <2>2, <2>9 DEF recvTimingResp
        <3>2. /\ mshrs' \in Seq(Mshr(L)) /\ Len(mshrs') = Len(mshrs) - 1
              /\ \A j \in 1 .. Len(mshrs) - 1 : mshrs'[j] = mshrs[IF j < k THEN j ELSE j + 1]
            BY ZenonT(60), <2>1, <3>1, EraseAtProps
        <3>3. CASE i = k
            BY ZenonT(60), <2>3, <3>1, <3>3 DEF redundant, inCache
        <3>4. CASE i # k
            <4> DEFINE j == IF i < k THEN i ELSE i - 1
            <4>1. j \in 1 .. Len(mshrs) - 1 /\ (IF j < k THEN j ELSE j + 1) = i
                BY <2>2, <2>3, <3>1, <3>4
            <4> HIDE DEF j
            <4>2. mshrs'[j] = mshrs[i]
                BY ZenonT(60), <3>2, <4>1
            <4>3. DOMAIN mshrs' = 1 .. Len(mshrs) - 1
                BY ZenonT(60), <3>2, LenProperties
            <4>4. Holds(mshrs', l)
                BY ZenonT(60), <2>3, <4>1, <4>2, <4>3 DEF Holds
            <4>5. QED
                BY ZenonT(60), <4>4 DEF redundant
        <3>5. QED
            BY ZenonT(60), <3>3, <3>4
    <2>10. QED
        BY ZenonT(60), <2>6, <2>7, <2>8, <2>9 DEF PrefetchNext, redundant
<1>3. QED
    BY ZenonT(60), <1>1, <1>2 DEF redundant, inCache

\* After a demand access its line is cached or has an MSHR.
LEMMA DemandHeld ==
    ASSUME PrefetchInv, NEW line \in DemandLines, NEW kind \in Kind, recvTimingReq(line, kind)
    PROVE  redundant(mshrs, line)'
<1>1. CASE redundant(mshrs, line)
    BY ZenonT(60), <1>1, StaysHeld DEF PrefetchNext
<1>2. CASE ~redundant(mshrs, line)
    <2> DEFINE e == [line |-> line, core |-> TRUE, sent |-> FALSE]
    <2>1. mshrs' = Append(mshrs, e)
        BY ZenonT(60), <1>2 DEF recvTimingReq, redundant
    <2>2. e.line = line
        OBVIOUS
    <2> HIDE DEF e
    <2>3. PICK L : mshrs \in Seq(Mshr(L))
        BY ZenonT(60) DEF PrefetchInv
    <2>4. Len(mshrs) + 1 \in DOMAIN Append(mshrs, e) /\ Append(mshrs, e)[Len(mshrs) + 1] = e
        BY <2>3, LenProperties
    <2>5. Holds(mshrs', line)
        BY ZenonT(60), <2>1, <2>2, <2>4 DEF Holds
    <2>6. QED
        BY ZenonT(60), <2>5 DEF redundant
<1>3. QED
    BY ZenonT(60), <1>1, <1>2

\* A demand access: what it removes from the queue and what it adds.
LEMMA DemandBehind ==
    ASSUME PrefetchInv, BehindInv, NEW line \in DemandLines, NEW kind \in Kind,
           recvTimingReq(line, kind)
    PROVE  BehindInv'
<1>1. conf' = conf /\ blks' = blks
    BY ZenonT(60) DEF recvTimingReq
<1>2. \A l \in demanded \union {line} : redundant(mshrs, l)'
    BY ZenonT(60), DemandHeld, StaysHeld DEF PrefetchNext, BehindInv
<1>3. \E miss : probeNotify(line, kind, miss, mshrs')
    BY ZenonT(60) DEF recvTimingReq
<1>4. \/ pfq' = pfq /\ demanded' = demanded
      \/ pfq' = notify(line, mshrs') /\ demanded' = demanded \union {line}
    BY ZenonT(60), <1>3 DEF probeNotify
<1>5. CASE pfq' = pfq /\ demanded' = demanded
    BY ZenonT(60), <1>1, <1>2, <1>5 DEF BehindInv
<1>6. CASE pfq' = notify(line, mshrs') /\ demanded' = demanded \union {line}
    <2>1. line \in Nat
        BY ZenonT(60), PrefetchAssumption
    <2>2. \A l \in demanded \union {line} : redundant(mshrs', l)
        BY ZenonT(60), <1>1, <1>2 DEF redundant, inCache
    <2>3. Free(pfq', {})
        <3> DEFINE X == {}
        <3>1. Free(pfq, X) /\ X \subseteq X /\ \A l \in X : redundant(mshrs', l)
            BY ZenonT(60) DEF BehindInv
        <3>2. X = {}
            OBVIOUS
        <3> HIDE DEF X
        <3>3. Free(squashed(line), X)
            BY ZenonT(60), <3>1, SquashFree
        <3>4. Free(notify(line, mshrs'), X)
            BY ZenonT(60), <2>1, <3>1, <3>2, <3>3, NotifyFree
        <3>5. QED
            BY ZenonT(60), <1>6, <3>2, <3>4
    <2>4. ASSUME conf.cacheSnoop, conf.queueSquash PROVE Free(pfq', demanded \union {line})
        <3>1. Free(squashed(line), demanded \union {line})
            BY ZenonT(60), <2>4, SquashFree DEF BehindInv
        <3>2. QED
            BY ZenonT(60), <1>6, <2>1, <2>2, <2>4, <3>1, NotifyFree
    <2>5. QED
        BY ZenonT(60), <1>1, <1>2, <1>6, <2>3, <2>4 DEF BehindInv
<1>7. QED
    BY ZenonT(60), <1>4, <1>5, <1>6

LEMMA BehindStep ==
    ASSUME PrefetchInv, BehindInv, [PrefetchNext]_prefetchVars
    PROVE  BehindInv'
<1>1. CASE \E l \in DemandLines, k \in Kind : recvTimingReq(l, k)
    BY ZenonT(60), <1>1, DemandBehind
<1>2. CASE sendPrefetch
    <2>1. conf' = conf /\ demanded' = demanded /\ pfq' = Tail(pfq) /\ pfq # << >>
        BY ZenonT(60), <1>2 DEF sendPrefetch
    <2>2. \A l \in demanded : redundant(mshrs, l)'
        BY ZenonT(60), <1>2, StaysHeld DEF PrefetchNext, BehindInv
    <2>3. QED
        BY ZenonT(60), <2>1, <2>2, FreeTail DEF BehindInv
<1>3. CASE sendMiss \/ \E i \in DOMAIN mshrs : recvTimingResp(i)
    <2>1. conf' = conf /\ demanded' = demanded /\ pfq' = pfq
        BY ZenonT(60), <1>3 DEF sendMiss, recvTimingResp
    <2>2. \A l \in demanded : redundant(mshrs, l)'
        BY ZenonT(60), <1>3, StaysHeld DEF PrefetchNext, BehindInv
    <2>3. QED
        BY ZenonT(60), <2>1, <2>2 DEF BehindInv
<1>4. CASE UNCHANGED prefetchVars
    <2>1. /\ conf' = conf /\ demanded' = demanded /\ pfq' = pfq /\ mshrs' = mshrs
          /\ blks' = blks
        BY ZenonT(60), <1>4 DEF prefetchVars
    <2>2. QED
        BY ZenonT(60), <2>1 DEF BehindInv, redundant, inCache
<1>5. QED
    BY ZenonT(60), <1>1, <1>2, <1>3, <1>4 DEF PrefetchNext

\* With cacheSnoop and queueSquash no line the prefetcher was shown a demand for
\* is in its queue: the loop of notify() over pfq removes it, and insert() asks the
\* cache for every line it adds afterwards.
THEOREM NoPrefetchQueuedBehindDemand == PrefetchSpec => []NoPrefetchBehindDemand
<1>1. PrefetchInit => BehindInv
    <2>1. SUFFICES ASSUME PrefetchInit PROVE BehindInv
        OBVIOUS
    <2>2. pfq = << >> /\ demanded = {}
        BY ZenonT(60), <2>1 DEF PrefetchInit
    <2>3. Free(pfq, {})
        BY <2>2, EmptySeq DEF Free
    <2>4. QED
        BY ZenonT(60), <2>2, <2>3 DEF BehindInv
<1>2. PrefetchInv /\ BehindInv /\ [PrefetchNext]_prefetchVars => BehindInv'
    BY ZenonT(60), BehindStep
<1>3. BehindInv => NoPrefetchBehindDemand
    <2>1. SUFFICES ASSUME BehindInv, conf.cacheSnoop, conf.queueSquash
                   PROVE  \A i \in DOMAIN pfq : pfq[i] \notin demanded
        BY ZenonT(60) DEF NoPrefetchBehindDemand
    <2>2. pfq \in Seq(Nat) /\ \A i \in 1 .. Len(pfq) : pfq[i] \notin demanded
        BY ZenonT(60), <2>1 DEF BehindInv, Free
    <2>3. QED
        BY ZenonT(60), <2>2, LenProperties
<1>4. QED
    BY <1>1, <1>2, <1>3, PrefetchInvariant, PTL DEF PrefetchSpec

===============================================================================
