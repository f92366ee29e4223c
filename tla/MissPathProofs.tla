---------------------------- MODULE MissPathProofs ----------------------------
(***************************************************************************)
(* The properties of the miss path, proved for every block size, set of    *)
(* blocks and packets, limit of the write allocator and bound.             *)
(*                                                                         *)
(* The first part is about one MSHR: what its operations do to the flags,  *)
(* to the bytes a list covers and to the order of the packets, and the     *)
(* invariant MInv.  The inductive invariant IInv of the miss path is the   *)
(* types, MInv of each MSHR, the order of service, and what ties the write *)
(* allocator's counters to the writes it has seen.                         *)
(***************************************************************************)
EXTENDS MissPath, SequenceTheorems, FiniteSetTheorems, WellFoundedInduction, TLAPS

(***************************************************************************)
(* Lists                                                                   *)
(***************************************************************************)

\* Min of a nonempty set of natural numbers is its least element.
LEMMA MinNat ==
    ASSUME NEW T \in SUBSET Nat, T # {}
    PROVE  Min(T) \in T /\ \A y \in T : Min(T) <= y
<1>1. PICK x \in T : \A y \in T : ~ (<<y, x>> \in OpToRel(<, Nat))
    BY ZenonT(60), WFMin, NatLessThanWellFounded
<1>2. \A y \in T : x <= y
    <2>1. TAKE y \in T
    <2>2. x \in Nat /\ y \in Nat
        OBVIOUS
    <2>3. ~ (y < x)
        BY ZenonT(60), <1>1, <2>2 DEF OpToRel
    <2>4. QED
        BY <2>2, <2>3
<1>3. QED
    BY ZenonT(60), <1>2 DEF Min

\* The elements before the first of a set of indices.
LEMMA Before ==
    ASSUME NEW n \in Nat, NEW bad \in SUBSET (1 .. n),
           NEW k, k = IF bad = {} THEN n ELSE Min(bad) - 1
    PROVE  /\ k \in 0 .. n /\ \A i \in 1 .. k : i \notin bad
           /\ k < n => k + 1 \in bad
<1>1. CASE bad = {}
    BY <1>1
<1>2. CASE bad # {}
    <2>1. Min(bad) \in bad /\ \A y \in bad : Min(bad) <= y
        BY <1>2, MinNat
    <2>2. Min(bad) \in 1 .. n /\ k = Min(bad) - 1
        BY ZenonT(60), <1>2, <2>1
    <2>3. \A i \in 1 .. k : ~ (Min(bad) <= i)
        BY <2>2
    <2>4. QED
        BY SMTT(30), <2>1, <2>2, <2>3
<1>3. QED
    BY <1>1, <1>2

\* prefix() for each of the predicates it is used with.
LEMMA PrefixMergeable ==
    ASSUME NEW s \in Seq(Kind)
    PROVE  prefix(s, isMergeable) \in 0 .. Len(s)
BY Before, LenProperties DEF prefix

LEMMA PrefixPromotable ==
    ASSUME NEW s \in Seq(Kind)
    PROVE  /\ prefix(s, isPromotable) \in 0 .. Len(s)
           /\ \A i \in 1 .. prefix(s, isPromotable) : isPromotable(s[i])
<1> DEFINE bad == {i \in DOMAIN s : ~isPromotable(s[i])}
           k == prefix(s, isPromotable)
<1>1. bad \in SUBSET (1 .. Len(s)) /\ Len(s) \in Nat /\ DOMAIN s = 1 .. Len(s)
    BY LenProperties
<1>2. k = IF bad = {} THEN Len(s) ELSE Min(bad) - 1
    BY DEF prefix
<1> HIDE DEF k
<1>3. k \in 0 .. Len(s) /\ \A i \in 1 .. k : i \notin bad
    <2> HIDE DEF bad
    <2> QED
        BY <1>1, <1>2, Before
<1>4. \A i \in 1 .. k : i \in DOMAIN s
    BY SMTT(30), <1>1, <1>3
<1>5. QED
    BY ZenonT(60), <1>3, <1>4 DEF k

LEMMA PrefixPromotableRead ==
    ASSUME NEW s \in Seq(Kind)
    PROVE  /\ prefix(s, isPromotableRead) \in 0 .. Len(s)
           /\ \A i \in 1 .. prefix(s, isPromotableRead) : isPromotableRead(s[i])
<1> DEFINE bad == {i \in DOMAIN s : ~isPromotableRead(s[i])}
           k == prefix(s, isPromotableRead)
<1>1. bad \in SUBSET (1 .. Len(s)) /\ Len(s) \in Nat /\ DOMAIN s = 1 .. Len(s)
    BY LenProperties
<1>2. k = IF bad = {} THEN Len(s) ELSE Min(bad) - 1
    BY DEF prefix
<1> HIDE DEF k
<1>3. k \in 0 .. Len(s) /\ \A i \in 1 .. k : i \notin bad
    <2> HIDE DEF bad
    <2> QED
        BY <1>1, <1>2, Before
<1>4. \A i \in 1 .. k : i \in DOMAIN s
    BY SMTT(30), <1>1, <1>3
<1>5. QED
    BY ZenonT(60), <1>3, <1>4 DEF k

LEMMA PrefixOrdinary ==
    ASSUME NEW s \in Seq(Kind)
    PROVE  /\ prefix(s, isOrdinary) \in 0 .. Len(s)
           /\ \A i \in 1 .. prefix(s, isOrdinary) : isOrdinary(s[i])
           /\ prefix(s, isOrdinary) < Len(s) => ~isOrdinary(s[prefix(s, isOrdinary) + 1])
<1> DEFINE bad == {i \in DOMAIN s : ~isOrdinary(s[i])}
           k == prefix(s, isOrdinary)
<1>1. bad \in SUBSET (1 .. Len(s)) /\ Len(s) \in Nat
    BY LenProperties
<1>2. k = IF bad = {} THEN Len(s) ELSE Min(bad) - 1
    BY DEF prefix
<1>3. /\ k \in 0 .. Len(s) /\ \A i \in 1 .. k : i \notin bad
      /\ k < Len(s) => k + 1 \in bad
    <2> HIDE DEF k, bad
    <2> QED
        BY <1>1, <1>2, Before
<1>4. \A i \in 1 .. k : isOrdinary(s[i])
    <2>1. DOMAIN s = 1 .. Len(s)
        BY LenProperties
    <2> HIDE DEF k
    <2>2. \A i \in 1 .. k : i \in DOMAIN s
        BY SMTT(30), <1>1, <1>3, <2>1
    <2>3. QED
        BY SMTT(30), <1>3, <2>2
<1>5. QED
    BY ZenonT(60), <1>3, <1>4

\* A list cut in two and put together again.
LEMMA Cut ==
    ASSUME NEW S, NEW s \in Seq(S), NEW n \in 0 .. Len(s)
    PROVE  /\ SubSeq(s, 1, n) \in Seq(S) /\ Len(SubSeq(s, 1, n)) = n
           /\ \A i \in 1 .. n : SubSeq(s, 1, n)[i] = s[i]
           /\ SubSeq(s, n + 1, Len(s)) \in Seq(S)
           /\ Len(SubSeq(s, n + 1, Len(s))) = Len(s) - n
           /\ \A i \in 1 .. Len(s) - n : SubSeq(s, n + 1, Len(s))[i] = s[n + i]
           /\ SubSeq(s, 1, n) \o SubSeq(s, n + 1, Len(s)) = s
<1> DEFINE a == SubSeq(s, 1, n)
           b == SubSeq(s, n + 1, Len(s))
<1>1. Len(s) \in Nat /\ n \in Nat /\ n <= Len(s) /\ \A i \in 1 .. Len(s) : s[i] \in S
    BY LenProperties, ElementOfSeq
<1>2. a \in Seq(S) /\ Len(a) = n /\ \A i \in 1 .. n : a[i] = s[i]
    <2>1. \A i \in 1 .. n : s[i] \in S
        BY <1>1
    <2>2. /\ a \in Seq(S)
          /\ Len(a) = IF 1 <= n THEN n - 1 + 1 ELSE 0
          /\ \A i \in 1 .. n - 1 + 1 : a[i] = s[1 + i - 1]
        BY SMTT(30), <2>1, <1>1, SubSeqProperties
    <2>3. QED
        BY <2>2, <1>1
<1>3. b \in Seq(S) /\ Len(b) = Len(s) - n /\ \A i \in 1 .. Len(s) - n : b[i] = s[n + i]
    <2>1. \A i \in n + 1 .. Len(s) : s[i] \in S
        BY <1>1
    <2>2. /\ b \in Seq(S)
          /\ Len(b) = IF n + 1 <= Len(s) THEN Len(s) - (n + 1) + 1 ELSE 0
          /\ \A i \in 1 .. Len(s) - (n + 1) + 1 : b[i] = s[(n + 1) + i - 1]
        BY SMTT(30), <2>1, <1>1, SubSeqProperties
    <2>3. QED
        BY SMTT(30), <2>2, <1>1
<1>4. a \o b = s
    <2> HIDE DEF a, b
    <2>1. /\ a \o b \in Seq(S) /\ Len(a \o b) = Len(s)
          /\ \A i \in 1 .. Len(s) : (a \o b)[i] = IF i <= n THEN a[i] ELSE b[i - n]
        BY <1>1, <1>2, <1>3, ConcatProperties
    <2>2. \A i \in 1 .. Len(s) : (a \o b)[i] = s[i]
        <3>1. TAKE i \in 1 .. Len(s)
        <3>2. CASE i <= n
            BY <1>1, <1>2, <2>1, <3>2
        <3>3. CASE ~ (i <= n)
            <4>1. i - n \in 1 .. Len(s) - n /\ n + (i - n) = i
                BY SMTT(30), <1>1, <3>3
            <4>2. QED
                BY SMTT(30), <1>3, <2>1, <3>3, <4>1
        <3>4. QED
            BY ZenonT(60), <3>2, <3>3
    <2>3. QED
        BY ZenonT(60), <2>1, <2>2, SeqEqual
<1>5. QED
    BY ZenonT(60), <1>2, <1>3, <1>4

\* Concatenation of lists of packets.
LEMMA Concat ==
    \A a, b \in Seq(Kind) :
        /\ a \o b \in Seq(Kind) /\ Len(a) \in Nat /\ Len(b) \in Nat
        /\ Len(a \o b) = Len(a) + Len(b) /\ DOMAIN (a \o b) = 1 .. Len(a) + Len(b)
        /\ \A i \in 1 .. Len(a) + Len(b) : (a \o b)[i] = IF i <= Len(a) THEN a[i] ELSE b[i - Len(a)]
<1>1. TAKE a, b \in Seq(Kind)
<1>2. /\ a \o b \in Seq(Kind) /\ Len(a \o b) = Len(a) + Len(b)
      /\ \A i \in 1 .. Len(a) + Len(b) : (a \o b)[i] = IF i <= Len(a) THEN a[i] ELSE b[i - Len(a)]
    BY ConcatProperties
<1>3. DOMAIN (a \o b) = 1 .. Len(a \o b) /\ Len(a) \in Nat /\ Len(b) \in Nat
    BY SMTT(30), <1>2, LenProperties
<1>4. QED
    BY SMTT(30), <1>2, <1>3

LEMMA Assoc == \A a, b, c \in Seq(Kind) : (a \o b) \o c = a \o (b \o c)
<1>1. TAKE a, b, c \in Seq(Kind)
<1> DEFINE l == (a \o b) \o c
           r == a \o (b \o c)
<1>2. /\ l \in Seq(Kind) /\ r \in Seq(Kind) /\ Len(l) = Len(r)
      /\ Len(l) = Len(a) + Len(b) + Len(c)
      /\ Len(a) \in Nat /\ Len(b) \in Nat /\ Len(c) \in Nat
    BY Concat
<1>3. \A i \in 1 .. Len(l) : l[i] = r[i]
    <2>1. TAKE i \in 1 .. Len(l)
    <2>2. CASE i <= Len(a)
        BY SMTT(30), <1>2, <2>2, Concat
    <2>3. CASE Len(a) < i /\ i <= Len(a) + Len(b)
        BY SMTT(30), <1>2, <2>3, Concat
    <2>4. CASE Len(a) + Len(b) < i
        BY SMTT(30), <1>2, <2>4, Concat
    <2>5. QED
        BY SMTT(30), <1>2, <2>2, <2>3, <2>4
<1>4. l = r
    <2> HIDE DEF l, r
    <2> QED
        BY ZenonT(60), <1>2, <1>3, SeqEqual
<1>5. QED
    BY <1>4

(***************************************************************************)
(* Target lists                                                            *)
(***************************************************************************)

\* The flags of a packet are truth values, and it writes bytes of its block.
LEMMA KindProps ==
    ASSUME NEW p \in Kind
    PROVE  /\ p.bytes \subseteq Byte /\ p.special \in BOOLEAN /\ p.blk \in Blk
           /\ mergedBytes(p) \subseteq Byte
           /\ needsWritable(p) \in BOOLEAN /\ isUpgrade(p) \in BOOLEAN
           /\ allocOnFill(p) \in BOOLEAN /\ fromCache(p) \in BOOLEAN
BY KindAssumption DEF needsWritable, isUpgrade, allocOnFill, fromCache, mergedBytes

LEMMA EmptyListProps == EmptyList \in ListType /\ Agrees(EmptyList)
<1>1. << >> \in Seq(Kind) /\ DOMAIN << >> = {}
    BY EmptySeq
<1>2. QED
    BY <1>1 DEF EmptyList, ListType, Agrees

\* populateFlags makes the flags agree with the targets.
LEMMA PopulateProps ==
    ASSUME NEW l, l.list \in Seq(Kind)
    PROVE  /\ populateFlags(l) \in ListType
           /\ populateFlags(l).list = l.list
           /\ Agrees(populateFlags(l))
<1> DEFINE n == prefix(l.list, isMergeable)
           written == UNION {mergedBytes(l.list[i]) : i \in 1 .. n}
<1>1. DOMAIN l.list = 1 .. Len(l.list) /\ Len(l.list) \in Nat /\ n \in 0 .. Len(l.list)
    BY SMTT(30), LenProperties, PrefixMergeable
<1> HIDE DEF n
<1>2. written \subseteq Byte
    <2>1. \A i \in 1 .. n : l.list[i] \in Kind
        BY <1>1, ElementOfSeq
    <2>2. \A i \in 1 .. n : mergedBytes(l.list[i]) \subseteq Byte
        BY SMTT(30), <2>1, KindProps
    <2>3. QED
        BY <2>2
<1> HIDE DEF written
<1>3. populateFlags(l) =
        [list |-> l.list,
         needsWritable |-> \E i \in DOMAIN l.list : needsWritable(l.list[i]),
         hasUpgrade |-> \E i \in DOMAIN l.list : isUpgrade(l.list[i]),
         allocOnFill |-> \E i \in DOMAIN l.list : allocOnFill(l.list[i]),
         hasFromCache |-> \E i \in DOMAIN l.list : fromCache(l.list[i]),
         canMergeWrites |-> written = Byte \/ n = Len(l.list), writes |-> written]
    BY ZenonT(60) DEF populateFlags, n, written
<1>4. QED
    BY <1>2, <1>3 DEF ListType, Agrees

\* add keeps the flags in agreement with the targets.
LEMMA AddProps ==
    ASSUME NEW l \in ListType, NEW p \in Kind
    PROVE  /\ add(l, p) \in ListType
           /\ add(l, p).list = Append(l.list, p)
           /\ add(l, p).needsWritable = (l.needsWritable \/ needsWritable(p))
           /\ Agrees(l) => Agrees(add(l, p))
<1> DEFINE s == Append(l.list, p)
           a == add(l, p)
<1>1. l.list \in Seq(Kind)
    BY DEF ListType
<1>2. /\ s \in Seq(Kind) /\ Len(s) = Len(l.list) + 1 /\ Len(l.list) \in Nat
      /\ \A i \in 1 .. Len(l.list) : s[i] = l.list[i]
      /\ s[Len(l.list) + 1] = p
      /\ DOMAIN s = 1 .. Len(l.list) + 1 /\ DOMAIN l.list = 1 .. Len(l.list)
    BY SMTT(30), <1>1, AppendProperties, LenProperties
<1>3. /\ mergedBytes(p) \subseteq Byte /\ p.special \in BOOLEAN
      /\ needsWritable(p) \in BOOLEAN /\ isUpgrade(p) \in BOOLEAN
      /\ allocOnFill(p) \in BOOLEAN /\ fromCache(p) \in BOOLEAN
    BY KindProps
<1>4. /\ a \in ListType /\ a.list = s
      /\ a.needsWritable = (l.needsWritable \/ needsWritable(p))
      /\ a.hasUpgrade = (l.hasUpgrade \/ isUpgrade(p))
      /\ a.allocOnFill = (l.allocOnFill \/ allocOnFill(p))
      /\ a.hasFromCache = (l.hasFromCache \/ (~isPrefetch(p) /\ fromCache(p)))
    <2> DEFINE f == [l EXCEPT !.needsWritable = @ \/ needsWritable(p),
                              !.hasUpgrade = @ \/ isUpgrade(p),
                              !.allocOnFill = @ \/ allocOnFill(p)]
               g == [f EXCEPT !.hasFromCache = @ \/ fromCache(p)]
               u == updateFlags(l, p)
    <2>1. /\ f \in ListType
          /\ f.needsWritable = (l.needsWritable \/ needsWritable(p))
          /\ f.hasUpgrade = (l.hasUpgrade \/ isUpgrade(p))
          /\ f.allocOnFill = (l.allocOnFill \/ allocOnFill(p))
          /\ f.hasFromCache = l.hasFromCache
        BY ZenonT(60), <1>3 DEF ListType
    <2>2. u = IF isPrefetch(p) THEN f ELSE updateWriteFlags(g, p)
        BY ZenonT(60) DEF updateFlags
    <2> HIDE DEF f
    <2>3. /\ g \in ListType
          /\ g.needsWritable = f.needsWritable /\ g.hasUpgrade = f.hasUpgrade
          /\ g.allocOnFill = f.allocOnFill
          /\ g.hasFromCache = (f.hasFromCache \/ fromCache(p))
        BY <1>3, <2>1 DEF ListType
    <2> HIDE DEF g
    <2>4. /\ updateWriteFlags(g, p) \in ListType
          /\ updateWriteFlags(g, p).needsWritable = g.needsWritable
          /\ updateWriteFlags(g, p).hasUpgrade = g.hasUpgrade
          /\ updateWriteFlags(g, p).allocOnFill = g.allocOnFill
          /\ updateWriteFlags(g, p).hasFromCache = g.hasFromCache
        BY ZenonT(60), <1>3, <2>3 DEF ListType, updateWriteFlags
    <2>5. /\ u \in ListType
          /\ u.needsWritable = (l.needsWritable \/ needsWritable(p))
          /\ u.hasUpgrade = (l.hasUpgrade \/ isUpgrade(p))
          /\ u.allocOnFill = (l.allocOnFill \/ allocOnFill(p))
          /\ u.hasFromCache = (l.hasFromCache \/ (~isPrefetch(p) /\ fromCache(p)))
        <3> HIDE DEF u
        <3>1. CASE isPrefetch(p)
            BY SMTT(30), <2>1, <2>2, <3>1 DEF ListType
        <3>2. CASE ~isPrefetch(p)
            BY SMTT(30), <2>1, <2>2, <2>3, <2>4, <3>2
        <3>3. QED
            BY <3>1, <3>2
    <2>6. a = [u EXCEPT !.list = s]
        BY DEF add
    <2> HIDE DEF u, s
    <2>7. QED
        BY SMTT(30), <1>2, <2>5, <2>6 DEF ListType
<1>5. isPrefetch(p) => ~fromCache(p)
    BY DEF isPrefetch, fromCache
<1>6. ASSUME Agrees(l) PROVE Agrees(a)
    <2> HIDE DEF s, a
    <2>1. \A i \in DOMAIN s : s[i] = p \/ (i \in DOMAIN l.list /\ s[i] = l.list[i])
        BY <1>2
    <2>2. Len(l.list) + 1 \in DOMAIN s /\ \A i \in DOMAIN l.list : i \in DOMAIN s
        BY <1>2
    <2>3. /\ (\E i \in DOMAIN s : needsWritable(s[i]))
               <=> (needsWritable(p) \/ \E i \in DOMAIN l.list : needsWritable(l.list[i]))
          /\ (\E i \in DOMAIN s : isUpgrade(s[i]))
               <=> (isUpgrade(p) \/ \E i \in DOMAIN l.list : isUpgrade(l.list[i]))
          /\ (\E i \in DOMAIN s : allocOnFill(s[i]))
               <=> (allocOnFill(p) \/ \E i \in DOMAIN l.list : allocOnFill(l.list[i]))
          /\ (\E i \in DOMAIN s : fromCache(s[i]))
               <=> (fromCache(p) \/ \E i \in DOMAIN l.list : fromCache(l.list[i]))
        BY ZenonT(60), <1>2, <2>1, <2>2
    <2>4. QED
        BY ZenonT(60), <1>4, <1>5, <1>6, <2>3 DEF Agrees
<1>7. QED
    BY SMTT(30), <1>4, <1>6

\* What TargetList says of the bytes written: the writes before the first
\* target that cannot be merged cover them.
Covers(l) ==
    \E n \in 0 .. Len(l.list) :
        /\ \A i \in 1 .. n : isWrite(l.list[i]) \/ isPrefetch(l.list[i])
        /\ l.writes \subseteq UNION {mergedBytes(l.list[i]) : i \in 1 .. n}
        /\ (l.canMergeWrites /\ l.writes # Byte) => n = Len(l.list)

LEMMA PopulateCovers ==
    ASSUME NEW l, l.list \in Seq(Kind)
    PROVE  /\ Covers(populateFlags(l))
           /\ l.list = << >> => populateFlags(l).canMergeWrites
<1> DEFINE n == prefix(l.list, isMergeable)
           bad == {i \in DOMAIN l.list : ~isMergeable(l.list[i])}
           written == UNION {mergedBytes(l.list[i]) : i \in 1 .. n}
           r == populateFlags(l)
<1>1. DOMAIN l.list = 1 .. Len(l.list) /\ Len(l.list) \in Nat /\ bad \in SUBSET (1 .. Len(l.list))
    BY LenProperties
<1>2. n = IF bad = {} THEN Len(l.list) ELSE Min(bad) - 1
    BY DEF prefix
<1>3. r.list = l.list /\ r.writes = written /\ r.canMergeWrites = (written = Byte \/ n = Len(l.list))
    BY ZenonT(60) DEF populateFlags
<1> HIDE DEF n, written, r
<1>4. n \in 0 .. Len(l.list) /\ \A i \in 1 .. n : i \notin bad
    <2> HIDE DEF bad
    <2> QED
        BY SMTT(30), <1>1, <1>2, Before
<1>5. \A i \in 1 .. n : i \in DOMAIN l.list
    BY <1>1, <1>4
<1>6. \A i \in 1 .. n : isWrite(l.list[i]) \/ isPrefetch(l.list[i])
    BY <1>4, <1>5 DEF isMergeable
<1>7. Covers(r)
    BY ZenonT(60), <1>3, <1>4, <1>6 DEF Covers, written
<1>8. l.list = << >> => r.canMergeWrites
    <2>1. l.list = << >> => Len(l.list) = 0
        BY EmptySeq
    <2>2. l.list = << >> => n = Len(l.list)
        BY <1>4, <2>1
    <2>3. QED
        BY ZenonT(60), <1>3, <2>2
<1>9. QED
    BY SMTT(30), <1>7, <1>8 DEF r

LEMMA AddCovers ==
    ASSUME NEW l \in ListType, NEW p \in Kind, Covers(l)
    PROVE  Covers(add(l, p))
<1> DEFINE s == Append(l.list, p)
           a == add(l, p)
           cov(q, k) == UNION {mergedBytes(q[i]) : i \in 1 .. k}
<1>1. l.list \in Seq(Kind)
    BY DEF ListType
<1>2. /\ Len(s) = Len(l.list) + 1 /\ Len(l.list) \in Nat
      /\ \A i \in 1 .. Len(l.list) : s[i] = l.list[i]
      /\ s[Len(l.list) + 1] = p
    BY SMTT(30), <1>1, AppendProperties, LenProperties
<1>3. PICK n \in 0 .. Len(l.list) :
        /\ \A i \in 1 .. n : isWrite(l.list[i]) \/ isPrefetch(l.list[i])
        /\ l.writes \subseteq cov(l.list, n)
        /\ (l.canMergeWrites /\ l.writes # Byte) => n = Len(l.list)
    BY DEF Covers
<1>4. a.list = s
    BY AddProps
<1>5. /\ \A i \in 1 .. n : isWrite(s[i]) \/ isPrefetch(s[i])
      /\ l.writes \subseteq cov(s, n)
    <2>1. \A i \in 1 .. n : s[i] = l.list[i]
        BY <1>2
    <2>2. QED
        BY <1>3, <2>1
<1>6. ASSUME n = Len(l.list)
      PROVE  cov(s, n + 1) = cov(s, n) \cup mergedBytes(p)
    <2>1. \A i : i \in 1 .. n + 1 <=> (i \in 1 .. n \/ i = n + 1)
        BY SMTT(30), <1>2, <1>3
    <2>2. QED
        BY SMTT(30), <1>2, <1>6, <2>1
<1>7. \/ a.writes = l.writes /\ (a.canMergeWrites /\ a.writes # Byte => isPrefetch(p) /\ l.canMergeWrites)
      \/ /\ isWrite(p) /\ l.canMergeWrites /\ l.writes # Byte
         /\ a.writes \subseteq l.writes \cup mergedBytes(p)
    <2> DEFINE f == [l EXCEPT !.needsWritable = @ \/ needsWritable(p),
                              !.hasUpgrade = @ \/ isUpgrade(p),
                              !.allocOnFill = @ \/ allocOnFill(p)]
               g == [f EXCEPT !.hasFromCache = @ \/ fromCache(p)]
               u == updateFlags(l, p)
               w == updateWriteFlags(g, p)
    <2>1. u = IF isPrefetch(p) THEN f ELSE w
        BY ZenonT(60) DEF updateFlags
    <2>2. f.writes = l.writes /\ f.canMergeWrites = l.canMergeWrites
        BY DEF ListType
    <2>3. g.writes = l.writes /\ g.canMergeWrites = l.canMergeWrites /\ g \in [DOMAIN g -> Range(g)]
          /\ "writes" \in DOMAIN g /\ "canMergeWrites" \in DOMAIN g
        BY DEF ListType, Range
    <2> HIDE DEF f, g
    <2>4. \/ w.writes = l.writes /\ ~(w.canMergeWrites /\ w.writes # Byte)
          \/ /\ isWrite(p) /\ l.canMergeWrites /\ l.writes # Byte
             /\ w.writes \subseteq l.writes \cup mergedBytes(p)
        BY <2>3 DEF updateWriteFlags, isWholeLineWrite
    <2>5. a.writes = u.writes /\ a.canMergeWrites = u.canMergeWrites
        BY DEF add
    <2> HIDE DEF w, u, a
    <2>6. QED
        BY SMTT(30), <2>1, <2>2, <2>4, <2>5
<1> SUFFICES Covers(a)
    OBVIOUS
<1> HIDE DEF s, a
<1>8. CASE /\ isWrite(p) \/ isPrefetch(p)
           /\ l.canMergeWrites /\ l.writes # Byte
           /\ a.writes \subseteq l.writes \cup mergedBytes(p)
    <2>1. n = Len(l.list)
        BY SMTT(30), <1>3, <1>8
    <2>2. n + 1 \in 0 .. Len(s) /\ n + 1 = Len(s)
        BY SMTT(30), <1>2, <2>1
    <2>3. \A i \in 1 .. n + 1 : isWrite(s[i]) \/ isPrefetch(s[i])
        <3>1. TAKE i \in 1 .. n + 1
        <3>2. i \in 1 .. n \/ i = n + 1
            BY SMTT(30), <1>2, <2>1
        <3>3. QED
            BY SMTT(30), <1>2, <1>5, <1>8, <2>1, <3>2
    <2>4. a.writes \subseteq cov(s, n + 1)
        BY SMTT(30), <1>5, <1>6, <1>8, <2>1
    <2>5. QED
        BY ZenonT(60), <1>4, <2>2, <2>3, <2>4 DEF Covers
<1>9. CASE a.writes = l.writes /\ ~(a.canMergeWrites /\ a.writes # Byte)
    <2>1. n \in 0 .. Len(s)
        BY <1>2
    <2>2. QED
        BY ZenonT(60), <1>4, <1>5, <1>9, <2>1 DEF Covers
<1>10. QED
    BY SMTT(30), <1>7, <1>8, <1>9

(***************************************************************************)
(* MSHRs                                                                   *)
(***************************************************************************)

\* What holds of a target list between two handlers.
GoodList(l) ==
    /\ l \in ListType /\ Agrees(l) /\ Covers(l)
    /\ l.list = << >> => l.canMergeWrites

LEMMA EmptyGood == GoodList(EmptyList) /\ EmptyList.list = << >>
<1>1. Covers(EmptyList)
    <2>1. Len(EmptyList.list) = 0 /\ EmptyList.writes = {}
        BY EmptySeq DEF EmptyList
    <2>2. 0 \in 0 .. Len(EmptyList.list) /\ \A i \in 1 .. 0 : FALSE
        BY SMTT(30), <2>1
    <2>3. QED
        BY SMTT(30), <2>1, <2>2 DEF Covers
<1>2. QED
    BY SMTT(30), <1>1, EmptyListProps DEF GoodList, EmptyList

LEMMA PopulateGood ==
    ASSUME NEW l, l.list \in Seq(Kind)
    PROVE  GoodList(populateFlags(l)) /\ populateFlags(l).list = l.list
BY SMTT(30), PopulateProps, PopulateCovers DEF GoodList

LEMMA AddGood ==
    ASSUME NEW l, GoodList(l), NEW p \in Kind
    PROVE  /\ GoodList(add(l, p)) /\ add(l, p).list = Append(l.list, p) /\ add(l, p).list # << >>
           /\ add(l, p).needsWritable = (l.needsWritable \/ needsWritable(p))
<1>1. l \in ListType /\ l.list \in Seq(Kind)
    BY DEF GoodList, ListType
<1>2. Append(l.list, p) # << >>
    BY SMTT(30), <1>1, AppendProperties
<1>3. QED
    BY ZenonT(60), <1>1, <1>2, AddProps, AddCovers DEF GoodList

\* The packets waiting in an MSHR, in order.
Order(m) == m.targets.list \o m.deferred.list

Alone(list) == \A i \in DOMAIN list : isCacheMaintenance(list[i]) => Len(list) = 1

\* Moving n deferred targets changes the order of none.
LEMMA SpliceProps ==
    ASSUME NEW m \in MSHRType, NEW n \in 0 .. Len(m.deferred.list)
    PROVE  /\ splice(m, n) \in MSHRType
           /\ splice(m, n).targets.list = m.targets.list \o SubSeq(m.deferred.list, 1, n)
           /\ splice(m, n).deferred.list = SubSeq(m.deferred.list, n + 1, Len(m.deferred.list))
           /\ Order(splice(m, n)) = Order(m)
           /\ splice(m, n).targets.needsWritable = m.targets.needsWritable
           /\ splice(m, n).pendingModified = m.pendingModified
<1> DEFINE t == m.targets.list
           d == m.deferred.list
           a == SubSeq(d, 1, n)
           b == SubSeq(d, n + 1, Len(d))
           s == splice(m, n)
<1>1. t \in Seq(Kind) /\ d \in Seq(Kind) /\ n \in 0 .. Len(d)
    BY DEF MSHRType, ListType
<1>2. a \in Seq(Kind) /\ b \in Seq(Kind) /\ a \o b = d
    <2> HIDE DEF d
    <2> QED
        BY ZenonT(60), <1>1, Cut
<1>3. t \o a \in Seq(Kind)
    BY <1>1, <1>2, ConcatProperties
<1>4. s = [m EXCEPT !.targets.list = t \o a, !.deferred.list = b]
    BY ZenonT(60) DEF splice
<1> HIDE DEF a, b, s
<1>5. (t \o a) \o b = t \o (a \o b)
    BY ZenonT(60), <1>1, <1>2, Assoc
<1>6. /\ s \in MSHRType /\ s.targets.list = t \o a /\ s.deferred.list = b
      /\ s.targets.needsWritable = m.targets.needsWritable
      /\ s.pendingModified = m.pendingModified
    BY ZenonT(60), <1>2, <1>3, <1>4 DEF MSHRType, ListType
<1>7. Order(s) = Order(m)
    BY ZenonT(60), <1>2, <1>5, <1>6 DEF Order
<1>8. QED
    BY SMTT(30), <1>6, <1>7 DEF a, b, s

\* What a promotion to serve more targets with the same response preserves.
Promoted(m, r) ==
    /\ r \in MSHRType /\ GoodList(r.deferred)
    /\ Order(r) = Order(m)
    /\ r.targets.list # << >>
    /\ r.targets.needsWritable = m.targets.needsWritable

LEMMA PromoteIfProps ==
    ASSUME NEW m \in MSHRType, NEW n \in 0 .. Len(m.deferred.list), m.targets.list # << >>,
           NEW r, r = [splice(m, n) EXCEPT !.deferred = populateFlags(splice(m, n).deferred)]
    PROVE  Promoted(m, r)
<1> DEFINE s == splice(m, n)
           d == populateFlags(s.deferred)
<1>1. /\ s \in MSHRType /\ Order(s) = Order(m)
      /\ s.targets.list = m.targets.list \o SubSeq(m.deferred.list, 1, n)
      /\ s.targets.needsWritable = m.targets.needsWritable
    BY ZenonT(60), SpliceProps
<1>2. s.targets.list # << >>
    <2>1. m.targets.list \in Seq(Kind) /\ m.deferred.list \in Seq(Kind)
        BY DEF MSHRType, ListType
    <2>2. SubSeq(m.deferred.list, 1, n) \in Seq(Kind)
        BY <2>1, Cut
    <2>3. QED
        BY <1>1, <2>1, <2>2, ConcatEqualIffEmpty
<1> HIDE DEF s
<1>3. GoodList(d) /\ d.list = s.deferred.list
    <2>1. s.deferred.list \in Seq(Kind)
        BY <1>1 DEF MSHRType, ListType
    <2>2. QED
        BY SMTT(30), <2>1, PopulateGood
<1>4. r = [s EXCEPT !.deferred = d]
    BY DEF s
<1> HIDE DEF d
<1>5. r \in MSHRType /\ r.deferred = d /\ r.targets = s.targets
    BY ZenonT(60), <1>1, <1>3, <1>4 DEF GoodList, MSHRType
<1>6. QED
    BY ZenonT(60), <1>1, <1>2, <1>3, <1>5 DEF Promoted, Order

LEMMA PromoteReadableProps ==
    ASSUME NEW m \in MSHRType, GoodList(m.deferred), m.targets.list # << >>
    PROVE  Promoted(m, promoteReadable(m))
<1> DEFINE n == prefix(m.deferred.list, isPromotableRead)
<1>1. n \in 0 .. Len(m.deferred.list)
    BY PrefixPromotableRead DEF MSHRType, ListType
<1>2. promoteReadable(m) =
        IF m.deferred.list = << >> THEN m
        ELSE [splice(m, n) EXCEPT !.deferred = populateFlags(splice(m, n).deferred)]
    BY ZenonT(60) DEF promoteReadable, promoteIf
<1> HIDE DEF n
<1>3. QED
    BY ZenonT(60), <1>1, <1>2, PromoteIfProps DEF Promoted

LEMMA PromoteWritableProps ==
    ASSUME NEW m \in MSHRType, GoodList(m.deferred), m.targets.list # << >>
    PROVE  /\ promoteWritable(m) \in MSHRType
           /\ GoodList(promoteWritable(m).deferred)
           /\ Order(promoteWritable(m)) = Order(m)
           /\ promoteWritable(m).targets.list # << >>
<1> DEFINE w == [m EXCEPT !.targets.needsWritable = TRUE]
           n == prefix(w.deferred.list, isPromotable)
<1>1. /\ w \in MSHRType /\ w.deferred = m.deferred /\ w.targets.list = m.targets.list
      /\ Order(w) = Order(m)
    BY ZenonT(60) DEF MSHRType, ListType, Order
<1>2. promoteWritable(m) =
        IF promotesWritable(m)
        THEN [splice(w, n) EXCEPT !.deferred = populateFlags(splice(w, n).deferred)] ELSE m
    BY ZenonT(60) DEF promoteWritable, promoteIf
<1> HIDE DEF w
<1>3. n \in 0 .. Len(w.deferred.list)
    BY <1>1, PrefixPromotable DEF MSHRType, ListType
<1> HIDE DEF n
<1>4. CASE promotesWritable(m)
    <2>1. Promoted(w, promoteWritable(m))
        BY ZenonT(60), <1>1, <1>2, <1>3, <1>4, PromoteIfProps
    <2>2. QED
        BY <1>1, <2>1 DEF Promoted
<1>5. CASE ~promotesWritable(m)
    BY SMTT(30), <1>2, <1>5
<1>6. QED
    BY <1>4, <1>5

\* The targets a response serves and those it leaves, in order.
LEMMA ServiceProps ==
    ASSUME NEW m \in MSHRType, GoodList(m.deferred), m.targets.list # << >>, NEW cmd
    PROVE  /\ withoutServiceable(m, cmd) \in MSHRType
           /\ GoodList(withoutServiceable(m, cmd).targets)
           /\ withoutServiceable(m, cmd).deferred = m.deferred
           /\ extractServiceableTargets(m, cmd) \in Seq(Kind)
           /\ extractServiceableTargets(m, cmd) \o Order(withoutServiceable(m, cmd)) = Order(m)
           /\ withoutServiceable(m, cmd).targets.list # << >> =>
                 cmd = "ReadRespWithInvalidate" /\ Len(m.targets.list) # 1
           /\ \A i \in DOMAIN withoutServiceable(m, cmd).targets.list :
                 \E j \in DOMAIN m.targets.list :
                    withoutServiceable(m, cmd).targets.list[i] = m.targets.list[j]
<1> DEFINE t == m.targets.list
           d == m.deferred.list
           n == serviceable(m, cmd)
           a == SubSeq(t, 1, n)
           b == SubSeq(t, n + 1, Len(t))
           l == populateFlags([m.targets EXCEPT !.list = b])
           w == withoutServiceable(m, cmd)
<1>1. t \in Seq(Kind) /\ d \in Seq(Kind)
    BY DEF MSHRType, ListType
<1>2. Len(t) \in Nat \ {0} /\ DOMAIN t = 1 .. Len(t)
    BY <1>1, EmptySeq, LenProperties
<1>3. n \in 1 .. Len(t)
    BY <1>2 DEF serviceable
<1>4. w = [m EXCEPT !.targets = l] /\ extractServiceableTargets(m, cmd) = a
    BY ZenonT(60) DEF withoutServiceable, extractServiceableTargets
<1> HIDE DEF n
<1>5. /\ a \in Seq(Kind) /\ b \in Seq(Kind) /\ a \o b = t /\ Len(b) = Len(t) - n
      /\ \A i \in 1 .. Len(t) - n : b[i] = t[n + i]
    <2>1. n \in 0 .. Len(t)
        BY <1>2, <1>3
    <2> HIDE DEF t
    <2>2. QED
        BY ZenonT(60), <1>1, <2>1, Cut
<1> HIDE DEF a, b, w
<1>6. GoodList(l) /\ l.list = b
    <2>1. [m.targets EXCEPT !.list = b].list = b
        BY DEF MSHRType, ListType
    <2>2. QED
        BY ZenonT(60), <1>5, <2>1, PopulateGood
<1> HIDE DEF l
<1>7. w \in MSHRType /\ w.targets = l /\ w.deferred = m.deferred
    BY SMTT(30), <1>4, <1>6 DEF GoodList, MSHRType
<1>8. a \o (b \o d) = t \o d
    <2> HIDE DEF d, t
    <2>1. (a \o b) \o d = a \o (b \o d)
        <3>1. a \in Seq(Kind) /\ b \in Seq(Kind) /\ d \in Seq(Kind)
            BY ZenonT(60), <1>1, <1>5
        <3>2. QED
            BY ZenonT(60), <3>1, Assoc
    <2>2. QED
        BY ZenonT(60), <1>5, <2>1
<1>9. Order(w) = b \o d /\ Order(m) = t \o d
    BY ZenonT(60), <1>6, <1>7 DEF Order
<1>10. b # << >> => cmd = "ReadRespWithInvalidate" /\ Len(t) # 1
    <2>1. Len(t) = 1 => Len(b) = 0
        BY SMTT(30), <1>2, <1>3, <1>5
    <2>2. cmd # "ReadRespWithInvalidate" => n = Len(t)
        BY DEF serviceable, n
    <2>3. cmd # "ReadRespWithInvalidate" => Len(b) = 0
        BY SMTT(30), <1>2, <1>5, <2>2
    <2>4. QED
        BY <1>5, <2>1, <2>3, EmptySeq
<1>11. \A i \in DOMAIN b : \E j \in DOMAIN t : b[i] = t[j]
    <2> HIDE DEF t
    <2>1. DOMAIN b = 1 .. Len(t) - n
        BY SMTT(30), <1>5, LenProperties
    <2>2. \A i \in 1 .. Len(t) - n : n + i \in 1 .. Len(t)
        BY SMTT(30), <1>2, <1>3
    <2>3. QED
        BY SMTT(30), <1>2, <1>5, <2>1, <2>2
<1>12. QED
    BY ZenonT(60), <1>4, <1>5, <1>6, <1>7, <1>8, <1>9, <1>10, <1>11 DEF w

\* The first deferred target, if any, cannot be among the targets.
HeadApart(m) ==
    m.deferred.list # << >> =>
        \/ isCacheMaintenance(m.deferred.list[1])
        \/ isCacheMaintenance(m.targets.list[1])

LEMMA PromoteDeferredProps ==
    ASSUME NEW m \in MSHRType, ~isDone(m),
           \A i \in DOMAIN m.targets.list : isOrdinary(m.targets.list[i])
    PROVE  /\ promoteDeferredTargets(m) \in MSHRType
           /\ GoodList(promoteDeferredTargets(m).targets)
           /\ GoodList(promoteDeferredTargets(m).deferred)
           /\ Order(promoteDeferredTargets(m)) = Order(m)
           /\ promoteDeferredTargets(m).targets.list # << >>
           /\ Alone(promoteDeferredTargets(m).targets.list)
           /\ HeadApart(promoteDeferredTargets(m))
<1> DEFINE t == m.targets.list
           d == m.deferred.list
           k == prefix(d, isOrdinary)
           n == promoted(m)
           s == splice(m, n)
           r == promoteDeferredTargets(m)
<1>1. t \in Seq(Kind) /\ d \in Seq(Kind) /\ Len(t) \in Nat /\ Len(d) \in Nat
      /\ DOMAIN t = 1 .. Len(t) /\ DOMAIN d = 1 .. Len(d)
      /\ (d = << >> <=> Len(d) = 0) /\ (t = << >> <=> Len(t) = 0)
    BY EmptySeq, LenProperties DEF MSHRType, ListType
<1>2. /\ k \in 0 .. Len(d) /\ \A i \in 1 .. k : isOrdinary(d[i])
      /\ k < Len(d) => ~isOrdinary(d[k + 1])
    BY ZenonT(60), <1>1, PrefixOrdinary
<1>3. n = IF k = 0 /\ d # << >> /\ t = << >> THEN 1 ELSE k
    BY DEF promoted
<1> HIDE DEF k, n
<1>4. n \in 0 .. Len(d)
    BY <1>1, <1>2, <1>3
<1>5. /\ s \in MSHRType /\ Order(s) = Order(m)
      /\ s.targets.list = t \o SubSeq(d, 1, n)
      /\ s.deferred.list = SubSeq(d, n + 1, Len(d))
    BY ZenonT(60), <1>4, SpliceProps
<1>6. r = [s EXCEPT !.targets = populateFlags(s.targets), !.deferred = populateFlags(s.deferred)]
    BY ZenonT(60) DEF promoteDeferredTargets, n
<1> HIDE DEF s, r
<1>7. /\ GoodList(populateFlags(s.targets)) /\ populateFlags(s.targets).list = s.targets.list
      /\ GoodList(populateFlags(s.deferred)) /\ populateFlags(s.deferred).list = s.deferred.list
    BY ZenonT(60), <1>5, PopulateGood DEF MSHRType, ListType
<1>8. /\ r \in MSHRType /\ GoodList(r.targets) /\ GoodList(r.deferred)
      /\ r.targets.list = s.targets.list /\ r.deferred.list = s.deferred.list
    BY ZenonT(60), <1>5, <1>6, <1>7 DEF GoodList, MSHRType
<1> DEFINE a == SubSeq(d, 1, n)
           b == SubSeq(d, n + 1, Len(d))
<1>9. /\ a \in Seq(Kind) /\ Len(a) = n /\ \A i \in 1 .. n : a[i] = d[i]
      /\ b \in Seq(Kind) /\ Len(b) = Len(d) - n /\ \A i \in 1 .. Len(d) - n : b[i] = d[n + i]
    <2>1. d \in Seq(Kind) /\ n \in 0 .. Len(d)
        BY ZenonT(60), <1>1, <1>4
    <2> HIDE DEF d
    <2>2. QED
        BY <2>1, Cut
<1> DEFINE ta == t \o a
<1>10. ta = r.targets.list /\ b = r.deferred.list
    BY <1>5, <1>8
<1> HIDE DEF a, b
<1>11. /\ ta \in Seq(Kind) /\ Len(ta) = Len(t) + n
       /\ \A i \in 1 .. Len(t) + n : ta[i] = IF i <= Len(t) THEN t[i] ELSE a[i - Len(t)]
       /\ DOMAIN ta = 1 .. Len(t) + n
    <2>1. t \in Seq(Kind) /\ a \in Seq(Kind) /\ Len(a) = n
        BY SMTT(30), <1>1, <1>9
    <2> HIDE DEF t
    <2>2. QED
        BY ZenonT(60), <2>1, Concat
<1>12. ~ (Len(t) = 0 /\ Len(d) = 0)
    BY <1>1 DEF isDone
<1> HIDE DEF t, d, ta
<1>13. Len(ta) # 0
    BY SMTT(30), <1>1, <1>2, <1>3, <1>4, <1>11, <1>12
<1>14. Alone(ta)
    <2>1. CASE k = 0 /\ d # << >> /\ t = << >>
        BY SMTT(30), <1>1, <1>3, <1>11, <2>1 DEF Alone
    <2>2. CASE ~ (k = 0 /\ d # << >> /\ t = << >>)
        <3>1. n = k
            BY SMTT(30), <1>3, <2>2
        <3>2. SUFFICES ASSUME NEW i \in 1 .. Len(t) + n PROVE isOrdinary(ta[i])
            BY <1>11 DEF Alone, isOrdinary
        <3>3. CASE i <= Len(t)
            <4>1. i \in DOMAIN t /\ ta[i] = t[i]
                BY SMTT(30), <1>1, <1>11, <3>3
            <4>2. QED
                BY <4>1 DEF t
        <3>4. CASE ~ (i <= Len(t))
            <4>1. i - Len(t) \in 1 .. n
                BY SMTT(30), <1>1, <1>4, <3>4
            <4>2. ta[i] = d[i - Len(t)]
                BY ZenonT(60), <1>9, <1>11, <3>4, <4>1
            <4>3. QED
                BY ZenonT(60), <1>2, <3>1, <4>1, <4>2
        <3>5. QED
            BY SMTT(30), <3>3, <3>4
    <2>3. QED
        BY SMTT(30), <2>1, <2>2
<1>15. HeadApart(r)
    <2>1. SUFFICES ASSUME b # << >>
                   PROVE  isCacheMaintenance(b[1]) \/ isCacheMaintenance(ta[1])
        BY <1>10 DEF HeadApart
    <2>2. Len(d) - n # 0
        BY SMTT(30), <1>9, <2>1, EmptySeq
    <2>3. 1 \in 1 .. Len(d) - n /\ n < Len(d)
        <3>1. Len(d) \in Nat /\ n \in 0 .. Len(d)
            BY <1>1, <1>4
        <3>2. QED
            BY <2>2, <3>1
    <2>4. CASE n = k
        BY ZenonT(60), <1>2, <1>9, <2>3, <2>4 DEF isOrdinary
    <2>5. CASE n # k
        <3>1. k = 0 /\ n = 1 /\ Len(t) = 0
            BY ZenonT(60), <1>1, <1>3, <2>5
        <3>2. ta[1] = a[1 - Len(t)] /\ a[1] = d[1] /\ 1 - Len(t) = 1
            BY SMTT(30), <1>9, <1>11, <3>1
        <3>3. ~isOrdinary(d[k + 1]) /\ k + 1 = 1
            BY SMTT(30), <1>1, <1>2, <2>3, <3>1
        <3>4. QED
            BY <3>2, <3>3 DEF isOrdinary
    <2>6. QED
        BY SMTT(30), <2>4, <2>5
<1>16. r.targets.list # << >>
    BY ZenonT(60), <1>10, <1>13, EmptySeq
<1>17. Order(r) = Order(m)
    BY ZenonT(60), <1>5, <1>8 DEF Order
<1>18. QED
    BY ZenonT(60), <1>8, <1>10, <1>14, <1>15, <1>16, <1>17 DEF r

(***************************************************************************)
(* The invariant of one MSHR and what each handler does to it              *)
(***************************************************************************)

Whole(list) ==
    \E n \in DOMAIN list :
        /\ \A i \in 1 .. n : isWrite(list[i]) \/ isPrefetch(list[i])
        /\ UNION {mergedBytes(list[i]) : i \in 1 .. n} = Byte

MInv(m) ==
    /\ m \in MSHRType /\ GoodList(m.targets) /\ GoodList(m.deferred)
    /\ m.targets.list = << >> => m.deferred.list = << >>
    /\ Alone(m.targets.list)
    /\ m.inService /\ m.targets.needsWritable => m.pendingModified
    /\ HeadApart(m) \/ (m.inService /\ ~m.pendingModified)
    /\ (m.targets.list # << >> /\ m.inService /\ m.wasWholeLineWrite) => Whole(m.targets.list)

LEMMA FreeProps == MInv(Free) /\ Order(Free) = << >> /\ Free.targets.list = << >>
<1>1. /\ Free.targets = EmptyList /\ Free.deferred = EmptyList /\ ~Free.inService
      /\ EmptyList.list = << >> /\ ~EmptyList.needsWritable
    BY DEF Free, EmptyList
<1>2. Free \in MSHRType
    BY EmptyListProps DEF Free, MSHRType
<1>3. Alone(<< >>) /\ << >> \o << >> = << >>
    BY DEF Alone
<1>4. QED
    BY ZenonT(60), <1>1, <1>2, <1>3, EmptyGood DEF MInv, HeadApart, Order

LEMMA AllocateProps ==
    ASSUME NEW p \in Kind
    PROVE  /\ MInv(allocate(p)) /\ Order(allocate(p)) = << p >>
           /\ allocate(p).targets.list # << >>
<1> DEFINE l == add(EmptyList, p)
           m == allocate(p)
<1>1. GoodList(l) /\ l.list = Append(<< >>, p) /\ l.list # << >>
    BY SMTT(30), AddGood, EmptyGood DEF EmptyList
<1>2. l.list = << p >>
    BY <1>1
<1>3. m = [targets |-> l, deferred |-> EmptyList, inService |-> FALSE,
           pendingModified |-> FALSE, wasWholeLineWrite |-> FALSE]
    BY DEF allocate
<1> HIDE DEF l, m
<1>4. m.targets = l /\ m.deferred = EmptyList /\ ~m.inService /\ m \in MSHRType
    BY SMTT(30), <1>1, <1>3, EmptyGood DEF GoodList, MSHRType
<1>5. Alone(l.list)
    <2>1. Len(<< p >>) = 1
        OBVIOUS
    <2>2. QED
        BY SMTT(30), <1>2, <2>1 DEF Alone
<1>6. Order(m) = << p >>
    <2>1. << p >> \in Seq(Kind)
        OBVIOUS
    <2>2. QED
        BY ZenonT(60), <1>2, <1>4, <2>1, EmptyGood, ConcatEmptySeq DEF Order
<1>7. MInv(m)
    BY SMTT(30), <1>1, <1>4, <1>5, EmptyGood DEF MInv, HeadApart
<1>8. QED
    BY ZenonT(60), <1>1, <1>4, <1>6, <1>7 DEF m

\* A list that covers the line still does with one more target.
LEMMA WholeAppend ==
    ASSUME NEW list \in Seq(Kind), NEW p \in Kind, Whole(list)
    PROVE  Whole(Append(list, p))
<1> DEFINE s == Append(list, p)
<1>1. /\ Len(list) \in Nat /\ DOMAIN list = 1 .. Len(list) /\ DOMAIN s = 1 .. Len(list) + 1
      /\ \A i \in 1 .. Len(list) : s[i] = list[i]
    BY SMTT(30), AppendProperties, LenProperties
<1> HIDE DEF s
<1>2. PICK n \in DOMAIN list :
        /\ \A i \in 1 .. n : isWrite(list[i]) \/ isPrefetch(list[i])
        /\ UNION {mergedBytes(list[i]) : i \in 1 .. n} = Byte
    BY DEF Whole
<1>3. n \in DOMAIN s /\ \A i \in 1 .. n : s[i] = list[i]
    BY <1>1
<1>4. UNION {mergedBytes(s[i]) : i \in 1 .. n} = UNION {mergedBytes(list[i]) : i \in 1 .. n}
    BY <1>3
<1>5. Whole(s)
    BY ZenonT(60), <1>2, <1>3, <1>4 DEF Whole
<1>6. QED
    BY <1>5 DEF s

\* A new last packet is last in the order, whichever list it joins.
LEMMA OrderAppend ==
    \A t, d \in Seq(Kind) : \A p \in Kind :
        /\ t \o Append(d, p) = Append(t \o d, p)
        /\ Append(t, p) \o << >> = Append(t \o << >>, p)
<1>1. TAKE t, d \in Seq(Kind)
<1>2. TAKE p \in Kind
<1>3. << p >> \in Seq(Kind) /\ t \o d \in Seq(Kind) /\ Append(t, p) \in Seq(Kind)
    BY Concat, AppendProperties
<1>4. (t \o d) \o << p >> = t \o (d \o << p >>)
    BY ZenonT(60), <1>3, Assoc
<1>5. Append(d, p) = d \o << p >> /\ Append(t \o d, p) = (t \o d) \o << p >>
    BY <1>3, AppendIsConcat
<1>6. Append(t, p) \o << >> = Append(t, p) /\ t \o << >> = t
    BY <1>3, ConcatEmptySeq
<1>7. QED
    BY SMTT(30), <1>4, <1>5, <1>6

(***************************************************************************)
(* The handlers of the miss path                                           *)
(***************************************************************************)

LEMMA AllocateTargetProps ==
    ASSUME NEW m, MInv(m), m.targets.list # << >>, NEW p \in Kind
    PROVE  /\ MInv(allocateTarget(m, p))
           /\ Order(allocateTarget(m, p)) = Append(Order(m), p)
           /\ allocateTarget(m, p).targets.list # << >>
<1> DEFINE t == m.targets.list
           d == m.deferred.list
           r == allocateTarget(m, p)
<1>1. m \in MSHRType /\ GoodList(m.targets) /\ GoodList(m.deferred)
    BY DEF MInv
<1>2. t \in Seq(Kind) /\ d \in Seq(Kind)
    BY <1>1 DEF MSHRType, ListType
<1>3. Len(t) \in Nat \ {0} /\ DOMAIN t = 1 .. Len(t) /\ Head(t) = t[1]
    BY <1>2, EmptySeq, LenProperties
<1>4. CASE mustDefer(m, p)
    <2> DEFINE l == add(m.deferred, p)
    <2>1. GoodList(l) /\ l.list = Append(d, p) /\ l.list # << >>
        BY <1>1, AddGood
    <2>2. r = [m EXCEPT !.deferred = l]
        BY <1>4 DEF allocateTarget
    <2> HIDE DEF l, r
    <2>3. /\ r \in MSHRType /\ r.deferred = l /\ r.targets = m.targets
          /\ r.inService = m.inService /\ r.pendingModified = m.pendingModified
          /\ r.wasWholeLineWrite = m.wasWholeLineWrite
        BY SMTT(30), <1>1, <2>1, <2>2 DEF GoodList, MSHRType
    <2>4. Order(r) = Append(Order(m), p)
        BY ZenonT(60), <1>2, <2>1, <2>3, OrderAppend DEF Order
    <2>5. HeadApart(r) \/ (r.inService /\ ~r.pendingModified)
        <3>1. CASE d = << >>
            <4>1. l.list[1] = p
                BY <2>1, <3>1
            <4>2. \/ isCacheMaintenance(p) \/ isCacheMaintenance(t[1])
                  \/ m.inService /\ ~m.pendingModified
                BY ZenonT(60), <1>3, <1>4, <3>1 DEF mustDefer
            <4>3. QED
                BY <2>3, <4>1, <4>2 DEF HeadApart
        <3>2. CASE d # << >>
            <4>1. Len(d) \in Nat \ {0}
                BY ZenonT(60), <1>2, <3>2, EmptySeq, LenProperties
            <4>2. l.list[1] = d[1]
                BY SMTT(30), <1>2, <2>1, <4>1, AppendProperties
            <4>3. HeadApart(m) \/ (m.inService /\ ~m.pendingModified)
                BY ZenonT(60) DEF MInv
            <4>4. QED
                BY ZenonT(60), <2>3, <3>2, <4>2, <4>3 DEF HeadApart
        <3>3. QED
            BY <3>1, <3>2
    <2>6. MInv(r)
        BY ZenonT(60), <2>1, <2>3, <2>5 DEF MInv
    <2>7. QED
        BY ZenonT(60), <2>3, <2>4, <2>6 DEF r
<1>5. CASE ~mustDefer(m, p)
    <2> DEFINE l == add(m.targets, p)
    <2>1. /\ GoodList(l) /\ l.list = Append(t, p) /\ l.list # << >>
          /\ l.needsWritable = (m.targets.needsWritable \/ needsWritable(p))
        BY <1>1, AddGood
    <2>2. r = [m EXCEPT !.targets = l]
        BY <1>5 DEF allocateTarget
    <2> HIDE DEF l, r
    <2>3. /\ r \in MSHRType /\ r.targets = l /\ r.deferred = m.deferred
          /\ r.inService = m.inService /\ r.pendingModified = m.pendingModified
          /\ r.wasWholeLineWrite = m.wasWholeLineWrite
        BY ZenonT(60), <1>1, <2>1, <2>2 DEF GoodList, MSHRType
    <2>4. /\ ~isCacheMaintenance(p) /\ ~isCacheMaintenance(t[1]) /\ d = << >>
          /\ ~(m.inService /\ needsWritable(p) /\ ~m.pendingModified)
        BY ZenonT(60), <1>3, <1>5 DEF mustDefer
    <2>5. Order(r) = Append(Order(m), p)
        BY SMTT(30), <1>2, <2>1, <2>3, <2>4, OrderAppend DEF Order
    <2>6. Alone(l.list)
        <3>1. \A i \in DOMAIN t : ~isCacheMaintenance(t[i])
            BY SMTT(30), <1>3, <2>4 DEF MInv, Alone
        <3>2. /\ DOMAIN l.list = 1 .. Len(t) + 1
              /\ \A i \in 1 .. Len(t) : l.list[i] = t[i]
              /\ l.list[Len(t) + 1] = p
            BY SMTT(30), <1>2, <2>1, AppendProperties, LenProperties
        <3>3. \A i \in 1 .. Len(t) + 1 : i \in 1 .. Len(t) \/ i = Len(t) + 1
            BY <1>3
        <3>4. \A i \in DOMAIN l.list : ~isCacheMaintenance(l.list[i])
            BY ZenonT(60), <1>3, <2>4, <3>1, <3>2, <3>3
        <3>5. QED
            BY <3>4 DEF Alone
    <2>7. (r.inService /\ r.wasWholeLineWrite) => Whole(l.list)
        BY ZenonT(60), <1>2, <2>1, <2>3, WholeAppend DEF MInv
    <2>8. (r.inService /\ r.targets.needsWritable) => r.pendingModified
        BY ZenonT(60), <2>1, <2>3, <2>4 DEF MInv
    <2>9. HeadApart(r)
        BY <2>3, <2>4 DEF HeadApart
    <2>10. MInv(r)
        BY ZenonT(60), <1>1, <2>1, <2>3, <2>6, <2>7, <2>8, <2>9 DEF MInv
    <2>11. QED
        BY ZenonT(60), <2>1, <2>3, <2>5, <2>10 DEF r
<1>6. QED
    BY <1>4, <1>5

LEMMA MarkInServiceProps ==
    ASSUME NEW m, MInv(m), ~m.inService, NEW pmr \in BOOLEAN
    PROVE  MInv(markInService(m, pmr)) /\ Order(markInService(m, pmr)) = Order(m)
<1> DEFINE r == markInService(m, pmr)
<1>1. m \in MSHRType /\ m.targets.list \in Seq(Kind)
    BY DEF MInv, MSHRType, ListType
<1>2. /\ r \in MSHRType /\ r.targets = m.targets /\ r.deferred = m.deferred /\ r.inService
      /\ r.pendingModified = (m.targets.needsWritable \/ pmr)
      /\ r.wasWholeLineWrite = isWholeLineWrite(m.targets)
    BY ZenonT(60), <1>1 DEF markInService, MSHRType, ListType, isWholeLineWrite
<1> HIDE DEF r
<1>3. ASSUME isWholeLineWrite(m.targets) PROVE Whole(m.targets.list)
    <2> DEFINE list == m.targets.list
    <2>1. PICK n \in 0 .. Len(list) :
            /\ \A i \in 1 .. n : isWrite(list[i]) \/ isPrefetch(list[i])
            /\ m.targets.writes \subseteq UNION {mergedBytes(list[i]) : i \in 1 .. n}
        BY ZenonT(60) DEF MInv, GoodList, Covers
    <2>2. Len(list) \in Nat /\ DOMAIN list = 1 .. Len(list)
        BY <1>1, LenProperties
    <2>3. m.targets.writes = Byte /\ 0 \in Byte
        BY SMTT(30), <1>3, SizeAssumption DEF isWholeLineWrite, Byte
    <2>4. n # 0
        BY SMTT(30), <2>1, <2>3
    <2>5. n \in DOMAIN list
        BY SMTT(30), <2>2, <2>4
    <2>6. UNION {mergedBytes(list[i]) : i \in 1 .. n} \subseteq Byte
        <3>1. \A i \in 1 .. n : list[i] \in Kind
            BY SMTT(30), <1>1, <2>2, ElementOfSeq
        <3>2. \A i \in 1 .. n : mergedBytes(list[i]) \subseteq Byte
            BY SMTT(30), <3>1, KindProps
        <3>3. QED
            BY <3>2
    <2>7. UNION {mergedBytes(list[i]) : i \in 1 .. n} = Byte
        BY ZenonT(60), <2>1, <2>3, <2>6
    <2>8. QED
        BY <2>1, <2>5, <2>7 DEF Whole
<1>4. HeadApart(r)
    BY SMTT(30), <1>2 DEF MInv, HeadApart
<1>5. MInv(r)
    BY ZenonT(60), <1>2, <1>3, <1>4 DEF MInv
<1>6. QED
    BY ZenonT(60), <1>2, <1>5 DEF Order, r

\* The promotions a response makes before its targets are served.
LEMMA ResponsePromotes ==
    ASSUME NEW m, MInv(m), m.targets.list # << >>, NEW r
    PROVE  LET m1 == afterPromoteReadable(m, r)
               m2 == afterPromoteWritable(m1, r)
           IN  /\ m1 \in MSHRType /\ m1.targets.needsWritable = m.targets.needsWritable
               /\ m2 \in MSHRType /\ GoodList(m2.deferred) /\ m2.targets.list # << >>
               /\ Order(m2) = Order(m)
               /\ r.cmd = "ReadRespWithInvalidate" /\ r.blk # "writable" => m2 = m
<1> DEFINE m1 == afterPromoteReadable(m, r)
           m2 == afterPromoteWritable(m1, r)
<1>1. m \in MSHRType /\ GoodList(m.deferred)
    BY DEF MInv
<1>2. Promoted(m, m)
    BY SMTT(30), <1>1 DEF Promoted
<1>3. Promoted(m, m1)
    BY ZenonT(60), <1>1, <1>2, PromoteReadableProps DEF afterPromoteReadable
<1>4. m1 \in MSHRType /\ GoodList(m1.deferred) /\ m1.targets.list # << >>
    BY ZenonT(60), <1>3 DEF Promoted
<1>5. m2 \in MSHRType /\ GoodList(m2.deferred) /\ m2.targets.list # << >> /\ Order(m2) = Order(m1)
    BY ZenonT(60), <1>4, PromoteWritableProps DEF afterPromoteWritable
<1>6. r.cmd = "ReadRespWithInvalidate" /\ r.blk # "writable" => m2 = m
    BY DEF afterPromoteReadable, afterPromoteWritable
<1>7. QED
    BY ZenonT(60), <1>3, <1>4, <1>5, <1>6 DEF Promoted

\* What a response may be, by the first target.
LEMMA ResponseKinds ==
    ASSUME NEW m, NEW r \in Response(m)
    PROVE  /\ r.cmd = "ReadRespWithInvalidate" => r.blk # "writable"
           /\ isCacheInvalidate(Head(m.targets.list)) => r.blk = "none"
           /\ r.cmd = "CleanSharedResp" => Head(m.targets.list).cmd = "CleanSharedReq"
           /\ Head(m.targets.list).cmd = "CleanSharedReq" => r.cmd = "CleanSharedResp"
<1> DEFINE h == Head(m.targets.list)
<1>1. CASE isCacheInvalidate(h)
    <2>1. r = [cmd |-> "CleanInvalidResp", blk |-> "none"] /\ h.cmd = "CleanInvalidReq"
        BY SMTT(30), <1>1 DEF Response, isCacheInvalidate
    <2>2. QED
        BY SMTT(30), <2>1
<1>2. CASE ~isCacheInvalidate(h) /\ isCacheMaintenance(h)
    <2>1. r \in [cmd : {"CleanSharedResp"}, blk : {"none", "readable", "writable"}]
        BY SMTT(30), <1>2 DEF Response
    <2>2. QED
        BY SMTT(30), <1>2, <2>1 DEF isCacheInvalidate, isCacheMaintenance
<1>3. CASE ~isCacheInvalidate(h) /\ ~isCacheMaintenance(h)
    <2>1. \/ r = [cmd |-> "ReadResp", blk |-> "writable"]
          \/ r \in [cmd : {"ReadResp"}, blk : {"readable", "writable"}]
          \/ r = [cmd |-> "ReadRespWithInvalidate", blk |-> "readable"]
        BY <1>3 DEF Response
    <2>2. h.cmd # "CleanSharedReq"
        BY ZenonT(60), <1>3 DEF isCacheMaintenance
    <2>3. QED
        BY SMTT(30), <1>3, <2>1, <2>2
<1>4. QED
    BY ZenonT(60), <1>1, <1>2, <1>3

\* What a response r leaves of an MSHR m: m3 is m without the targets it serves.
ResponseLeaves(m, m2, m3, r) ==
    /\ MInv(afterService(m3))
    /\ extractServiceableTargets(m2, r.cmd) \in Seq(Kind)
    /\ extractServiceableTargets(m2, r.cmd) \o Order(afterService(m3)) = Order(m)
    /\ isDone(m3) => isReset(m3.deferred)

LEMMA ResponseProps ==
    ASSUME NEW m, MInv(m), m.targets.list # << >>, NEW r \in Response(m),
           NEW m1, m1 = afterPromoteReadable(m, r),
           NEW m2, m2 = afterPromoteWritable(m1, r),
           NEW m3, m3 = withoutServiceable(m2, r.cmd)
    PROVE  ResponseLeaves(m, m2, m3, r)
<1> USE DEF ResponseLeaves
<1> DEFINE out == extractServiceableTargets(m2, r.cmd)
<1>1. /\ m2 \in MSHRType /\ GoodList(m2.deferred) /\ m2.targets.list # << >>
      /\ Order(m2) = Order(m)
      /\ r.cmd = "ReadRespWithInvalidate" => m2 = m
    <2>1. r.cmd = "ReadRespWithInvalidate" => r.blk # "writable"
        BY SMTT(30), ResponseKinds
    <2>2. /\ m2 \in MSHRType /\ GoodList(m2.deferred) /\ m2.targets.list # << >>
          /\ Order(m2) = Order(m)
          /\ r.cmd = "ReadRespWithInvalidate" /\ r.blk # "writable" => m2 = m
        BY ZenonT(60), ResponsePromotes
    <2>3. QED
        BY ZenonT(60), <2>1, <2>2
<1>2. /\ m3 \in MSHRType /\ GoodList(m3.targets) /\ m3.deferred = m2.deferred
      /\ out \in Seq(Kind) /\ out \o Order(m3) = Order(m2)
      /\ m3.targets.list # << >> => r.cmd = "ReadRespWithInvalidate" /\ Len(m2.targets.list) # 1
      /\ \A i \in DOMAIN m3.targets.list :
            \E j \in DOMAIN m2.targets.list : m3.targets.list[i] = m2.targets.list[j]
    BY SMTT(30), <1>1, ServiceProps
<1> HIDE DEF out
<1>3. \A i \in DOMAIN m3.targets.list : isOrdinary(m3.targets.list[i])
    <2>1. CASE m3.targets.list = << >>
        BY SMTT(30), <2>1, EmptySeq
    <2>2. CASE m3.targets.list # << >>
        <3>1. m2 = m /\ Len(m.targets.list) # 1
            BY ZenonT(60), <1>1, <1>2, <2>2
        <3>2. \A j \in DOMAIN m.targets.list : isOrdinary(m.targets.list[j])
            BY ZenonT(60), <3>1 DEF MInv, Alone, isOrdinary
        <3>3. QED
            BY ZenonT(60), <1>2, <3>1, <3>2
    <2>3. QED
        BY SMTT(30), <2>1, <2>2
<1>4. CASE isDone(m3)
    <2>1. afterService(m3) = Free /\ Order(m3) = << >>
        <3>1. afterService(m3) = Free
            BY ZenonT(60), <1>4 DEF afterService
        <3>2. m3.targets.list = << >> /\ m3.deferred.list = << >>
            BY ZenonT(60), <1>4 DEF isDone
        <3>3. Order(m3) = << >>
            BY <3>2 DEF Order
        <3>4. QED
            BY ZenonT(60), <3>1, <3>3
    <2>2. isReset(m3.deferred)
        <3>1. m3.deferred.list = << >> /\ GoodList(m3.deferred)
            BY ZenonT(60), <1>1, <1>2, <1>4 DEF isDone
        <3>2. DOMAIN << >> = {}
            OBVIOUS
        <3>3. DOMAIN m3.deferred.list = {}
            BY ZenonT(60), <3>1, <3>2
        <3>4. QED
            BY ZenonT(60), <3>1, <3>3 DEF GoodList, Agrees, isReset, ListType
    <2>3. QED
        BY ZenonT(60), <1>1, <1>2, <2>1, <2>2, FreeProps DEF out
<1>5. CASE ~isDone(m3)
    <2> DEFINE p == promoteDeferredTargets(m3)
               a == [p EXCEPT !.inService = FALSE]
    <2>1. /\ p \in MSHRType /\ GoodList(p.targets) /\ GoodList(p.deferred)
          /\ Order(p) = Order(m3) /\ p.targets.list # << >>
          /\ Alone(p.targets.list) /\ HeadApart(p)
        BY ZenonT(60), <1>2, <1>3, <1>5, PromoteDeferredProps
    <2>2. afterService(m3) = a
        BY <1>5 DEF afterService
    <2> HIDE DEF p
    <2>3. a \in MSHRType /\ a.targets = p.targets /\ a.deferred = p.deferred /\ ~a.inService
        BY ZenonT(60), <2>1 DEF MSHRType
    <2> HIDE DEF a
    <2>4. MInv(a) /\ Order(a) = Order(m3)
        BY ZenonT(60), <2>1, <2>3 DEF MInv, HeadApart, Order
    <2>5. QED
        BY ZenonT(60), <1>1, <1>2, <1>5, <2>2, <2>4 DEF out
<1>6. QED
    BY ZenonT(60), <1>4, <1>5

\* The assert of promoteWritable fails only if a clean waits behind a write.
LEMMA AbortProps ==
    ASSUME NEW m, MInv(m), m.targets.list # << >>, m.inService, NEW r \in Response(m),
           NEW m1, m1 = afterPromoteReadable(m, r),
           r.blk = "writable", promoteWritableAborts(m1)
    PROVE  m.pendingModified /\ Head(m.deferred.list).cmd = "CleanSharedReq"
<1> DEFINE t == m.targets.list
           d == m.deferred.list
<1>1. m \in MSHRType /\ t \in Seq(Kind) /\ d \in Seq(Kind) /\ Agrees(m.targets)
    BY DEF MInv, MSHRType, ListType, GoodList
<1>2. Len(t) \in Nat \ {0} /\ DOMAIN t = 1 .. Len(t) /\ Head(t) = t[1]
    BY SMTT(30), <1>1, EmptySeq, LenProperties
<1>3. m1.targets.needsWritable /\ m1.targets.needsWritable = m.targets.needsWritable
    <2>1. m1.targets.needsWritable = m.targets.needsWritable
        BY ZenonT(60), ResponsePromotes
    <2>2. QED
        BY ZenonT(60), <2>1 DEF promoteWritableAborts
<1>4. m.pendingModified
    BY <1>3 DEF MInv
<1>5. ~isCacheMaintenance(t[1])
    <2>1. SUFFICES ASSUME isCacheMaintenance(t[1]) PROVE FALSE
        OBVIOUS
    <2>2. Len(t) = 1
        BY SMTT(30), <1>2, <2>1 DEF MInv, Alone
    <2>3. DOMAIN t = {1}
        BY SMTT(30), <1>2, <2>2
    <2>4. needsWritable(t[1])
        BY ZenonT(60), <1>1, <1>3, <2>3 DEF Agrees
    <2>5. QED
        BY SMTT(30), <2>1, <2>4 DEF needsWritable, isCacheMaintenance
<1>6. m1 = m
    BY ZenonT(60), <1>2, <1>5, ResponseKinds DEF afterPromoteReadable, isCacheMaintenance
<1>7. d # << >> /\ ~isCacheInvalidate(Head(d))
    BY ZenonT(60), <1>6 DEF promoteWritableAborts, promotesWritable
<1>8. Head(d) = d[1] /\ isCacheMaintenance(d[1])
    <2>1. Head(d) = d[1]
        BY SMTT(30), <1>1, <1>7
    <2>2. QED
        BY ZenonT(60), <1>4, <1>5, <1>7, <2>1 DEF MInv, HeadApart
<1>9. QED
    BY ZenonT(60), <1>4, <1>7, <1>8 DEF isCacheMaintenance, isCacheInvalidate

(***************************************************************************)
(* What a response serves                                                  *)
(***************************************************************************)

ServesAll(r, list) == \A i \in DOMAIN list : Serves(r, list[i])

\* A response can serve the targets of the request it answers.
LEMMA ServesTargets ==
    ASSUME NEW m, MInv(m), m.targets.list # << >>, m.inService, NEW r \in Response(m)
    PROVE  ServesAll(r, m.targets.list)
<1> DEFINE t == m.targets.list
           h == Head(t)
<1>1. t \in Seq(Kind) /\ Agrees(m.targets)
    BY DEF MInv, MSHRType, ListType, GoodList
<1>2. Len(t) \in Nat \ {0} /\ DOMAIN t = 1 .. Len(t) /\ h = t[1]
    BY SMTT(30), <1>1, EmptySeq, LenProperties
<1>3. CASE isCacheMaintenance(h)
    <2>1. Len(t) = 1
        BY SMTT(30), <1>2, <1>3 DEF MInv, Alone
    <2>2. DOMAIN t = {1}
        BY SMTT(30), <1>2, <2>1
    <2>3. Serves(r, h)
        <3>1. ~needsWritable(h)
            BY SMTT(30), <1>3 DEF needsWritable, isCacheMaintenance
        <3>2. isCacheInvalidate(h) => r.cmd = "CleanInvalidResp"
            BY SMTT(30) DEF Response
        <3>3. ~isCacheInvalidate(h) => r.cmd = "CleanSharedResp"
            BY SMTT(30), <1>3 DEF Response
        <3>4. QED
            BY SMTT(30), <1>3, <3>1, <3>2, <3>3 DEF Serves
    <2>4. QED
        BY ZenonT(60), <1>2, <2>2, <2>3 DEF ServesAll
<1>4. CASE ~isCacheMaintenance(h)
    <2>1. \A i \in DOMAIN t : ~isCacheMaintenance(t[i])
        <3>1. SUFFICES ASSUME NEW i \in DOMAIN t, isCacheMaintenance(t[i]) PROVE FALSE
            OBVIOUS
        <3>2. Len(t) = 1
            BY ZenonT(60), <3>1 DEF MInv, Alone
        <3>3. i = 1
            BY SMTT(30), <1>2, <3>2
        <3>4. QED
            BY ZenonT(60), <1>2, <1>4, <3>1, <3>3
    <2>2. \A i \in DOMAIN t : ~isCacheInvalidate(t[i])
        BY SMTT(30), <2>1 DEF isCacheMaintenance, isCacheInvalidate
    <2>3. r.blk # "none" /\ r.cmd # "CleanInvalidResp" /\ (m.pendingModified => r.blk = "writable")
        <3>1. ~isCacheInvalidate(h)
            BY SMTT(30), <1>4 DEF isCacheMaintenance, isCacheInvalidate
        <3>2. r \in IF m.pendingModified THEN {[cmd |-> "ReadResp", blk |-> "writable"]}
                    ELSE [cmd : {"ReadResp"}, blk : {"readable", "writable"}]
                           \cup {[cmd |-> "ReadRespWithInvalidate", blk |-> "readable"]}
            BY ZenonT(60), <1>4, <3>1 DEF Response
        <3>3. QED
            BY SMTT(30), <3>2
    <2>4. \A i \in DOMAIN t : needsWritable(t[i]) => m.pendingModified
        BY ZenonT(60), <1>1 DEF MInv, Agrees
    <2>5. QED
        BY ZenonT(60), <2>2, <2>3, <2>4 DEF ServesAll, Serves
<1>5. QED
    BY <1>3, <1>4

\* Targets a response can serve, with deferred ones it can serve moved up.
LEMMA ServesSpliced ==
    ASSUME NEW r, NEW m \in MSHRType, NEW n \in 0 .. Len(m.deferred.list),
           ServesAll(r, m.targets.list),
           \A i \in 1 .. n : Serves(r, m.deferred.list[i])
    PROVE  ServesAll(r, splice(m, n).targets.list)
<1> DEFINE t == m.targets.list
           a == SubSeq(m.deferred.list, 1, n)
<1>1. t \in Seq(Kind) /\ m.deferred.list \in Seq(Kind)
    BY DEF MSHRType, ListType
<1>2. a \in Seq(Kind) /\ Len(a) = n /\ \A i \in 1 .. n : a[i] = m.deferred.list[i]
    BY ZenonT(60), <1>1, Cut
<1>3. splice(m, n).targets.list = t \o a
    BY ZenonT(60), SpliceProps
<1>4. DOMAIN t = 1 .. Len(t) /\ Len(t) \in Nat /\ n \in Nat
    BY SMTT(30), <1>1, <1>2, LenProperties
<1> HIDE DEF a, t
<1>5. /\ DOMAIN (t \o a) = 1 .. Len(t) + n
      /\ \A i \in 1 .. Len(t) + n : (t \o a)[i] = IF i <= Len(t) THEN t[i] ELSE a[i - Len(t)]
    BY ZenonT(60), <1>1, <1>2, Concat DEF t
<1>6. ASSUME NEW i \in 1 .. Len(t) + n PROVE Serves(r, (t \o a)[i])
    <2>1. CASE i <= Len(t)
        <3>1. i \in DOMAIN t /\ (t \o a)[i] = t[i]
            BY SMTT(30), <1>4, <1>5, <2>1
        <3>2. QED
            BY ZenonT(60), <3>1 DEF ServesAll, t
    <2>2. CASE ~ (i <= Len(t))
        <3>1. i - Len(t) \in 1 .. n /\ (t \o a)[i] = a[i - Len(t)]
            BY SMTT(30), <1>4, <1>5, <2>2
        <3>2. QED
            BY ZenonT(60), <1>2, <3>1
    <2>3. QED
        BY <2>1, <2>2
<1>7. QED
    BY ZenonT(60), <1>3, <1>5, <1>6 DEF ServesAll

\* What recvTimingResp promotes before it serves, the response can serve.
LEMMA ServesPromoted ==
    ASSUME NEW m, MInv(m), m.targets.list # << >>, m.inService, NEW r \in Response(m),
           NEW m1, m1 = afterPromoteReadable(m, r),
           NEW m2, m2 = afterPromoteWritable(m1, r)
    PROVE  ServesAll(r, m2.targets.list)
<1>1. m \in MSHRType /\ ServesAll(r, m.targets.list)
    BY ZenonT(60), ServesTargets DEF MInv
<1>2. m1 \in MSHRType /\ ServesAll(r, m1.targets.list)
    <2>1. m1 \in MSHRType
        BY ZenonT(60), ResponsePromotes
    <2>2. CASE m1 = m
        BY ZenonT(60), <1>1, <2>2
    <2>3. CASE m1 # m
        <3> DEFINE n == prefix(m.deferred.list, isPromotableRead)
        <3>1. r.cmd = "CleanSharedResp" /\ r.blk # "none"
            BY ZenonT(60), <2>3 DEF afterPromoteReadable
        <3>2. m1 = [splice(m, n) EXCEPT !.deferred = populateFlags(splice(m, n).deferred)]
            BY ZenonT(60), <2>3 DEF afterPromoteReadable, promoteReadable, promoteIf
        <3>3. n \in 0 .. Len(m.deferred.list) /\ \A i \in 1 .. n : isPromotableRead(m.deferred.list[i])
            <4>1. m.deferred.list \in Seq(Kind)
                BY <1>1 DEF MSHRType, ListType
            <4>2. QED
                BY ZenonT(60), <4>1, PrefixPromotableRead
        <3> HIDE DEF n
        <3>4. splice(m, n) \in MSHRType
            BY ZenonT(60), <1>1, <3>3, SpliceProps
        <3>5. m1.targets = splice(m, n).targets
            BY ZenonT(60), <3>2, <3>4 DEF MSHRType
        <3>6. r.cmd # "CleanInvalidResp"
            BY SMTT(30), <3>1
        <3>7. \A i \in 1 .. n : Serves(r, m.deferred.list[i])
            BY ZenonT(60), <3>1, <3>3, <3>6 DEF Serves, isPromotableRead
        <3>8. QED
            BY ZenonT(60), <1>1, <2>1, <3>3, <3>5, <3>7, ServesSpliced
    <2>4. QED
        BY <2>2, <2>3
<1>3. CASE m2 = m1
    BY ZenonT(60), <1>2, <1>3
<1>4. CASE m2 # m1
    <2> DEFINE w == [m1 EXCEPT !.targets.needsWritable = TRUE]
               n == prefix(w.deferred.list, isPromotable)
    <2>1. r.blk = "writable"
        BY ZenonT(60), <1>4 DEF afterPromoteWritable
    <2>2. m2 = [splice(w, n) EXCEPT !.deferred = populateFlags(splice(w, n).deferred)]
        BY ZenonT(60), <1>4 DEF afterPromoteWritable, promoteWritable, promoteIf
    <2>3. w \in MSHRType /\ w.targets.list = m1.targets.list
        BY ZenonT(60), <1>2 DEF MSHRType, ListType
    <2> HIDE DEF w
    <2>4. n \in 0 .. Len(w.deferred.list) /\ \A i \in 1 .. n : isPromotable(w.deferred.list[i])
        <3>1. w.deferred.list \in Seq(Kind)
            BY <2>3 DEF MSHRType, ListType
        <3>2. QED
            BY ZenonT(60), <3>1, PrefixPromotable
    <2> HIDE DEF n
    <2>5. splice(w, n) \in MSHRType
        BY ZenonT(60), <2>3, <2>4, SpliceProps
    <2>6. m2.targets = splice(w, n).targets
        BY ZenonT(60), <2>2, <2>5 DEF MSHRType
    <2>7. r.blk # "none" /\ r.cmd # "CleanInvalidResp"
        BY SMTT(30), <2>1 DEF Response
    <2>8. \A i \in 1 .. n : Serves(r, w.deferred.list[i])
        BY ZenonT(60), <2>1, <2>4, <2>7 DEF Serves, isPromotable
    <2>9. QED
        BY ZenonT(60), <1>2, <2>3, <2>4, <2>6, <2>8, ServesSpliced
<1>5. QED
    BY <1>3, <1>4

\* The targets extracted are among the targets.
LEMMA ServesExtracted ==
    ASSUME NEW r, NEW m \in MSHRType, m.targets.list # << >>, ServesAll(r, m.targets.list)
    PROVE  LET out == extractServiceableTargets(m, r.cmd)
           IN  out \in Seq(Kind) /\ ServesAll(r, out)
<1> DEFINE t == m.targets.list
           n == serviceable(m, r.cmd)
           out == SubSeq(t, 1, n)
<1>1. t \in Seq(Kind)
    BY DEF MSHRType, ListType
<1>2. Len(t) \in Nat \ {0} /\ DOMAIN t = 1 .. Len(t)
    BY SMTT(30), <1>1, EmptySeq, LenProperties
<1>3. n \in 0 .. Len(t)
    BY <1>2 DEF serviceable
<1>4. extractServiceableTargets(m, r.cmd) = out
    BY ZenonT(60) DEF extractServiceableTargets
<1> HIDE DEF n, t
<1>5. out \in Seq(Kind) /\ Len(out) = n /\ \A i \in 1 .. n : out[i] = t[i]
    BY ZenonT(60), <1>1, <1>3, Cut
<1> HIDE DEF out
<1>6. DOMAIN out = 1 .. n /\ \A i \in 1 .. n : i \in DOMAIN t
    BY SMTT(30), <1>2, <1>3, <1>5, LenProperties
<1>7. ServesAll(r, out)
    BY ZenonT(60), <1>5, <1>6 DEF ServesAll, t
<1>8. QED
    BY ZenonT(60), <1>4, <1>5, <1>7

(***************************************************************************)
(* The write allocator                                                     *)
(***************************************************************************)

WAType ==
    [mode : Mode, byteCount : Nat, nextAddr : Nat, delayCtr : [Blk -> 0 .. delayThreshold]]

\* The bytes counted belong to the stream seen last, which the next write may
\* continue at nextAddr.
StreamInv(w, s) ==
    /\ w.nextAddr = s.end \/ (w.byteCount = 0 /\ w.mode = "ALLOCATE")
    /\ w.byteCount <= s.size
    /\ w.mode # "ALLOCATE" => w.byteCount > coalesceLimit
    /\ w.mode = "NO_ALLOCATE" => w.byteCount > noAllocateLimit

\* A write has an address and a number of bytes.
LEMMA WriteNat ==
    ASSUME NEW p \in Kind, isWrite(p)
    PROVE  getAddr(p) \in Nat /\ Cardinality(p.bytes) \in Nat
<1>1. p.bytes \subseteq Byte /\ p.bytes # {} /\ p.blk \in Nat /\ blkSize \in Nat
    BY ZenonT(60), KindProps, KindAssumption, SizeAssumption
<1>2. Byte \subseteq Nat /\ IsFiniteSet(Byte)
    BY <1>1, FS_Interval DEF Byte
<1>3. Min(p.bytes) \in Nat
    BY ZenonT(60), <1>1, <1>2, MinNat
<1>4. p.blk * blkSize \in Nat
    BY <1>1
<1>5. IsFiniteSet(p.bytes)
    BY <1>1, <1>2, FS_Subset
<1>6. Cardinality(p.bytes) \in Nat
    BY ZenonT(60), <1>5, FS_CardinalityType
<1>7. QED
    BY SMTT(30), <1>3, <1>4, <1>6 DEF getAddr

LEMMA UpdateModeProps ==
    ASSUME NEW w \in WAType, NEW s \in [end : Nat, size : Nat], StreamInv(w, s),
           NEW addr \in Nat, NEW n \in Nat, NEW b \in Blk,
           NEW z, z = [end |-> addr + n, size |-> n + IF s.end = addr THEN s.size ELSE 0]
    PROVE  /\ updateMode(w, addr, n, b) \in WAType
           /\ z \in [end : Nat, size : Nat]
           /\ StreamInv(updateMode(w, addr, n, b), z)
<1> DEFINE u == updateMode(w, addr, n, b)
<1>1. /\ w.mode \in Mode /\ w.byteCount \in Nat /\ w.nextAddr \in Nat
      /\ w.delayCtr \in [Blk -> 0 .. delayThreshold] /\ s.end \in Nat /\ s.size \in Nat
      /\ delayThreshold \in Nat /\ coalesceLimit \in Nat /\ noAllocateLimit \in Nat
    BY SMTT(30), SizeAssumption DEF WAType
<1>2. z \in [end : Nat, size : Nat] /\ z.end = addr + n
      /\ z.size = IF s.end = addr THEN n + s.size ELSE n
    BY SMTT(30), <1>1
<1>3. CASE w.nextAddr = addr
    <2> DEFINE c == IF w.mode = "NO_ALLOCATE" THEN w.byteCount ELSE w.byteCount + n
               k == nextMode(w.mode, c)
    <2>1. u = [mode |-> k, byteCount |-> c, nextAddr |-> addr + n,
               delayCtr |-> [w.delayCtr EXCEPT ![b] = delayThreshold]]
        BY ZenonT(60), <1>3 DEF updateMode
    <2>2. c \in Nat /\ c <= z.size /\ w.byteCount <= c
        BY SMTT(30), <1>1, <1>2, <1>3 DEF StreamInv
    <2>3. k \in Mode /\ (k # "ALLOCATE" => c > coalesceLimit)
          /\ (k = "NO_ALLOCATE" => c > noAllocateLimit)
        BY SMTT(30), <1>1, <2>2 DEF StreamInv, nextMode, Mode
    <2> HIDE DEF c, k, u
    <2>4. u \in WAType /\ u.byteCount = c /\ u.mode = k /\ u.nextAddr = addr + n
        <3> DEFINE g == [w.delayCtr EXCEPT ![b] = delayThreshold]
        <3>1. g \in [Blk -> 0 .. delayThreshold] /\ addr + n \in Nat
            BY <1>1
        <3>2. u = [mode |-> k, byteCount |-> c, nextAddr |-> addr + n, delayCtr |-> g]
            BY ZenonT(60), <2>1
        <3> HIDE DEF g
        <3>3. QED
            BY <2>2, <2>3, <3>1, <3>2 DEF WAType
    <2>5. QED
        BY ZenonT(60), <1>2, <2>2, <2>3, <2>4 DEF StreamInv, u
<1>4. CASE w.nextAddr # addr
    <2>1. u = [mode |-> "ALLOCATE", byteCount |-> n, nextAddr |-> addr + n,
               delayCtr |-> [w.delayCtr EXCEPT ![b] = 0]]
        BY ZenonT(60), <1>4 DEF updateMode
    <2> HIDE DEF u
    <2>2. u \in WAType /\ u.byteCount = n /\ u.mode = "ALLOCATE" /\ u.nextAddr = addr + n
        BY SMTT(30), <1>1, <2>1 DEF WAType, Mode
    <2>3. u.byteCount <= z.size
        BY <1>1, <1>2, <2>2
    <2>4. "ALLOCATE" # "NO_ALLOCATE"
        OBVIOUS
    <2>5. QED
        BY ZenonT(60), <1>2, <2>2, <2>3, <2>4 DEF StreamInv, u
<1>5. QED
    BY ZenonT(60), <1>3, <1>4

(***************************************************************************)
(* The invariant of the miss path                                          *)
(***************************************************************************)

IInv ==
    /\ TypeOK /\ \A b \in Blk : MInv(mshr[b])
    /\ ServicedInOrder /\ AbortNeedsClean
    /\ StreamInv(wa, stream)

LEMMA InitIInv == Init => IInv
<1> SUFFICES ASSUME Init PROVE IInv
    OBVIOUS
<1>1. wa \in WAType /\ StreamInv(wa, stream) /\ stream \in [end : Nat, size : Nat]
    BY SMTT(30), SizeAssumption DEF Init, NewWriteAllocator, WAType, StreamInv, Mode
<1>2. \A b \in Blk : mshr[b] = Free /\ serviced[b] = << >> /\ arrived[b] = << >>
    BY DEF Init
<1>3. \A b \in Blk : MInv(mshr[b])
    BY SMTT(30), <1>2, FreeProps
<1>4. TypeOK
    <2>1. mshr \in [Blk -> MSHRType]
        BY SMTT(30), FreeProps DEF Init, MInv
    <2>2. /\ arrived \in [Blk -> Seq(Kind)] /\ serviced \in [Blk -> Seq(Kind)]
        BY DEF Init
    <2>3. abort \in BOOLEAN
        BY ZenonT(60) DEF Init
    <2>4. QED
        BY ZenonT(60), <1>1, <2>1, <2>2, <2>3 DEF TypeOK, WAType
<1>5. ServicedInOrder
    <2>1. \A b \in Blk : Waiting(b) = << >>
        BY SMTT(30), <1>2, FreeProps DEF Waiting, Order
    <2>2. << >> \o << >> = << >>
        OBVIOUS
    <2>3. QED
        BY ZenonT(60), <1>2, <2>1, <2>2 DEF ServicedInOrder
<1>6. AbortNeedsClean
    BY SMTT(30) DEF Init, AbortNeedsClean
<1>7. QED
    BY ZenonT(60), <1>1, <1>3, <1>4, <1>5, <1>6 DEF IInv

LEMMA MissStep ==
    ASSUME IInv, NEW p \in Kind, handleTimingReqMiss(p)
    PROVE  IInv'
<1> DEFINE b == p.blk
           m == IF InUse(b) THEN allocateTarget(mshr[b], p) ELSE allocate(p)
<1>1. b \in Blk /\ TypeOK /\ MInv(mshr[b]) /\ \A c \in Blk : MInv(mshr[c])
    BY SMTT(30), KindProps DEF IInv
<1>2. /\ ~abort /\ abort' = abort /\ serviced' = serviced
      /\ mshr' = [mshr EXCEPT ![b] = m] /\ arrived' = [arrived EXCEPT ![b] = Append(arrived[b], p)]
    BY ZenonT(60) DEF handleTimingReqMiss
<1>3. MInv(m) /\ Order(m) = Append(Order(mshr[b]), p)
    <2>1. CASE InUse(b)
        BY SMTT(30), <1>1, <2>1, AllocateTargetProps DEF InUse
    <2>2. CASE ~InUse(b)
        <3>1. mshr[b].targets.list = << >> /\ mshr[b].deferred.list = << >>
            BY SMTT(30), <1>1, <2>2 DEF InUse, MInv
        <3>2. Order(mshr[b]) = << >>
            BY <3>1 DEF Order
        <3>3. Append(<< >>, p) = << p >>
            OBVIOUS
        <3>4. QED
            BY ZenonT(60), <2>2, <3>2, <3>3, AllocateProps
    <2>3. QED
        BY ZenonT(60), <2>1, <2>2
<1> HIDE DEF m, b
<1>4. /\ mshr'[b] = m /\ arrived'[b] = Append(arrived[b], p)
      /\ \A c \in Blk \ {b} : mshr'[c] = mshr[c] /\ arrived'[c] = arrived[c]
    BY SMTT(30), <1>1, <1>2 DEF TypeOK
<1>5. \A c \in Blk : MInv(mshr'[c])
    BY ZenonT(60), <1>1, <1>3, <1>4
<1>6. wa' \in WAType /\ stream' \in [end : Nat, size : Nat] /\ StreamInv(wa', stream')
    <2>1. wa \in WAType /\ stream \in [end : Nat, size : Nat] /\ StreamInv(wa, stream)
        BY ZenonT(60) DEF IInv, TypeOK, WAType
    <2>2. CASE isWrite(p)
        <3> DEFINE n == Cardinality(p.bytes)
                   a == getAddr(p)
        <3>1. /\ wa' = updateMode(wa, a, n, b)
              /\ stream' = [end |-> a + n, size |-> n + IF stream.end = a THEN stream.size ELSE 0]
            BY <2>2 DEF handleTimingReqMiss, observeWrite, b
        <3>2. a \in Nat /\ n \in Nat
            BY SMTT(30), <2>2, WriteNat
        <3> HIDE DEF n, a
        <3>3. QED
            BY SMTT(30), <1>1, <2>1, <3>1, <3>2, UpdateModeProps
    <2>3. CASE ~isWrite(p)
        <3>1. wa' = wa /\ stream' = stream
            BY SMTT(30), <2>3 DEF handleTimingReqMiss, observeWrite
        <3>2. QED
            BY SMTT(30), <2>1, <3>1
    <2>4. QED
        BY SMTT(30), <2>2, <2>3
<1>7. TypeOK'
    <2>1. Append(arrived[b], p) \in Seq(Kind) /\ m \in MSHRType
        BY ZenonT(60), <1>1, <1>3, AppendProperties DEF TypeOK, MInv
    <2>2. /\ mshr' \in [Blk -> MSHRType] /\ arrived' \in [Blk -> Seq(Kind)]
          /\ serviced' \in [Blk -> Seq(Kind)]
        BY ZenonT(60), <1>1, <1>2, <2>1 DEF TypeOK
    <2>3. abort' \in BOOLEAN
        BY SMTT(30), <1>1, <1>2 DEF TypeOK
    <2>4. QED
        BY ZenonT(60), <1>6, <2>2, <2>3 DEF TypeOK, WAType
<1>8. ServicedInOrder'
    <2>1. SUFFICES ASSUME NEW c \in Blk PROVE serviced'[c] \o Order(mshr'[c]) = arrived'[c]
        BY ZenonT(60) DEF ServicedInOrder, Waiting, Order
    <2>2. serviced[c] \o Order(mshr[c]) = arrived[c]
        BY ZenonT(60) DEF IInv, ServicedInOrder, Waiting, Order
    <2>3. CASE c # b
        BY ZenonT(60), <1>2, <1>4, <2>2, <2>3
    <2>4. CASE c = b
        <3>1. serviced[b] \in Seq(Kind) /\ Order(mshr[b]) \in Seq(Kind)
            BY ZenonT(60), <1>1, Concat DEF TypeOK, MSHRType, ListType, Order
        <3>2. serviced[b] \o Append(Order(mshr[b]), p) = Append(serviced[b] \o Order(mshr[b]), p)
            BY ZenonT(60), <3>1, OrderAppend
        <3>3. QED
            BY ZenonT(60), <1>2, <1>3, <1>4, <2>2, <2>4, <3>2
    <2>5. QED
        BY ZenonT(60), <2>3, <2>4
<1>9. AbortNeedsClean'
    BY SMTT(30), <1>2 DEF AbortNeedsClean
<1>10. QED
    BY ZenonT(60), <1>5, <1>6, <1>7, <1>8, <1>9 DEF IInv

LEMMA SendStep ==
    ASSUME IInv, NEW b \in Blk, NEW pmr \in BOOLEAN, sendMSHRQueuePacket(b, pmr)
    PROVE  IInv'
<1>1. /\ TypeOK /\ \A c \in Blk : MInv(mshr[c])
      /\ wa \in WAType /\ StreamInv(wa, stream)
    BY SMTT(30) DEF IInv, TypeOK, WAType
<1>2. /\ ~abort /\ abort' = abort /\ arrived' = arrived /\ serviced' = serviced /\ stream' = stream
      /\ ~mshr[b].inService
    BY DEF sendMSHRQueuePacket
<1>3. AbortNeedsClean'
    BY SMTT(30), <1>2 DEF AbortNeedsClean
<1>4. CASE partialWrite(b) /\ wa.delayCtr[b] > 0
    <2>1. wa' = [wa EXCEPT !.delayCtr[b] = wa.delayCtr[b] - 1] /\ mshr' = mshr
        BY SMTT(30), <1>4 DEF sendMSHRQueuePacket, delay
    <2>2. wa.delayCtr \in [Blk -> 0 .. delayThreshold] /\ delayThreshold \in Nat
        BY SMTT(30), <1>1, SizeAssumption DEF WAType, TypeOK
    <2>3. wa.delayCtr[b] - 1 \in 0 .. delayThreshold
        BY SMTT(30), <1>4, <2>2
    <2>4. /\ wa' \in WAType /\ wa'.byteCount = wa.byteCount /\ wa'.mode = wa.mode
          /\ wa'.nextAddr = wa.nextAddr
        BY SMTT(30), <1>1, <2>1, <2>3 DEF WAType
    <2>5. TypeOK'
        BY ZenonT(60), <1>1, <1>2, <2>1, <2>4 DEF TypeOK, WAType
    <2>6. StreamInv(wa', stream')
        BY SMTT(30), <1>1, <1>2, <2>4 DEF StreamInv
    <2>7. ServicedInOrder'
        BY ZenonT(60), <1>2, <2>1 DEF IInv, ServicedInOrder, Waiting
    <2>8. QED
        BY ZenonT(60), <1>1, <1>3, <2>1, <2>5, <2>6, <2>7 DEF IInv
<1>5. CASE ~ (partialWrite(b) /\ wa.delayCtr[b] > 0)
    <2> DEFINE m == markInService(mshr[b], pmr)
    <2>1. /\ \/ wa' = reset(wa) \/ wa' = resetDelay(wa, b) \/ wa' = wa
          /\ mshr' = [mshr EXCEPT ![b] = m]
        BY SMTT(30), <1>5 DEF sendMSHRQueuePacket
    <2>2. MInv(m) /\ Order(m) = Order(mshr[b])
        BY ZenonT(60), <1>1, <1>2, MarkInServiceProps
    <2> HIDE DEF m
    <2>3. mshr'[b] = m /\ \A c \in Blk \ {b} : mshr'[c] = mshr[c]
        BY ZenonT(60), <1>1, <2>1 DEF TypeOK
    <2>4. wa' \in WAType /\ StreamInv(wa', stream')
        <3>0. /\ wa.delayCtr \in [Blk -> 0 .. delayThreshold] /\ delayThreshold \in Nat
              /\ stream \in [end : Nat, size : Nat]
            BY SMTT(30), <1>1, SizeAssumption DEF WAType, TypeOK
        <3>1. CASE wa' = reset(wa)
            <4>1. /\ wa' \in WAType /\ wa'.mode = "ALLOCATE" /\ wa'.byteCount = 0
                BY ZenonT(60), <1>1, <3>1 DEF reset, WAType, Mode
            <4>2. QED
                BY SMTT(30), <1>2, <3>0, <4>1 DEF StreamInv
        <3>2. CASE wa' = resetDelay(wa, b)
            <4>1. /\ wa' \in WAType /\ wa'.mode = wa.mode /\ wa'.byteCount = wa.byteCount
                  /\ wa'.nextAddr = wa.nextAddr
                BY SMTT(30), <1>1, <3>0, <3>2 DEF resetDelay, WAType
            <4>2. QED
                BY <1>1, <1>2, <3>0, <4>1 DEF StreamInv
        <3>3. CASE wa' = wa
            BY ZenonT(60), <1>1, <1>2, <3>0, <3>3 DEF StreamInv
        <3>4. QED
            BY ZenonT(60), <2>1, <3>1, <3>2, <3>3
    <2>5. TypeOK'
        <3>1. mshr' \in [Blk -> MSHRType]
            BY ZenonT(60), <1>1, <2>1, <2>2 DEF TypeOK, MInv
        <3>2. QED
            BY ZenonT(60), <1>1, <1>2, <2>1, <2>4, <3>1 DEF TypeOK, WAType
    <2>6. \A c \in Blk : MInv(mshr'[c]) /\ Order(mshr'[c]) = Order(mshr[c])
        BY SMTT(30), <1>1, <2>2, <2>3
    <2>7. ServicedInOrder'
        BY ZenonT(60), <1>2, <2>6 DEF IInv, ServicedInOrder, Waiting, Order
    <2>8. QED
        BY ZenonT(60), <1>3, <2>4, <2>5, <2>6, <2>7 DEF IInv
<1>6. QED
    BY SMTT(30), <1>4, <1>5

LEMMA ResponseStep ==
    ASSUME IInv, NEW b \in Blk, NEW r \in Response(mshr[b]), recvTimingResp(b, r)
    PROVE  IInv'
<1> DEFINE m == mshr[b]
           m1 == afterPromoteReadable(m, r)
           m2 == afterPromoteWritable(m1, r)
           m3 == withoutServiceable(m2, r.cmd)
           out == extractServiceableTargets(m2, r.cmd)
           fails == \/ r.blk = "writable" /\ promoteWritableAborts(m1)
                    \/ isDone(m3) /\ ~isReset(m3.deferred)
<1>1. TypeOK /\ MInv(m) /\ \A c \in Blk : MInv(mshr[c])
    BY ZenonT(60) DEF IInv
<1>2. /\ m.targets.list # << >> /\ m.inService
      /\ wa' = wa /\ arrived' = arrived /\ stream' = stream
    BY SMTT(30) DEF recvTimingResp, InUse
<1>3. fails => abort' = TRUE /\ mshr' = mshr /\ serviced' = serviced
    BY ZenonT(60) DEF recvTimingResp
<1>4. ~fails => /\ serviced' = [serviced EXCEPT ![b] = serviced[b] \o out]
                /\ mshr' = [mshr EXCEPT ![b] = afterService(m3)]
                /\ abort' = abort
    BY ZenonT(60) DEF recvTimingResp
<1>5. ~abort
    BY ZenonT(60) DEF recvTimingResp
<1>6. /\ MInv(afterService(m3)) /\ out \in Seq(Kind)
      /\ out \o Order(afterService(m3)) = Order(m)
      /\ isDone(m3) => isReset(m3.deferred)
    <2>1. /\ m1 = afterPromoteReadable(m, r) /\ m2 = afterPromoteWritable(m1, r)
          /\ m3 = withoutServiceable(m2, r.cmd)
          /\ out = extractServiceableTargets(m2, r.cmd) /\ r \in Response(m)
        BY ZenonT(60)
    <2> HIDE DEF m, m1, m2, m3, out
    <2>2. MInv(m) /\ m.targets.list # << >>
        BY ZenonT(60), <1>1, <1>2
    <2>3. ResponseLeaves(m, m2, m3, r)
        BY ZenonT(60), <2>1, <2>2, ResponseProps
    <2>4. QED
        BY ZenonT(60), <2>1, <2>3 DEF ResponseLeaves
<1>7. CASE fails
    <2>1. r.blk = "writable" /\ promoteWritableAborts(m1)
        BY SMTT(30), <1>6, <1>7
    <2>2. m.pendingModified /\ Head(m.deferred.list).cmd = "CleanSharedReq"
        BY ZenonT(60), <1>1, <1>2, <2>1, AbortProps
    <2>3. /\ abort' = TRUE /\ mshr' = mshr /\ serviced' = serviced
        BY ZenonT(60), <1>3, <1>7
    <2> HIDE DEF fails, out, m1, m2, m3
    <2>4. AbortNeedsClean'
        BY ZenonT(60), <1>2, <2>2, <2>3 DEF AbortNeedsClean, InUse
    <2>5. TypeOK'
        <3>1. abort' \in BOOLEAN
            BY ZenonT(60), <2>3
        <3>2. QED
            BY ZenonT(60), <1>1, <1>2, <2>3, <3>1 DEF TypeOK
    <2>6. ServicedInOrder' /\ StreamInv(wa', stream')
        BY ZenonT(60), <1>2, <2>3 DEF IInv, ServicedInOrder, Waiting
    <2>7. QED
        BY SMTT(30), <1>1, <2>3, <2>4, <2>5, <2>6 DEF IInv
<1>8. CASE ~fails
    <2>1. /\ serviced' = [serviced EXCEPT ![b] = serviced[b] \o out]
          /\ mshr' = [mshr EXCEPT ![b] = afterService(m3)] /\ abort' = abort
        BY ZenonT(60), <1>4, <1>8
    <2> HIDE DEF fails, out, m1, m2, m3
    <2>2. /\ serviced[b] \in Seq(Kind) /\ serviced[b] \o out \in Seq(Kind)
          /\ Order(afterService(m3)) \in Seq(Kind)
        BY ZenonT(60), <1>1, <1>6, Concat DEF TypeOK, MInv, MSHRType, ListType, Order
    <2>3. TypeOK'
        <3>1. mshr' \in [Blk -> MSHRType] /\ serviced' \in [Blk -> Seq(Kind)]
            BY ZenonT(60), <1>1, <1>6, <2>1, <2>2 DEF TypeOK, MInv
        <3>2. QED
            BY ZenonT(60), <1>1, <1>2, <2>1, <3>1 DEF TypeOK
    <2>4. /\ mshr'[b] = afterService(m3) /\ serviced'[b] = serviced[b] \o out
          /\ \A c \in Blk \ {b} : mshr'[c] = mshr[c] /\ serviced'[c] = serviced[c]
        BY SMTT(30), <1>1, <2>1 DEF TypeOK
    <2>5. \A c \in Blk : MInv(mshr'[c])
        BY ZenonT(60), <1>1, <1>6, <2>4
    <2>6. ServicedInOrder'
        <3>1. SUFFICES ASSUME NEW c \in Blk PROVE serviced'[c] \o Order(mshr'[c]) = arrived'[c]
            BY ZenonT(60) DEF ServicedInOrder, Waiting, Order
        <3>2. serviced[c] \o Order(mshr[c]) = arrived[c]
            BY ZenonT(60) DEF IInv, ServicedInOrder, Waiting, Order
        <3>3. CASE c # b
            BY ZenonT(60), <1>2, <2>4, <3>2, <3>3
        <3>4. CASE c = b
            <4>1. (serviced[b] \o out) \o Order(afterService(m3))
                    = serviced[b] \o (out \o Order(afterService(m3)))
                BY ZenonT(60), <1>6, <2>2, Assoc
            <4>2. QED
                BY ZenonT(60), <1>2, <1>6, <2>4, <3>2, <3>4, <4>1
        <3>5. QED
            BY ZenonT(60), <3>3, <3>4
    <2>7. StreamInv(wa', stream')
        BY ZenonT(60), <1>2 DEF IInv
    <2>8. AbortNeedsClean'
        BY SMTT(30), <1>5, <2>1 DEF AbortNeedsClean
    <2>9. QED
        BY ZenonT(60), <2>3, <2>5, <2>6, <2>7, <2>8 DEF IInv
<1>9. QED
    BY SMTT(30), <1>7, <1>8

\* What a response that fails no assert adds to the packets served.
LEMMA ServesStep ==
    ASSUME IInv, NEW b \in Blk, InUse(b), NEW r \in Response(mshr[b]), recvTimingResp(b, r), ~abort'
    PROVE  \A i \in Len(serviced[b]) + 1 .. Len(serviced'[b]) : Serves(r, serviced'[b][i])
<1> DEFINE m == mshr[b]
           m1 == afterPromoteReadable(m, r)
           m2 == afterPromoteWritable(m1, r)
           out == extractServiceableTargets(m2, r.cmd)
<1>1. TypeOK /\ MInv(m)
    BY ZenonT(60) DEF IInv
<1>2. m.targets.list # << >> /\ m.inService
    BY ZenonT(60) DEF recvTimingResp, InUse
<1>3. serviced' = [serviced EXCEPT ![b] = serviced[b] \o out]
    BY ZenonT(60) DEF recvTimingResp
<1>4. m1 = afterPromoteReadable(m, r) /\ m2 = afterPromoteWritable(m1, r)
    BY ZenonT(60)
<1>5. out = extractServiceableTargets(m2, r.cmd)
    BY ZenonT(60)
<1> HIDE DEF m1, m2, out
<1>6. m2 \in MSHRType /\ m2.targets.list # << >>
    BY ZenonT(60), <1>1, <1>2, <1>4, ResponsePromotes
<1>7. ServesAll(r, m2.targets.list)
    BY ZenonT(60), <1>1, <1>2, <1>4, ServesPromoted
<1>8. out \in Seq(Kind) /\ ServesAll(r, out)
    BY ZenonT(60), <1>5, <1>6, <1>7, ServesExtracted
<1>9. serviced[b] \in Seq(Kind) /\ serviced'[b] = serviced[b] \o out
    BY ZenonT(60), <1>1, <1>3 DEF TypeOK
<1> DEFINE k == Len(serviced[b])
<1>10. /\ k \in Nat /\ Len(out) \in Nat /\ Len(serviced'[b]) = k + Len(out)
       /\ \A i \in 1 .. k + Len(out) :
             serviced'[b][i] = IF i <= k THEN serviced[b][i] ELSE out[i - k]
    <2> DEFINE s == serviced[b]
    <2>1. s \in Seq(Kind) /\ out \in Seq(Kind) /\ serviced'[b] = s \o out
        BY ZenonT(60), <1>8, <1>9
    <2> HIDE DEF s
    <2>2. /\ Len(s) \in Nat /\ Len(out) \in Nat /\ Len(s \o out) = Len(s) + Len(out)
          /\ \A i \in 1 .. Len(s) + Len(out) :
                (s \o out)[i] = IF i <= Len(s) THEN s[i] ELSE out[i - Len(s)]
        BY ZenonT(60), <2>1, Concat
    <2>3. QED
        BY ZenonT(60), <2>1, <2>2 DEF s
<1>11. DOMAIN out = 1 .. Len(out)
    BY SMTT(30), <1>8, LenProperties
<1> HIDE DEF k
<1>12. ASSUME NEW i \in k + 1 .. Len(serviced'[b]) PROVE Serves(r, serviced'[b][i])
    <2>1. i - k \in 1 .. Len(out) /\ i \in 1 .. k + Len(out) /\ ~ (i <= k)
        BY SMTT(30), <1>10
    <2>2. serviced'[b][i] = out[i - k] /\ i - k \in DOMAIN out
        BY ZenonT(60), <1>10, <1>11, <2>1
    <2>3. QED
        BY ZenonT(60), <1>8, <2>2 DEF ServesAll
<1>13. QED
    BY ZenonT(60), <1>12 DEF k

\* A step that changes nothing.
LEMMA StutterStep ==
    ASSUME IInv, UNCHANGED vars
    PROVE  IInv'
<1>1. /\ mshr' = mshr /\ wa' = wa /\ arrived' = arrived /\ serviced' = serviced
      /\ abort' = abort /\ stream' = stream
    BY DEF vars
<1>2. TypeOK' /\ StreamInv(wa', stream')
    BY SMTT(30), <1>1 DEF IInv, TypeOK
<1>3. ServicedInOrder' /\ AbortNeedsClean'
    BY ZenonT(60), <1>1 DEF IInv, ServicedInOrder, Waiting, AbortNeedsClean, InUse
<1>4. QED
    BY ZenonT(60), <1>1, <1>2, <1>3 DEF IInv

LEMMA InvariantHolds == Spec => []IInv
<1>1. IInv /\ [Next]_vars => IInv'
    <2>1. SUFFICES ASSUME IInv, [Next]_vars PROVE IInv'
        OBVIOUS
    <2>2. CASE \E p \in Kind : Requests < maxRequests /\ handleTimingReqMiss(p)
        BY ZenonT(60), <2>1, <2>2, MissStep
    <2>3. CASE \E b \in Blk, pmr \in BOOLEAN : sendMSHRQueuePacket(b, pmr)
        BY ZenonT(60), <2>1, <2>3, SendStep
    <2>4. CASE \E b \in Blk : InUse(b) /\ \E r \in Response(mshr[b]) : recvTimingResp(b, r)
        BY ZenonT(60), <2>1, <2>4, ResponseStep
    <2>5. CASE UNCHANGED vars
        BY SMTT(30), <2>1, <2>5, StutterStep
    <2>6. QED
        BY ZenonT(60), <2>1, <2>2, <2>3, <2>4, <2>5 DEF Next
<1>2. QED
    BY <1>1, InitIInv, PTL DEF Spec

(***************************************************************************)
(* Theorems                                                                *)
(***************************************************************************)

\* Deferral, promotion and partial service keep the packets of a block in the
\* order in which they arrived, for any number of packets and blocks.
THEOREM TargetsServicedInOrder == Spec => []ServicedInOrder
<1>1. IInv => ServicedInOrder
    BY ZenonT(60) DEF IInv
<1>2. QED
    BY <1>1, InvariantHolds, PTL

\* The flags of TargetList agree with its packets whenever a handler starts.
THEOREM FlagsAlwaysAgree == Spec => []FlagsAgree
<1>1. IInv => FlagsAgree
    BY SMTT(30) DEF IInv, FlagsAgree, MInv, GoodList
<1>2. QED
    BY <1>1, InvariantHolds, PTL

\* A request in service asked for a writable block if a target needs one.
THEOREM WritableAlwaysPending == Spec => []WritablePending
<1>1. IInv => WritablePending
    BY ZenonT(60) DEF IInv, WritablePending, MInv, GoodList, Agrees
<1>2. QED
    BY <1>1, InvariantHolds, PTL

\* A whole-line write in service covers the line before any read.
THEOREM WholeLineAlwaysCovered == Spec => []WholeLineCovered
<1>1. IInv => WholeLineCovered
    BY ZenonT(60) DEF IInv, WholeLineCovered, InUse, MInv, Whole
<1>2. QED
    BY <1>1, InvariantHolds, PTL

\* A response serves only packets it can serve, those it promotes included: the
\* targets of an MSHR in service are served by what the first of them asked for.
THEOREM ResponsesServeRightly == Spec => ServedByRightResponse
<1>1. IInv => \A b \in Blk : InUse(b) => \A r \in Response(mshr[b]) :
                 recvTimingResp(b, r) /\ ~abort' =>
                     \A i \in Len(serviced[b]) + 1 .. Len(serviced'[b]) :
                         Serves(r, serviced'[b][i])
    BY ZenonT(60), ServesStep
<1>2. QED
    BY <1>1, InvariantHolds, PTL DEF ServedByRightResponse

\* The asserts of promoteWritable and deallocate fail only for a clean that
\* waits behind a write; in particular deallocate's never fails.
THEOREM AbortOnlyAtClean == Spec => []AbortNeedsClean
<1>1. IInv => AbortNeedsClean
    BY DEF IInv
<1>2. QED
    BY <1>1, InvariantHolds, PTL

\* The write allocator leaves ALLOCATE only for a stream longer than its limits.
THEOREM WriteAllocatorBounded == Spec => []StreamBacksMode
<1>1. IInv => StreamBacksMode
    <2>1. SUFFICES ASSUME IInv PROVE StreamBacksMode
        OBVIOUS
    <2>2. /\ wa.byteCount \in Nat /\ stream.size \in Nat
          /\ coalesceLimit \in Nat /\ noAllocateLimit \in Nat
        BY SMTT(30), <2>1, SizeAssumption DEF IInv, TypeOK
    <2>3. QED
        BY SMTT(30), <2>1, <2>2 DEF IInv, StreamInv, StreamBacksMode
<1>2. QED
    BY <1>1, InvariantHolds, PTL

===============================================================================
