------------------------------ MODULE PortProofs ------------------------------
(***************************************************************************)
(* The two queues of a port.  The properties of the packet queue, proved   *)
(* for every limit, set of addresses and ticks and number of packets; and  *)
(* those of the fifo, for every size of the buffer and every set of        *)
(* readers and writers: its counters account for every slot, no wake-up is *)
(* lost, its asserts hold, and the ring buffer implements a bounded fifo.  *)
(***************************************************************************)
EXTENDS PacketQueue, ScFifo, SequenceTheorems, WellFoundedInduction, TLAPS

(***************************************************************************)
(* Lists                                                                   *)
(***************************************************************************)

LEMMA SliceProps ==
    ASSUME NEW S, NEW s \in Seq(S), NEW m \in 1 .. Len(s) + 1, NEW n \in 0 .. Len(s), m <= n + 1
    PROVE  /\ SubSeq(s, m, n) \in Seq(S)
           /\ Len(SubSeq(s, m, n)) = n - m + 1
           /\ \A i \in 1 .. n - m + 1 : SubSeq(s, m, n)[i] = s[m + i - 1]
<1>1. Len(s) \in Nat /\ \A i \in 1 .. Len(s) : s[i] \in S
    BY LenProperties, ElementOfSeq
<1>2. m \in Int /\ n \in Int /\ \A i \in m .. n : s[i] \in S
    BY <1>1
<1>3. /\ SubSeq(s, m, n) \in Seq(S)
      /\ Len(SubSeq(s, m, n)) = IF m <= n THEN n - m + 1 ELSE 0
      /\ \A i \in 1 .. n - m + 1 : SubSeq(s, m, n)[i] = s[m + i - 1]
    BY <1>2, SubSeqProperties
<1>4. QED
    BY <1>1, <1>3

\* t is the list s with p inserted at place k.
Grown(s, t, k, p) ==
    /\ k \in 1 .. Len(s) + 1 /\ Len(t) = Len(s) + 1
    /\ \A i \in 1 .. Len(s) + 1 :
           t[i] = IF i < k THEN s[i] ELSE IF i = k THEN p ELSE s[i - 1]

LEMMA InsertAtProps ==
    ASSUME NEW S, NEW s \in Seq(S), NEW k \in 1 .. Len(s) + 1, NEW p \in S
    PROVE  insertAt(s, k, p) \in Seq(S) /\ Grown(s, insertAt(s, k, p), k, p)
<1> DEFINE a == SubSeq(s, 1, k - 1)
           b == SubSeq(s, k, Len(s))
           c == a \o <<p>>
<1>1. Len(s) \in Nat
    BY LenProperties
<1>2. /\ 1 \in 1 .. Len(s) + 1 /\ k - 1 \in 0 .. Len(s) /\ 1 <= (k - 1) + 1
      /\ Len(s) \in 0 .. Len(s) /\ k <= Len(s) + 1
    BY <1>1
<1>3. a \in Seq(S) /\ Len(a) = k - 1 /\ \A i \in 1 .. k - 1 : a[i] = s[i]
    <2>1. /\ a \in Seq(S) /\ Len(a) = (k - 1) - 1 + 1
          /\ \A i \in 1 .. (k - 1) - 1 + 1 : a[i] = s[1 + i - 1]
        BY <1>2, SliceProps
    <2>2. QED
        BY <1>1, <2>1
<1>4. /\ b \in Seq(S) /\ Len(b) = Len(s) - k + 1
      /\ \A i \in 1 .. Len(s) - k + 1 : b[i] = s[k + i - 1]
    BY <1>2, SliceProps
<1>5. insertAt(s, k, p) = c \o b
    BY DEF insertAt
<1> HIDE DEF a, b
<1>6. c \in Seq(S) /\ Len(c) = k /\ \A i \in 1 .. k : c[i] = IF i < k THEN s[i] ELSE p
    <2>1. <<p>> \in Seq(S) /\ Len(<<p>>) = 1 /\ <<p>>[1] = p
        OBVIOUS
    <2>2. /\ c \in Seq(S) /\ Len(c) = Len(a) + Len(<<p>>)
          /\ \A i \in 1 .. Len(a) + Len(<<p>>) :
                c[i] = IF i <= Len(a) THEN a[i] ELSE <<p>>[i - Len(a)]
        BY <1>3, <2>1, ConcatProperties
    <2>3. QED
        BY <1>1, <1>3, <2>1, <2>2
<1> HIDE DEF c
<1>7. /\ c \o b \in Seq(S) /\ Len(c \o b) = Len(c) + Len(b)
      /\ \A i \in 1 .. Len(c) + Len(b) :
            (c \o b)[i] = IF i <= Len(c) THEN c[i] ELSE b[i - Len(c)]
    BY <1>4, <1>6, ConcatProperties
<1>8. Len(c \o b) = Len(s) + 1 /\ Len(c) + Len(b) = Len(s) + 1
    BY <1>1, <1>4, <1>6, <1>7
<1>9. ASSUME NEW i \in 1 .. Len(s) + 1
      PROVE  (c \o b)[i] = IF i < k THEN s[i] ELSE IF i = k THEN p ELSE s[i - 1]
    <2>1. CASE i <= k
        <3>1. i \in 1 .. k /\ i \in 1 .. Len(c) + Len(b) /\ i <= Len(c)
            BY <1>1, <1>6, <1>8, <2>1
        <3>2. (c \o b)[i] = c[i] /\ c[i] = IF i < k THEN s[i] ELSE p
            BY ZenonT(60), <1>6, <1>7, <3>1
        <3>3. QED
            BY <1>1, <2>1, <3>2
    <2>2. CASE i > k
        <3>1. /\ i \in 1 .. Len(c) + Len(b) /\ ~(i <= Len(c)) /\ Len(c) = k
              /\ i - k \in 1 .. Len(s) - k + 1 /\ k + (i - k) - 1 = i - 1
            BY <1>1, <1>6, <1>8, <2>2
        <3>2. (c \o b)[i] = b[i - k] /\ b[i - k] = s[k + (i - k) - 1]
            BY ZenonT(60), <1>4, <1>7, <3>1
        <3>3. QED
            BY <1>1, <2>2, <3>1, <3>2
    <2>3. i <= k \/ i > k
        BY <1>1
    <2>4. QED
        BY ZenonT(60), <2>1, <2>2, <2>3
<1>10. QED
    BY ZenonT(60), <1>5, <1>7, <1>8, <1>9 DEF Grown

LEMMA Reassociate ==
    ASSUME NEW S, NEW s \in Seq(S), NEW d \in S, NEW t \in Seq(S)
    PROVE  s \o (<<d>> \o t) = (s \o <<d>>) \o t
<1>1. <<d>> \in Seq(S)
    OBVIOUS
<1>2. QED
    BY <1>1, ConcatAssociative

LEMMA GrownBehind ==
    ASSUME NEW S, NEW u \in Seq(S), NEW s \in Seq(S), NEW t \in Seq(S), NEW k, NEW p,
           Grown(s, t, k, p)
    PROVE  Grown(u \o s, u \o t, Len(u) + k, p)
<1>1. Len(u) \in Nat /\ Len(s) \in Nat /\ k \in 1 .. Len(s) + 1 /\ Len(t) = Len(s) + 1
    BY LenProperties DEF Grown
<1>2. /\ Len(u \o s) = Len(u) + Len(s)
      /\ \A i \in 1 .. Len(u) + Len(s) :
            (u \o s)[i] = IF i <= Len(u) THEN u[i] ELSE s[i - Len(u)]
    BY ConcatProperties
<1>3. /\ Len(u \o t) = Len(u) + Len(t)
      /\ \A i \in 1 .. Len(u) + Len(t) :
            (u \o t)[i] = IF i <= Len(u) THEN u[i] ELSE t[i - Len(u)]
    BY ConcatProperties
<1>4. ASSUME NEW i \in 1 .. Len(u \o s) + 1
      PROVE  (u \o t)[i] = IF i < Len(u) + k THEN (u \o s)[i]
                           ELSE IF i = Len(u) + k THEN p ELSE (u \o s)[i - 1]
    <2>1. CASE i <= Len(u)
        BY <1>1, <1>2, <1>3, <2>1
    <2>2. CASE i > Len(u)
        <3> DEFINE j == i - Len(u)
        <3>1. j \in 1 .. Len(s) + 1 /\ i = Len(u) + j /\ (u \o t)[i] = t[j]
            BY <1>1, <1>2, <1>3, <2>2
        <3>2. t[j] = IF j < k THEN s[j] ELSE IF j = k THEN p ELSE s[j - 1]
            BY ZenonT(60), <3>1 DEF Grown
        <3> HIDE DEF j
        <3>3. CASE j < k
            BY <1>1, <1>2, <3>1, <3>2, <3>3
        <3>4. CASE j = k
            BY <1>1, <3>1, <3>2, <3>4
        <3>5. CASE j > k
            <4>1. i - 1 \in 1 .. Len(u) + Len(s) /\ ~(i - 1 <= Len(u)) /\ (i - 1) - Len(u) = j - 1
                BY <1>1, <3>1, <3>5
            <4>2. (u \o s)[i - 1] = s[j - 1]
                BY <1>2, <4>1
            <4>3. QED
                BY <1>1, <3>1, <3>2, <3>5, <4>2
        <3>6. QED
            BY <1>1, <3>1, <3>3, <3>4, <3>5
    <2>3. QED
        BY <1>1, <1>2, <2>1, <2>2
<1>5. Len(u) + k \in 1 .. Len(u \o s) + 1 /\ Len(u \o t) = Len(u \o s) + 1
    BY <1>1, <1>2, <1>3 DEF Grown
<1>6. QED
    BY ZenonT(60), <1>4, <1>5 DEF Grown

\* A nonempty set of places of a list has a last one.
LEMMA LastPlace ==
    ASSUME NEW n \in Nat, NEW T \in SUBSET (1 .. n), T # {}
    PROVE  \E x \in T : \A y \in T : y <= x
<1> DEFINE U == {m \in Nat : \E y \in T : m = n - y}
<1>1. U \in SUBSET Nat /\ U # {}
    <2>1. PICK y \in T : y \in 1 .. n
        BY ZenonT(60)
    <2>2. n - y \in U
        BY <2>1
    <2>3. QED
        BY ZenonT(60), <2>2
<1>2. PICK m \in U : \A k \in U : ~ (<<k, m>> \in OpToRel(<, Nat))
    BY ZenonT(60), <1>1, WFMin, NatLessThanWellFounded
<1>3. PICK x \in T : m = n - x
    BY ZenonT(60), <1>2
<1>4. ASSUME NEW y \in T PROVE y <= x
    <2>1. n - y \in U /\ n - y \in Nat /\ m \in Nat /\ x \in Nat /\ y \in Nat
        BY <1>1, <1>3
    <2>2. ~ (n - y < m)
        BY ZenonT(60), <1>2, <2>1 DEF OpToRel
    <2>3. QED
        BY <1>3, <2>1, <2>2
<1>5. QED
    BY <1>4

(***************************************************************************)
(* The packet queue                                                        *)
(***************************************************************************)

\* The search of schedSendTiming ends behind the last packet that the new one
\* may not pass.
LEMMA AheadProps ==
    ASSUME NEW list \in Seq(Packet), NEW p
    PROVE  /\ ahead(list, p) \in 0 .. Len(list)
           /\ ahead(list, p) # 0 => goesBehind(list[ahead(list, p)], p)
           /\ \A i \in 1 .. Len(list) : goesBehind(list[i], p) => i <= ahead(list, p)
<1> DEFINE T == {i \in DOMAIN list : goesBehind(list[i], p)}
<1>1. Len(list) \in Nat /\ DOMAIN list = 1 .. Len(list)
    BY LenProperties
<1>2. CASE T = {}
    <2>1. ahead(list, p) = 0
        BY <1>2 DEF ahead
    <2>2. QED
        BY <1>1, <1>2, <2>1
<1>3. CASE T # {}
    <2>1. ahead(list, p) = CHOOSE i \in T : \A j \in T : j <= i
        BY <1>3 DEF ahead
    <2>2. T \in SUBSET (1 .. Len(list))
        BY <1>1
    <2>3. \E i \in T : \A j \in T : j <= i
        BY ZenonT(60), <1>1, <1>3, <2>2, LastPlace
    <2>4. ahead(list, p) \in T /\ \A j \in T : j <= ahead(list, p)
        BY <2>1, <2>3
    <2>5. QED
        BY <1>1, <2>4
<1>4. QED
    BY <1>2, <1>3

LEMMA InsertedProps ==
    ASSUME NEW list \in Seq(Packet), NEW p \in Packet
    PROVE  /\ inserted(list, p) \in Seq(Packet)
           /\ Grown(list, inserted(list, p), ahead(list, p) + 1, p)
<1>1. Len(list) \in Nat /\ ahead(list, p) + 1 \in 1 .. Len(list) + 1
    BY AheadProps, LenProperties
<1>2. QED
    BY <1>1, InsertAtProps DEF inserted

\* What a packet is, as the proofs need it.
LEMMA PacketFields ==
    ASSUME NEW p \in Packet
    PROVE  p.id \in Nat /\ p.tick \in Nat
<1>1. p.id \in 1 .. maxPackets /\ p.tick \in Ticks
    BY DEF Packet
<1>2. p.id \in Nat
    BY <1>1
<1>3. p.tick \in Nat
    BY ZenonT(60), <1>1, LimitAssumption
<1>4. QED
    BY <1>2, <1>3

\* All packets handed over so far, in the order they leave or have left.
All == sent \o transmitList

Types ==
    /\ transmitList \in Seq(Packet) /\ sent \in Seq(Packet) /\ next \in Nat
    /\ waitingOnRetry \in BOOLEAN /\ forceOrder \in BOOLEAN
    /\ refused \in BOOLEAN /\ overtaken \in BOOLEAN

\* Until a packet is refused, no retry is awaited, and the thread is notified
\* only while there is a packet to send.
NotifiedWithCause ==
    ~refused => ~waitingOnRetry /\ (thread = "runnable" => transmitList # << >>)

\* The inductive invariant: identifiers are below next.
PacketInv ==
    /\ Types
    /\ \A i \in 1 .. Len(All) : All[i].id < next
    /\ PacketsConserved /\ SameAddressInOrder /\ ListByTick
    /\ NotifiedWithCause /\ AbortsNeedRefusal

LEMMA AllProps ==
    ASSUME Types
    PROVE  /\ All \in Seq(Packet) /\ Len(All) = Len(sent) + Len(transmitList)
           /\ Len(All) \in Nat /\ DOMAIN All = 1 .. Len(All)
           /\ Len(sent) \in Nat /\ Len(transmitList) \in Nat
           /\ \A i \in 1 .. Len(All) :
                  All[i] = IF i <= Len(sent) THEN sent[i] ELSE transmitList[i - Len(sent)]
<1>1. sent \in Seq(Packet) /\ transmitList \in Seq(Packet)
    BY DEF Types
<1>2. Len(sent) \in Nat /\ Len(transmitList) \in Nat
    BY <1>1, LenProperties
<1>3. /\ All \in Seq(Packet) /\ Len(All) = Len(sent) + Len(transmitList)
      /\ \A i \in 1 .. Len(sent) + Len(transmitList) :
             All[i] = IF i <= Len(sent) THEN sent[i] ELSE transmitList[i - Len(sent)]
    BY <1>1, ConcatProperties DEF All
<1>4. DOMAIN All = 1 .. Len(All)
    BY <1>3, LenProperties
<1>5. QED
    BY <1>2, <1>3, <1>4

\* p, the packet with the next identifier, is inserted in All behind those it
\* may not pass.
Joins(p) ==
    /\ p \in Packet /\ p.id = next /\ next' = next + 1
    /\ \E k \in 1 .. Len(All) + 1 :
          /\ Grown(All, All', k, p)
          /\ forceOrder => \A i \in 1 .. Len(All) : All[i].addr = p.addr => i < k

\* Conservation and the order of one address depend on All alone, but for the
\* length of the list.
LEMMA AllStep ==
    ASSUME PacketInv, Types', forceOrder' = forceOrder,
           (All' = All /\ next' = next) \/ (\E p \in Packet : Joins(p)),
           Len(transmitList') <= sanityLimit + 2
    PROVE  /\ (\A i \in 1 .. Len(All) : All[i].id < next)'
           /\ PacketsConserved' /\ SameAddressInOrder'
<1>1. /\ All \in Seq(Packet) /\ Len(All) \in Nat /\ DOMAIN All = 1 .. Len(All)
      /\ All' \in Seq(Packet) /\ DOMAIN All' = 1 .. Len(All')
    <2>1. Types
        BY DEF PacketInv
    <2>2. (All \in Seq(Packet) /\ DOMAIN All = 1 .. Len(All))'
        BY AllProps, PTL
    <2>3. QED
        BY <2>1, <2>2, AllProps
<1>2. CASE All' = All /\ next' = next
    BY ZenonT(60), <1>2 DEF PacketInv, PacketsConserved, SameAddressInOrder, All
<1>3. CASE \E p \in Packet : Joins(p)
    <2>1. PICK p \in Packet, k \in 1 .. Len(All) + 1 :
              /\ p.id = next /\ next' = next + 1 /\ Grown(All, All', k, p)
              /\ forceOrder => \A i \in 1 .. Len(All) : All[i].addr = p.addr => i < k
        BY <1>3 DEF Joins
    <2>2. /\ Len(All') = Len(All) + 1
          /\ \A i \in 1 .. Len(All) + 1 :
                 \/ i < k /\ i \in 1 .. Len(All) /\ All'[i] = All[i]
                 \/ i = k /\ All'[i] = p
                 \/ i > k /\ i - 1 \in 1 .. Len(All) /\ All'[i] = All[i - 1]
        BY <1>1, <2>1 DEF Grown
    <2>3. /\ next \in Nat /\ Len(All) = next - 1
          /\ \A i \in 1 .. Len(All) : All[i].id < next /\ All[i].id \in Nat
          /\ \A i, j \in 1 .. Len(All) : All[i].id = All[j].id => i = j
        <3>1. \A i \in 1 .. Len(All) : All[i] \in Packet
            BY <1>1, ElementOfSeq
        <3>2. \A i \in 1 .. Len(All) : All[i].id \in Nat
            BY <3>1, PacketFields
        <3>3. QED
            BY ZenonT(60), <1>1, <3>2 DEF PacketInv, Types, PacketsConserved, All
    <2>4. \A i \in 1 .. Len(All') : All'[i].id < next'
        BY <1>1, <2>1, <2>2, <2>3
    <2>5. \A i, j \in 1 .. Len(All') : All'[i].id = All'[j].id => i = j
        <3>1. SUFFICES ASSUME NEW i \in 1 .. Len(All'), NEW j \in 1 .. Len(All'),
                              All'[i].id = All'[j].id
                       PROVE  i = j
            OBVIOUS
        <3>2. i = k <=> j = k
            BY <1>1, <2>1, <2>2, <2>3, <3>1
        <3>3. QED
            BY <1>1, <2>1, <2>2, <2>3, <3>1, <3>2
    <2>6. PacketsConserved'
        <3>1. Len(All') = next' - 1 /\ DOMAIN All' = 1 .. Len(All')
            BY <1>1, <2>1, <2>2, <2>3
        <3>2. QED
            BY ZenonT(60), <2>5, <3>1 DEF PacketsConserved, All
    <2>7. ASSUME forceOrder, NEW i \in 1 .. Len(All'), NEW j \in 1 .. Len(All'),
                 i < j, All'[i].addr = All'[j].addr
          PROVE  All'[i].id < All'[j].id
        <3>1. \A m, n \in 1 .. Len(All) :
                  m < n /\ All[m].addr = All[n].addr => All[m].id < All[n].id
            BY ZenonT(60), <1>1, <2>7 DEF PacketInv, SameAddressInOrder, All
        <3>2. i # k
            <4>1. SUFFICES ASSUME i = k PROVE FALSE
                OBVIOUS
            <4>2. j > k /\ j - 1 \in 1 .. Len(All) /\ All[j - 1].addr = p.addr
                BY <1>1, <2>2, <2>7, <4>1
            <4>3. j - 1 < k
                BY <2>1, <2>7, <4>2
            <4>4. QED
                BY <2>1, <4>2, <4>3
        <3>3. CASE j = k
            <4>1. i < k /\ All'[i] = All[i] /\ i \in 1 .. Len(All)
                BY <1>1, <2>2, <2>7, <3>3
            <4>2. QED
                BY <2>1, <2>2, <2>3, <3>3, <4>1
        <3>4. CASE j # k
            <4>1. PICK m \in 1 .. Len(All) : All'[i] = All[m] /\ ((m = i /\ i < k) \/ (m = i - 1 /\ i > k))
                BY <1>1, <2>2, <3>2
            <4>2. PICK n \in 1 .. Len(All) : All'[j] = All[n] /\ ((n = j /\ j < k) \/ (n = j - 1 /\ j > k))
                BY <1>1, <2>2, <3>4
            <4>3. m < n
                BY <2>1, <2>7, <4>1, <4>2
            <4>4. QED
                BY <2>7, <3>1, <4>1, <4>2, <4>3
        <3>5. QED
            BY <3>3, <3>4
    <2>8. SameAddressInOrder'
        BY ZenonT(60), <1>1, <2>7 DEF SameAddressInOrder, All
    <2>9. QED
        BY <2>4, <2>6, <2>8
<1>4. QED
    BY <1>2, <1>3

\* A packet put into the part of the list behind `before' joins All.
LEMMA InsertedJoins ==
    ASSUME Types, NEW list \in Seq(Packet), NEW before \in Seq(Packet),
           NEW p \in NewPacket, next' = next + 1,
           All = before \o list, All' = before \o inserted(list, p)
    PROVE  Joins(p)
<1> DEFINE k == Len(before) + (ahead(list, p) + 1)
<1>1. p \in Packet /\ p.id = next
    BY DEF NewPacket
<1>2. inserted(list, p) \in Seq(Packet) /\ Grown(list, inserted(list, p), ahead(list, p) + 1, p)
    BY <1>1, InsertedProps
<1>3. Grown(All, All', k, p)
    BY <1>2, GrownBehind
<1>4. k \in 1 .. Len(All) + 1
    BY <1>3 DEF Grown
<1>5. ASSUME forceOrder, NEW i \in 1 .. Len(All), All[i].addr = p.addr
      PROVE  i < k
    <2>1. /\ Len(before) \in Nat /\ Len(list) \in Nat
          /\ Len(All) = Len(before) + Len(list)
          /\ All[i] = IF i <= Len(before) THEN before[i] ELSE list[i - Len(before)]
        <3>1. /\ Len(before \o list) = Len(before) + Len(list)
              /\ \A n \in 1 .. Len(before) + Len(list) :
                     (before \o list)[n] = IF n <= Len(before) THEN before[n]
                                           ELSE list[n - Len(before)]
            BY ConcatProperties
        <3>2. QED
            BY <3>1, LenProperties
    <2>2. ahead(list, p) \in 0 .. Len(list)
        BY AheadProps
    <2>3. CASE i <= Len(before)
        BY <2>1, <2>2, <2>3
    <2>4. CASE i > Len(before)
        <3>1. i - Len(before) \in 1 .. Len(list) /\ goesBehind(list[i - Len(before)], p)
            BY <1>5, <2>1, <2>4 DEF goesBehind
        <3>2. i - Len(before) <= ahead(list, p)
            BY <3>1, AheadProps
        <3>3. QED
            BY <2>1, <2>2, <3>2
    <2>5. QED
        BY <2>1, <2>3, <2>4
<1>6. QED
    BY ZenonT(60), <1>1, <1>3, <1>4, <1>5 DEF Joins

\* The list in order of ticks and arrival.
ByTick(list) ==
    \A i, j \in 1 .. Len(list) :
        i < j => list[i].tick < list[j].tick
                 \/ (list[i].tick = list[j].tick /\ list[i].id < list[j].id)

\* Inserting the newest packet keeps the order of ticks.
LEMMA InsertedByTick ==
    ASSUME NEW list \in Seq(Packet), NEW p \in Packet, ~forceOrder, ByTick(list),
           \A i \in 1 .. Len(list) : list[i].id < p.id
    PROVE  ByTick(inserted(list, p))
<1> DEFINE n == ahead(list, p)
           t == inserted(list, p)
<1>1. /\ Len(list) \in Nat /\ n \in 0 .. Len(list)
      /\ \A i \in 1 .. Len(list) : list[i].tick \in Nat /\ list[i].id \in Nat
      /\ p.tick \in Nat /\ p.id \in Nat
    BY LenProperties, ElementOfSeq, PacketFields, AheadProps
<1>2. /\ Len(t) = Len(list) + 1
      /\ \A i \in 1 .. Len(t) :
             t[i] = IF i < n + 1 THEN list[i] ELSE IF i = n + 1 THEN p ELSE list[i - 1]
    BY InsertedProps DEF Grown
<1>3. \A i \in 1 .. Len(list) : i <= n => list[i].tick <= p.tick
    <2>1. SUFFICES ASSUME NEW i \in 1 .. Len(list), i <= n PROVE list[i].tick <= p.tick
        OBVIOUS
    <2>2. n # 0 /\ n \in 1 .. Len(list) /\ list[n].tick <= p.tick
        BY <1>1, <2>1, AheadProps DEF goesBehind
    <2>3. i = n \/ list[i].tick <= list[n].tick
        BY <1>1, <2>1, <2>2 DEF ByTick
    <2>4. QED
        BY <1>1, <2>2, <2>3
<1>4. \A i \in 1 .. Len(list) : i > n => list[i].tick > p.tick
    <2>1. SUFFICES ASSUME NEW i \in 1 .. Len(list), i > n PROVE list[i].tick > p.tick
        OBVIOUS
    <2>2. ~goesBehind(list[i], p)
        BY <1>1, <2>1, AheadProps
    <2>3. QED
        BY <1>1, <2>2 DEF goesBehind
<1> HIDE DEF n, t
<1>5. SUFFICES ASSUME NEW i \in 1 .. Len(t), NEW j \in 1 .. Len(t), i < j
               PROVE  t[i].tick < t[j].tick \/ (t[i].tick = t[j].tick /\ t[i].id < t[j].id)
    BY DEF ByTick, t
<1>6. CASE i = n + 1
    <2>1. j - 1 \in 1 .. Len(list) /\ j - 1 > n /\ t[j] = list[j - 1] /\ t[i] = p
        BY <1>1, <1>2, <1>5, <1>6
    <2>2. QED
        BY <1>1, <1>4, <2>1
<1>7. CASE j = n + 1
    <2>1. i \in 1 .. Len(list) /\ i <= n /\ t[i] = list[i] /\ t[j] = p
        BY <1>1, <1>2, <1>5, <1>7
    <2>2. list[i].tick <= p.tick /\ list[i].id < p.id
        BY ZenonT(60), <1>3, <2>1
    <2>3. /\ t[i].tick \in Nat /\ t[j].tick \in Nat
          /\ t[i].tick <= t[j].tick /\ t[i].id < t[j].id
        BY ZenonT(60), <1>1, <2>1, <2>2
    <2>4. QED
        BY <2>3
<1>8. CASE i # n + 1 /\ j # n + 1
    <2>1. ASSUME NEW m \in 1 .. Len(t)
          PROVE  \/ m <= n /\ m \in 1 .. Len(list) /\ t[m] = list[m]
                 \/ m = n + 1
                 \/ m > n + 1 /\ m - 1 \in 1 .. Len(list) /\ t[m] = list[m - 1]
        <3>1. \/ m <= n /\ m < n + 1 /\ m \in 1 .. Len(list)
              \/ m = n + 1
              \/ m > n + 1 /\ ~(m < n + 1) /\ m # n + 1 /\ m - 1 \in 1 .. Len(list)
            BY <1>1, <1>2
        <3>2. QED
            BY ZenonT(60), <1>2, <3>1
    <2>2. PICK a \in 1 .. Len(list) : t[i] = list[a] /\ ((a = i /\ i <= n) \/ (a = i - 1 /\ i > n + 1))
        BY <1>8, <2>1
    <2>3. PICK b \in 1 .. Len(list) : t[j] = list[b] /\ ((b = j /\ j <= n) \/ (b = j - 1 /\ j > n + 1))
        BY <1>8, <2>1
    <2>4. a < b
        BY <1>1, <1>5, <2>2, <2>3
    <2>5. QED
        BY <2>2, <2>3, <2>4 DEF ByTick
<1>9. QED
    BY <1>6, <1>7, <1>8

LEMMA TailByTick ==
    ASSUME NEW list \in Seq(Packet), list # << >>, ByTick(list)
    PROVE  ByTick(Tail(list))
<1>1. /\ Len(list) \in Nat /\ Len(Tail(list)) = Len(list) - 1
      /\ \A i \in 1 .. Len(Tail(list)) : Tail(list)[i] = list[i + 1]
    BY HeadTailProperties, LenProperties
<1>2. QED
    BY <1>1 DEF ByTick

LEMMA ListByTickMeans ==
    ASSUME Types
    PROVE  ListByTick <=> (~forceOrder /\ ~overtaken => ByTick(transmitList))
<1>1. DOMAIN transmitList = 1 .. Len(transmitList)
    BY LenProperties DEF Types
<1>2. QED
    BY <1>1 DEF ListByTick, ByTick

LEMMA ListByTickNext ==
    ASSUME transmitList' \in Seq(Packet), ~forceOrder' /\ ~overtaken' => ByTick(transmitList')
    PROVE  ListByTick'
<1>1. DOMAIN transmitList' = 1 .. Len(transmitList')
    BY LenProperties
<1>2. QED
    BY <1>1 DEF ListByTick, ByTick

LEMMA FailKeeps ==
    ASSUME PacketInv, NEW a, Fail(a), a \in {"deferredPacketReady()", "!waitingOnRetry"} => refused
    PROVE  PacketInv'
<1>1. /\ transmitList' = transmitList /\ sent' = sent /\ next' = next
      /\ waitingOnRetry' = waitingOnRetry /\ forceOrder' = forceOrder /\ thread' = thread
      /\ refused' = refused /\ overtaken' = overtaken /\ failed' = a
    BY DEF Fail
<1>2. All' = All /\ Types'
    BY <1>1 DEF All, PacketInv, Types
<1>3. PacketsConserved' /\ SameAddressInOrder' /\ ListByTick'
    BY ZenonT(60), <1>1 DEF PacketInv, PacketsConserved, SameAddressInOrder, ListByTick
<1>4. NotifiedWithCause' /\ AbortsNeedRefusal'
    BY <1>1 DEF PacketInv, NotifiedWithCause, AbortsNeedRefusal
<1>5. QED
    BY <1>1, <1>2, <1>3, <1>4 DEF PacketInv

\* The packets still on the list have identifiers below next.
LEMMA ListBelowNext ==
    ASSUME PacketInv
    PROVE  \A i \in 1 .. Len(transmitList) : transmitList[i].id < next
<1>1. SUFFICES ASSUME NEW i \in 1 .. Len(transmitList)
               PROVE  transmitList[i].id < next
    OBVIOUS
<1>2. Types
    BY DEF PacketInv
<1>3. Len(sent) + i \in 1 .. Len(All) /\ All[Len(sent) + i] = transmitList[i]
    BY <1>2, AllProps
<1>4. QED
    BY <1>3 DEF PacketInv

LEMMA EnqueueKeeps ==
    ASSUME PacketInv, failed = "none", NEW p \in NewPacket, schedSendTiming(p)
    PROVE  PacketInv'
<1>1. CASE tooLong(transmitList)
    <2>1. Fail("grown beyond the limit")
        BY ZenonT(60), <1>1 DEF schedSendTiming
    <2>2. QED
        BY ZenonT(60), <2>1, FailKeeps
<1>2. CASE ~tooLong(transmitList)
    <2>1. /\ transmitList' = inserted(transmitList, p) /\ next' = next + 1
          /\ thread' = IF wakes(transmitList, p) THEN schedSendEvent("other") ELSE thread
          /\ waitingOnRetry' = waitingOnRetry /\ forceOrder' = forceOrder /\ sent' = sent
          /\ refused' = refused /\ overtaken' = overtaken /\ failed' = failed
        BY <1>2 DEF schedSendTiming
    <2>2. Types /\ transmitList \in Seq(Packet) /\ sent \in Seq(Packet) /\ p \in Packet /\ p.id = next
        BY DEF PacketInv, Types, NewPacket
    <2>3. /\ inserted(transmitList, p) \in Seq(Packet)
          /\ Len(inserted(transmitList, p)) = Len(transmitList) + 1
        BY <2>2, InsertedProps DEF Grown
    <2>4. Types'
        BY <2>1, <2>2, <2>3 DEF Types
    <2>5. Joins(p)
        BY ZenonT(60), <2>1, <2>2, InsertedJoins DEF All
    <2>6. /\ (\A i \in 1 .. Len(All) : All[i].id < next)'
          /\ PacketsConserved' /\ SameAddressInOrder'
        <3>1. Len(transmitList') <= sanityLimit + 2
            BY <1>2, <2>1, <2>2, <2>3, LenProperties, LimitAssumption DEF tooLong
        <3>2. QED
            BY ZenonT(60), <2>1, <2>2, <2>4, <2>5, <3>1, AllStep
    <2>7. ListByTick'
        <3>1. SUFFICES ASSUME ~forceOrder, ~overtaken PROVE ByTick(transmitList')
            BY <2>1, <2>3, ListByTickNext
        <3>2. ByTick(transmitList)
            BY <2>2, <3>1, ListByTickMeans DEF PacketInv
        <3>3. QED
            BY <2>1, <2>2, <3>1, <3>2, ListBelowNext, InsertedByTick
    <2>8. NotifiedWithCause'
        <3>1. transmitList' # << >>
            BY <2>1, <2>2, <2>3, LenProperties, EmptySeq
        <3>2. QED
            BY <2>1, <3>1 DEF PacketInv, NotifiedWithCause
    <2>9. QED
        BY <2>1, <2>4, <2>6, <2>7, <2>8 DEF PacketInv, AbortsNeedRefusal
<1>3. QED
    BY <1>1, <1>2

\* sendTiming with at most one nested packet keeps All, but for that packet.
LEMMA SendKeeps ==
    ASSUME PacketInv, failed = "none", transmitList # << >>,
           NEW caller, caller = "thread" \/ (caller = "other" /\ refused),
           NEW nested \in {<< >>} \union {<<p>> : p \in NewPacket},
           NEW accepted \in BOOLEAN, Send(caller, nested, accepted)
    PROVE  PacketInv'
<1> DEFINE dp   == Head(transmitList)
           rest == Tail(transmitList)
           list == IF nested = << >> THEN rest ELSE inserted(rest, nested[1])
<1>1. CASE nested # << >> /\ tooLong(rest)
    <2>1. Fail("grown beyond the limit")
        BY ZenonT(60), <1>1 DEF Send
    <2>2. QED
        BY ZenonT(60), <2>1, FailKeeps
<1>2. CASE ~(nested # << >> /\ tooLong(rest))
    <2>1. /\ transmitList' = IF accepted THEN list ELSE putBack(dp, list)
          /\ sent' = IF accepted THEN Append(sent, dp) ELSE sent
          /\ waitingOnRetry' = ~accepted
          /\ next' = next + Len(nested)
          /\ refused' = (refused \/ ~accepted)
          /\ overtaken' = (overtaken \/ (nested # << >> /\ ~accepted))
          /\ forceOrder' = forceOrder /\ failed' = failed
        BY ZenonT(60), <1>2 DEF Send
    <2>2. caller = "thread" => thread' = "waiting"
        BY ZenonT(60), <1>2 DEF Send, schedSendEvent
    <2>3. /\ Types /\ transmitList \in Seq(Packet) /\ sent \in Seq(Packet) /\ next \in Nat
          /\ dp \in Packet /\ rest \in Seq(Packet) /\ Len(transmitList) \in Nat
          /\ Len(rest) = Len(transmitList) - 1 /\ transmitList = <<dp>> \o rest
          /\ \A i \in 1 .. Len(rest) : rest[i] = transmitList[i + 1]
        BY HeadTailProperties, LenProperties DEF PacketInv, Types
    <2>4. nested = << >> \/ (nested # << >> /\ nested[1] \in NewPacket /\ Len(nested) = 1)
        OBVIOUS
    <2> HIDE DEF dp, rest
    <2>5. /\ list \in Seq(Packet)
          /\ nested = << >> => list = rest
          /\ nested # << >> => Len(list) = Len(rest) + 1 /\ Len(rest) <= sanityLimit
        <3>1. list \in Seq(Packet)
            BY ZenonT(60), <2>3, <2>4, InsertedProps DEF NewPacket
        <3>2. nested # << >> => Len(list) = Len(rest) + 1
            BY ZenonT(60), <2>3, <2>4, InsertedProps DEF NewPacket, Grown
        <3>3. nested # << >> => Len(rest) <= sanityLimit
            BY <1>2, <2>3, LimitAssumption DEF tooLong
        <3>4. QED
            BY ZenonT(60), <3>1, <3>2, <3>3
    <2> HIDE DEF list
    <2>6. /\ <<dp>> \in Seq(Packet) /\ sent \o <<dp>> \in Seq(Packet)
          /\ Append(sent, dp) = sent \o <<dp>> /\ putBack(dp, list) = <<dp>> \o list
          /\ <<dp>> \o list \in Seq(Packet)
        BY <2>3, <2>5 DEF putBack
    <2>7. Types' /\ Len(transmitList') <= sanityLimit + 2
        <3>1. Types'
            BY <2>1, <2>3, <2>4, <2>5, <2>6 DEF Types
        <3>2. Len(list) \in Nat /\ Len(<<dp>> \o list) = Len(list) + 1
            BY <2>3, <2>5
        <3>3. Len(list) <= sanityLimit + 1
            <4>1. Len(transmitList) <= sanityLimit + 2
                BY ZenonT(60) DEF PacketInv, PacketsConserved
            <4>2. QED
                BY <2>3, <2>5, <4>1, LimitAssumption
        <3>4. Len(transmitList') = Len(list) \/ Len(transmitList') = Len(list) + 1
            BY ZenonT(60), <2>1, <2>6, <3>2
        <3>5. QED
            BY <3>1, <3>2, <3>3, <3>4, LimitAssumption
    <2>8. All = (sent \o <<dp>>) \o rest /\ All' = (sent \o <<dp>>) \o list
        <3>1. All = (sent \o <<dp>>) \o rest
            <4>1. dp \in Packet /\ rest \in Seq(Packet) /\ sent \in Seq(Packet)
                BY ZenonT(60), <2>3
            <4>2. sent \o (<<dp>> \o rest) = (sent \o <<dp>>) \o rest
                BY <4>1, Reassociate
            <4>3. QED
                BY ZenonT(60), <2>3, <4>2 DEF All
        <3>2. CASE accepted
            BY ZenonT(60), <2>1, <2>6, <3>1, <3>2 DEF All
        <3>3. CASE ~accepted
            <4>1. (sent \o <<dp>>) \o list = sent \o (<<dp>> \o list)
                BY <2>3, <2>5, <2>6, ConcatAssociative
            <4>2. QED
                BY ZenonT(60), <2>1, <2>6, <3>1, <3>3, <4>1 DEF All
        <3>4. QED
            BY ZenonT(60), <3>2, <3>3
    <2>9. (All' = All /\ next' = next) \/ (\E p \in Packet : Joins(p))
        <3>1. CASE nested = << >>
            <4>1. list = rest /\ next' = next
                BY <2>1, <2>3, <3>1 DEF list
            <4>2. QED
                BY <2>8, <4>1
        <3>2. CASE nested # << >>
            <4>1. list = inserted(rest, nested[1]) /\ nested[1] \in NewPacket /\ next' = next + 1
                BY ZenonT(60), <2>1, <2>3, <2>4, <3>2 DEF list
            <4>2. Joins(nested[1]) /\ nested[1] \in Packet
                BY ZenonT(60), <2>3, <2>6, <2>8, <4>1, InsertedJoins DEF NewPacket
            <4>3. QED
                BY <4>2
        <3>3. QED
            BY <3>1, <3>2
    <2>10. ListByTick'
        <3>1. SUFFICES ASSUME ~forceOrder, ~overtaken, nested = << >> \/ accepted
                       PROVE  ByTick(transmitList')
            BY ZenonT(60), <2>1, <2>5, <2>6, ListByTickNext
        <3>2. ByTick(transmitList) /\ ByTick(rest)
            BY <2>3, <3>1, ListByTickMeans, TailByTick DEF PacketInv, rest
        <3>3. CASE nested = << >> /\ accepted
            BY <2>1, <3>2, <3>3 DEF list
        <3>4. CASE nested = << >> /\ ~accepted
            BY ZenonT(60), <2>1, <2>3, <2>6, <3>2, <3>4 DEF list
        <3>5. CASE nested # << >> /\ accepted
            <4>1. /\ transmitList' = inserted(rest, nested[1]) /\ nested[1] \in Packet
                  /\ nested[1].id = next
                BY <2>1, <2>4, <3>5 DEF list, NewPacket
            <4>2. \A i \in 1 .. Len(rest) : rest[i].id < next
                BY <2>3, ListBelowNext
            <4>3. QED
                BY ZenonT(60), <2>3, <3>1, <3>2, <4>1, <4>2, InsertedByTick
        <3>6. QED
            BY <3>1, <3>3, <3>4, <3>5
    <2>11. NotifiedWithCause' /\ AbortsNeedRefusal'
        BY ZenonT(60), <2>1, <2>2 DEF PacketInv, NotifiedWithCause, AbortsNeedRefusal
    <2>12. QED
        BY ZenonT(60), <2>1, <2>3, <2>7, <2>9, <2>10, <2>11, AllStep DEF PacketInv
<1>3. QED
    BY <1>1, <1>2

LEMMA PacketStep ==
    ASSUME PacketInv, [Next]_vars
    PROVE  PacketInv'
<1>1. CASE Enqueue
    BY <1>1, EnqueueKeeps DEF Enqueue
<1>2. ASSUME failed = "none", NEW caller, caller = "thread" \/ (caller = "other" /\ refused),
             transmitList = << >> => refused, sendDeferredPacket(caller)
      PROVE  PacketInv'
    <2>1. CASE transmitList = << >>
        BY <1>2, <2>1, FailKeeps DEF sendDeferredPacket
    <2>2. CASE transmitList # << >>
        <3>1. PICK nested \in {<< >>} \union {<<p>> : p \in NewPacket}, accepted \in BOOLEAN :
                  Send(caller, nested, accepted)
            BY <1>2, <2>2 DEF sendDeferredPacket
        <3>2. QED
            BY <1>2, <2>2, <3>1, SendKeeps
    <2>3. QED
        BY <2>1, <2>2
<1>3. CASE processSendEvent
    <2>1. failed = "none" /\ thread = "runnable"
        BY <1>3 DEF processSendEvent
    <2>2. ~refused => ~waitingOnRetry /\ transmitList # << >>
        BY <2>1 DEF PacketInv, NotifiedWithCause
    <2>3. CASE waitingOnRetry
        BY <1>3, <2>2, <2>3, FailKeeps DEF processSendEvent
    <2>4. CASE ~waitingOnRetry
        BY <1>2, <1>3, <2>1, <2>2, <2>4 DEF processSendEvent
    <2>5. QED
        BY <2>3, <2>4
<1>4. CASE retry
    <2>1. failed = "none" /\ refused /\ sendDeferredPacket("other")
        BY <1>4 DEF retry, PacketInv, NotifiedWithCause
    <2>2. QED
        BY <1>2, <2>1
<1>5. CASE UNCHANGED vars
    <2>1. /\ transmitList' = transmitList /\ sent' = sent /\ next' = next
          /\ waitingOnRetry' = waitingOnRetry /\ forceOrder' = forceOrder /\ thread' = thread
          /\ refused' = refused /\ overtaken' = overtaken /\ failed' = failed
        BY <1>5 DEF vars
    <2>2. Fail(failed)
        BY <2>1 DEF Fail
    <2>3. QED
        BY <2>2, FailKeeps DEF PacketInv, AbortsNeedRefusal
<1>6. QED
    BY <1>1, <1>3, <1>4, <1>5 DEF Next

\* PacketInv is an invariant of the packet queue, for every limit, set of
\* addresses and ticks, and every order of schedSendTiming, refusals and retries.
THEOREM PacketInvariant == Spec => []PacketInv
<1>1. Init => PacketInv
    <2>1. SUFFICES ASSUME Init PROVE PacketInv
        OBVIOUS
    <2>2. /\ transmitList = << >> /\ sent = << >> /\ next = 1 /\ ~waitingOnRetry
          /\ forceOrder \in BOOLEAN /\ thread = "waiting" /\ refused = FALSE
          /\ overtaken = FALSE /\ failed = "none" /\ waitingOnRetry = FALSE
        BY <2>1 DEF Init
    <2>3. Types
        <3>1. << >> \in Seq(Packet) /\ 1 \in Nat
            BY EmptySeq
        <3>2. QED
            BY <2>2, <3>1, Zenon DEF Types
    <2>4. Len(All) = 0 /\ DOMAIN All = {} /\ DOMAIN transmitList = {}
        BY <2>2, <2>3, AllProps
    <2>5. PacketsConserved /\ SameAddressInOrder /\ ListByTick
        <3>1. Len(transmitList) <= sanityLimit + 2
            BY <2>2, LimitAssumption
        <3>2. QED
            BY <2>2, <2>4, <3>1 DEF PacketsConserved, SameAddressInOrder, ListByTick, All
    <2>6. NotifiedWithCause /\ AbortsNeedRefusal
        BY <2>2 DEF NotifiedWithCause, AbortsNeedRefusal
    <2>7. QED
        BY <2>3, <2>4, <2>5, <2>6 DEF PacketInv
<1>2. PacketInv /\ [Next]_vars => PacketInv'
    BY PacketStep
<1>3. QED
    BY <1>1, <1>2, PTL DEF Spec

\* No packet handed to schedSendTiming is lost or sent twice, and the list stays
\* within two packets of its limit, whatever sendTiming answers (schedSendTiming,
\* sendDeferredPacket).
THEOREM PacketsAreConserved == Spec => []PacketsConserved
<1>1. PacketInv => PacketsConserved
    BY DEF PacketInv
<1>2. QED
    BY <1>1, PacketInvariant, PTL

\* With forceOrder the packets of one address leave in the order they came
\* (the search of schedSendTiming, the put-back of sendDeferredPacket).
THEOREM AddressesInOrder == Spec => []SameAddressInOrder
<1>1. PacketInv => SameAddressInOrder
    BY DEF PacketInv
<1>2. QED
    BY <1>1, PacketInvariant, PTL

\* Without forceOrder the list is in order of ticks and arrival, unless a packet
\* was enqueued during a refused send (schedSendTiming, sendDeferredPacket).
THEOREM ListStaysByTick == Spec => []ListByTick
<1>1. PacketInv => ListByTick
    BY DEF PacketInv
<1>2. QED
    BY <1>1, PacketInvariant, PTL

\* The asserts of processSendEvent and sendDeferredPacket hold as long as
\* sendTiming refuses nothing.
THEOREM AcceptingPeerNeverAborts == Spec => []AbortsNeedRefusal
<1>1. PacketInv => AbortsNeedRefusal
    BY DEF PacketInv
<1>2. QED
    BY <1>1, PacketInvariant, PTL

(***************************************************************************)
(* The fifo of a port                                                      *)
(***************************************************************************)

\* An index taken modulo the size, for a sum below twice the size.
LEMMA WrapAround ==
    ASSUME NEW N \in Nat \ {0}, NEW a \in 0 .. N - 1, NEW b \in 0 .. N
    PROVE  (a + b) % N = IF a + b < N THEN a + b ELSE a + b - N
<1>1. ASSUME a + b < N PROVE (a + b) % N = a + b
  BY <1>1
<1>2. ASSUME ~ (a + b < N) PROVE (a + b) % N = a + b - N
  <2>1. a + b \in N .. 2 * N - 1
    BY <1>2
  <2> QED BY <2>1
<1> QED BY <1>1, <1>2

LEMMA FunctionIsSeq ==
    ASSUME NEW S, NEW n \in Nat, NEW f \in [1 .. n -> S]
    PROVE  f \in Seq(S)
OBVIOUS

LEMMA WrapNext ==
    ASSUME NEW N \in Nat \ {0}, NEW a \in 0 .. N - 1
    PROVE  (a + 1) % N = (IF a + 1 < N THEN a + 1 ELSE a + 1 - N) /\ a % N = a
<1>1. ASSUME a + 1 < N PROVE (a + 1) % N = a + 1
  BY <1>1
<1>2. ASSUME ~ (a + 1 < N) PROVE (a + 1) % N = a + 1 - N
  <2>1. a + 1 = N /\ N % N = 0
    BY <1>2
  <2> QED BY <2>1
<1> QED BY <1>1, <1>2

\* The write index follows the occupied slots, and these hold packets.
Ring ==
    /\ m_wi = (m_ri + (m_size - m_free)) % m_size
    /\ \A i \in 1 .. m_size - m_free : m_buf[(m_ri + i - 1) % m_size] \in FifoPacket

FifoInv == FifoTypeOK /\ SlotsAccounted /\ NoLostWakeup /\ AssertsHold /\ Ring

LEMMA InitFifoInv == FifoInit => FifoInv
<1> SUFFICES ASSUME FifoInit PROVE FifoInv
  OBVIOUS
<1> USE SizeAssumption, ProcessAssumption, T0Assumption DEF FifoInit
<1>1. FifoTypeOK
  <2>1. m_buf \in [Slot -> FifoPacket \cup {T0}] /\ state \in [Process -> {"ready", "wait", "idle"}]
    OBVIOUS
  <2>2. assertFailed \in BOOLEAN
    BY ZenonT(60)
  <2>3. /\ m_free \in 0 .. m_size /\ m_ri \in Slot /\ m_wi \in Slot
        /\ m_num_readable \in 0 .. m_size /\ m_num_read \in Nat /\ m_num_written \in Nat
        /\ written \in 0 .. maxWrites /\ output \in Seq(FifoPacket)
    BY DEF Slot
  <2> QED BY <2>1, <2>2, <2>3 DEF FifoTypeOK
<1>2. SlotsAccounted /\ NoLostWakeup /\ AssertsHold
  BY DEF SlotsAccounted, NoLostWakeup, AssertsHold, num_available, num_free, Process
<1>3. Ring
  <2>1. 0 % m_size = 0 /\ 0 + (m_size - m_size) = 0
    OBVIOUS
  <2> QED BY <2>1 DEF Ring
<1> QED BY <1>1, <1>2, <1>3 DEF FifoInv

\* A value is read: the slot at m_ri is cleared and given back.
LEMMA ReadStep ==
    ASSUME FifoInv, NEW r \in Reader, num_available # 0, m_free # m_size, buf_read,
           m_num_read' = m_num_read + 1, output' = Append(output, m_buf[m_ri]),
           UNCHANGED <<m_num_readable, m_num_written, state, written, assertFailed>>
    PROVE  FifoInv' /\ Abstract!Get
<1> USE SizeAssumption DEF FifoInv
<1>0. /\ m_free \in 0 .. m_size /\ m_ri \in 0 .. m_size - 1 /\ m_wi \in 0 .. m_size - 1
      /\ m_num_readable \in Nat /\ m_num_read \in Nat /\ m_num_written \in Nat
      /\ m_size \in Nat \ {0} /\ m_free < m_size
  BY DEF FifoTypeOK, Slot
<1>1. m_ri % m_size = m_ri /\ (m_ri + 1) % m_size \in Slot
  <2>1. /\ m_ri % m_size = m_ri
        /\ (m_ri + 1) % m_size = IF m_ri + 1 < m_size THEN m_ri + 1 ELSE m_ri + 1 - m_size
    BY ZenonT(60), <1>0, WrapNext
  <2> QED BY <2>1, <1>0 DEF Slot
<1>2. m_buf[m_ri] \in FifoPacket
  <2>1. 1 \in 1 .. m_size - m_free /\ m_ri + 1 - 1 = m_ri
    BY <1>0
  <2> QED BY <2>1, <1>1 DEF Ring
<1>3. \A i \in 1 .. m_size - m_free - 1 :
        /\ (((m_ri + 1) % m_size) + i - 1) % m_size = (m_ri + (i + 1) - 1) % m_size
        /\ (m_ri + (i + 1) - 1) % m_size # m_ri
        /\ (m_ri + (i + 1) - 1) % m_size \in Slot
  <2> SUFFICES ASSUME NEW i \in 1 .. m_size - m_free - 1
               PROVE  /\ (((m_ri + 1) % m_size) + i - 1) % m_size = (m_ri + (i + 1) - 1) % m_size
                      /\ (m_ri + (i + 1) - 1) % m_size # m_ri
                      /\ (m_ri + (i + 1) - 1) % m_size \in Slot
    OBVIOUS
  <2> DEFINE ri2 == (m_ri + 1) % m_size
  <2>1. i \in 0 .. m_size /\ i - 1 \in 0 .. m_size /\ i \in 1 .. m_size - 1
    BY <1>0
  <2>2. ri2 = IF m_ri + 1 < m_size THEN m_ri + 1 ELSE m_ri + 1 - m_size
    BY ZenonT(60), <1>0, WrapNext
  <2>3. ri2 \in 0 .. m_size - 1
    BY <2>2, <1>0
  <2>4. (m_ri + i) % m_size = IF m_ri + i < m_size THEN m_ri + i ELSE m_ri + i - m_size
    BY ZenonT(60), <1>0, <2>1, WrapAround
  <2> HIDE DEF ri2
  <2>5. (ri2 + (i - 1)) % m_size
          = IF ri2 + (i - 1) < m_size THEN ri2 + (i - 1) ELSE ri2 + (i - 1) - m_size
    BY ZenonT(60), <1>0, <2>1, <2>3, WrapAround
  <2>6. (ri2 + (i - 1)) % m_size = (m_ri + i) % m_size
    BY <1>0, <2>1, <2>2, <2>4, <2>5
  <2>7. ri2 + i - 1 = ri2 + (i - 1) /\ m_ri + (i + 1) - 1 = m_ri + i
    BY <1>0, <2>1, <2>3
  <2>8. (m_ri + i) % m_size # m_ri /\ (m_ri + i) % m_size \in Slot
    BY <1>0, <2>1, <2>4 DEF Slot
  <2> QED BY <2>6, <2>7, <2>8 DEF ri2
<1>4. FifoTypeOK'
  <2>1. m_buf' \in [Slot -> FifoPacket \cup {T0}]
    BY <1>0 DEF FifoTypeOK, buf_read
  <2>2. output' \in Seq(FifoPacket)
    BY <1>2 DEF FifoTypeOK
  <2> QED BY <1>0, <1>1, <2>1, <2>2 DEF FifoTypeOK, buf_read
<1>5. SlotsAccounted' /\ NoLostWakeup' /\ AssertsHold'
  BY <1>0 DEF SlotsAccounted, NoLostWakeup, AssertsHold, num_available, num_free, buf_read
<1>6. Ring'
  <2>1. m_wi' = (m_ri' + (m_size - m_free')) % m_size
    <3> DEFINE ri2 == (m_ri + 1) % m_size  k == m_size - m_free
    <3>1. k \in 0 .. m_size /\ k >= 1 /\ k - 1 \in 0 .. m_size
      BY <1>0
    <3>2. ri2 = IF m_ri + 1 < m_size THEN m_ri + 1 ELSE m_ri + 1 - m_size
      BY ZenonT(60), <1>0, WrapNext
    <3>3. ri2 \in 0 .. m_size - 1
      BY <3>2, <1>0
    <3> HIDE DEF ri2, k
    <3>4. (m_ri + k) % m_size = IF m_ri + k < m_size THEN m_ri + k ELSE m_ri + k - m_size
      BY ZenonT(60), <1>0, <3>1, WrapAround
    <3>5. (ri2 + (k - 1)) % m_size
            = IF ri2 + (k - 1) < m_size THEN ri2 + (k - 1) ELSE ri2 + (k - 1) - m_size
      BY ZenonT(60), <1>0, <3>1, <3>3, WrapAround
    <3>6. (ri2 + (k - 1)) % m_size = (m_ri + k) % m_size
      BY <1>0, <3>1, <3>2, <3>4, <3>5
    <3>7. m_ri' = ri2 /\ m_size - m_free' = k - 1 /\ m_wi' = m_wi
      BY <1>0 DEF buf_read, ri2, k
    <3> QED BY <3>6, <3>7 DEF Ring, k
  <2>2. ASSUME NEW i \in 1 .. m_size - m_free'
        PROVE  m_buf'[(m_ri' + i - 1) % m_size] \in FifoPacket
    <3>1. i \in 1 .. m_size - m_free - 1 /\ i + 1 \in 1 .. m_size - m_free
      BY <1>0 DEF buf_read
    <3>2. m_buf'[(m_ri + (i + 1) - 1) % m_size] = m_buf[(m_ri + (i + 1) - 1) % m_size]
      BY <1>3, <3>1 DEF buf_read, FifoTypeOK
    <3> QED BY ZenonT(60), <1>3, <3>1, <3>2 DEF Ring, buf_read
  <2> QED BY ZenonT(60), <2>1, <2>2 DEF Ring
<1>7. Abstract!Get
  <2>1. contents # << >> /\ Head(contents) = m_buf[m_ri] /\ Len(contents) = m_size - m_free
    <3>1. Len(contents) = m_size - m_free /\ 1 \in 1 .. m_size - m_free
      BY <1>0 DEF contents
    <3>2. contents[1] = m_buf[m_ri]
      <4>1. m_ri + 1 - 1 = m_ri
        BY <1>0
      <4> QED BY <4>1, <3>1, <1>1 DEF contents
    <3>3. contents \in Seq(FifoPacket)
      BY <1>0 DEF contents, Ring
    <3> QED BY <3>1, <3>2, <3>3, <1>0
  <2>2. contents' = Tail(contents)
    <3>1. contents \in Seq(FifoPacket) /\ contents' \in Seq(FifoPacket)
      <4>1. contents \in Seq(FifoPacket)
        BY <1>0 DEF contents, Ring
      <4>2. m_size - m_free' \in Nat
        BY <1>0 DEF buf_read
      <4>3. contents' \in [1 .. m_size - m_free' -> FifoPacket]
        BY ZenonT(60), <1>6 DEF contents, Ring
      <4> QED BY ZenonT(60), <4>1, <4>2, <4>3, FunctionIsSeq
    <3>2. /\ Tail(contents) \in Seq(FifoPacket) /\ Len(Tail(contents)) = Len(contents) - 1
          /\ \A i \in 1 .. Len(Tail(contents)) : Tail(contents)[i] = contents[i + 1]
      BY ZenonT(60), <2>1, <3>1, HeadTailProperties
    <3>3. Len(contents') = Len(contents) - 1 /\ Len(contents) = m_size - m_free
      BY <2>1, <1>0 DEF buf_read, contents
    <3>4. ASSUME NEW i \in 1 .. Len(contents')
          PROVE  contents'[i] = Tail(contents)[i]
      <4>1. i \in 1 .. m_size - m_free - 1 /\ i + 1 \in 1 .. m_size - m_free /\ i \in 1 .. m_size - m_free'
        BY <3>3, <1>0 DEF buf_read
      <4>2. m_buf'[(m_ri + (i + 1) - 1) % m_size] = m_buf[(m_ri + (i + 1) - 1) % m_size]
        BY ZenonT(60), <1>3, <4>1 DEF buf_read, FifoTypeOK
      <4>3. contents'[i] = contents[i + 1]
        BY ZenonT(60), <1>3, <4>1, <4>2 DEF contents, buf_read
      <4> QED BY <3>2, <3>3, <4>3
    <3> HIDE DEF contents
    <3> QED BY ZenonT(60), <3>1, <3>2, <3>3, <3>4, SeqEqual
  <2> QED BY <2>1, <2>2 DEF Abstract!Get
<1> QED BY <1>4, <1>5, <1>6, <1>7 DEF FifoInv

\* A value is written into the slot at m_wi, the first free one.
LEMMA WriteStep ==
    ASSUME FifoInv, written < maxWrites, num_free # 0, m_free # 0, buf_write(written + 1),
           m_num_written' = m_num_written + 1, written' = written + 1,
           UNCHANGED <<m_num_readable, m_num_read, state, output, assertFailed>>
    PROVE  FifoInv' /\ Abstract!Put(written + 1) /\ written + 1 \in FifoPacket
<1> USE SizeAssumption, ProcessAssumption DEF FifoInv
<1> DEFINE k == m_size - m_free
<1>0. /\ m_free \in 1 .. m_size /\ m_ri \in 0 .. m_size - 1 /\ m_wi \in 0 .. m_size - 1
      /\ m_num_readable \in 0 .. m_size /\ m_num_read \in Nat /\ m_num_written \in Nat
      /\ m_size \in Nat \ {0} /\ written + 1 \in FifoPacket /\ written + 1 \in 0 .. maxWrites
      /\ k \in 0 .. m_size /\ k < m_size /\ m_size - m_free' = k + 1
  BY DEF FifoTypeOK, Slot, FifoPacket, buf_write
<1>1. m_wi = (m_ri + k) % m_size
  BY DEF Ring
<1> HIDE DEF k
<1>2. m_wi = IF m_ri + k < m_size THEN m_ri + k ELSE m_ri + k - m_size
  BY <1>0, <1>1, WrapAround
<1>3. (m_wi + 1) % m_size = IF m_wi + 1 < m_size THEN m_wi + 1 ELSE m_wi + 1 - m_size
  BY ZenonT(60), <1>0, WrapNext
<1>4. FifoTypeOK'
  <2>1. m_buf' \in [Slot -> FifoPacket \cup {T0}]
    BY <1>0 DEF FifoTypeOK, buf_write
  <2>2. m_wi' \in Slot /\ m_free' \in 0 .. m_size
    BY <1>0, <1>3 DEF Slot, buf_write
  <2> QED BY <1>0, <2>1, <2>2 DEF FifoTypeOK, buf_write
<1>5. SlotsAccounted' /\ NoLostWakeup' /\ AssertsHold'
  BY <1>0 DEF SlotsAccounted, NoLostWakeup, AssertsHold, num_available, num_free, buf_write, FifoTypeOK
<1>6. \A i \in 1 .. k : (m_ri + i - 1) % m_size # m_wi /\ (m_ri + i - 1) % m_size \in Slot
  <2> SUFFICES ASSUME NEW i \in 1 .. k
               PROVE  (m_ri + i - 1) % m_size # m_wi /\ (m_ri + i - 1) % m_size \in Slot
    OBVIOUS
  <2> DEFINE j == i - 1
  <2>1. j \in 0 .. m_size /\ j < k /\ m_ri + i - 1 = m_ri + j
    BY <1>0
  <2> HIDE DEF j
  <2>2. (m_ri + j) % m_size = IF m_ri + j < m_size THEN m_ri + j ELSE m_ri + j - m_size
    BY ZenonT(60), <1>0, <2>1, WrapAround
  <2> QED BY <1>0, <1>2, <2>1, <2>2 DEF Slot
<1>7. \A i \in 1 .. k : m_buf'[(m_ri + i - 1) % m_size] = m_buf[(m_ri + i - 1) % m_size]
  BY <1>6 DEF buf_write, FifoTypeOK
<1>8. m_buf'[(m_ri + (k + 1) - 1) % m_size] = written + 1
  <2>1. m_ri + (k + 1) - 1 = m_ri + k
    BY <1>0
  <2> QED BY <2>1, <1>0, <1>1 DEF buf_write, FifoTypeOK
<1>9. Ring'
  <2>1. m_wi' = (m_ri' + (m_size - m_free')) % m_size
    <3> DEFINE n == k + 1
    <3>1. n \in 0 .. m_size /\ n = k + 1
      BY <1>0
    <3> HIDE DEF n
    <3>2. (m_ri + n) % m_size = IF m_ri + n < m_size THEN m_ri + n ELSE m_ri + n - m_size
      BY ZenonT(60), <1>0, <3>1, WrapAround
    <3>3. (m_ri + n) % m_size = (m_wi + 1) % m_size
      BY <1>0, <1>2, <1>3, <3>1, <3>2
    <3> QED BY <1>0, <3>1, <3>3 DEF buf_write
  <2>2. ASSUME NEW i \in 1 .. m_size - m_free'
        PROVE  m_buf'[(m_ri' + i - 1) % m_size] \in FifoPacket
    <3>1. i \in 1 .. k \/ i = k + 1
      BY <1>0
    <3>2. CASE i \in 1 .. k
      BY ZenonT(60), <3>2, <1>7 DEF Ring, k, buf_write
    <3>3. CASE i = k + 1
      BY <3>3, <1>8, <1>0 DEF buf_write
    <3> QED BY ZenonT(60), <3>1, <3>2, <3>3
  <2> QED BY <2>1, <2>2 DEF Ring
<1>10. Abstract!Put(written + 1)
  <2>1. contents \in Seq(FifoPacket) /\ Len(contents) = k
    BY <1>0 DEF contents, Ring, k
  <2>2. contents' \in Seq(FifoPacket) /\ Len(contents') = k + 1
    <3>1. m_size - m_free' \in Nat
      BY <1>0
    <3> QED BY SMTT(30), <1>0, <1>9, <3>1 DEF contents, Ring
  <2>3. \A i \in 1 .. k : contents'[i] = contents[i]
    BY <1>0, <1>7 DEF contents, k, buf_write
  <2>4. contents'[k + 1] = written + 1
    BY <1>0, <1>8 DEF contents, buf_write
  <2> HIDE DEF contents
  <2>5. contents' = Append(contents, written + 1)
    <3> DEFINE t == Append(contents, written + 1)
    <3>1. /\ t \in Seq(FifoPacket) /\ Len(t) = k + 1 /\ t[k + 1] = written + 1
          /\ \A i \in 1 .. k : t[i] = contents[i]
      BY <1>0, <2>1
    <3> HIDE DEF t
    <3>2. ASSUME NEW i \in 1 .. Len(contents') PROVE contents'[i] = t[i]
      <4>1. i \in 1 .. k \/ i = k + 1
        BY <2>2, <1>0
      <4> QED BY ZenonT(60), <4>1, <2>3, <2>4, <3>1
    <3> QED BY ZenonT(60), <2>2, <3>1, <3>2, SeqEqual DEF t
  <2> QED BY ZenonT(60), <1>0, <2>1, <2>5 DEF Abstract!Put
<1> QED BY ZenonT(60), <1>0, <1>4, <1>5, <1>9, <1>10 DEF FifoInv

\* The end of a delta cycle settles the counters and wakes whoever waits.
LEMMA UpdateStep ==
    ASSUME FifoInv, NEW timeouts, update(timeouts)
    PROVE  FifoInv' /\ UNCHANGED <<contents, output>>
<1> USE SizeAssumption DEF FifoInv
<1>1. FifoTypeOK'
  <2>1. state' \in [Process -> {"ready", "wait", "idle"}]
    BY DEF update, FifoTypeOK
  <2> QED BY <2>1 DEF update, settle, bufVars, FifoTypeOK
<1>2. SlotsAccounted' /\ AssertsHold'
  BY DEF update, settle, bufVars, FifoTypeOK, SlotsAccounted, AssertsHold
<1>3. NoLostWakeup'
  <2>1. ASSUME NEW r \in Reader, state'[r] = "wait" PROVE num_available' = 0
    <3>1. state[r] = "wait" /\ ~ (m_num_written > 0)
      BY <2>1 DEF update, notified, Process
    <3>2. num_available = 0
      BY <3>1 DEF NoLostWakeup
    <3> QED BY <3>1, <3>2 DEF update, settle, num_available, SlotsAccounted, FifoTypeOK
  <2>2. ASSUME NEW w \in Writer, state'[w] = "wait" PROVE num_free' = 0
    <3>1. state[w] = "wait" /\ ~ (m_num_read > 0)
      BY <2>2 DEF update, notified, Process
    <3>2. num_free = 0
      BY <3>1 DEF NoLostWakeup
    <3> QED BY <3>1, <3>2 DEF update, settle, num_free, SlotsAccounted, FifoTypeOK
  <2> QED BY ZenonT(60), <2>1, <2>2 DEF NoLostWakeup
<1>4. Ring' /\ UNCHANGED <<contents, output>>
  BY DEF update, bufVars, Ring, contents
<1> QED BY ZenonT(60), <1>1, <1>2, <1>3, <1>4 DEF FifoInv

\* A process waits or pauses: only its state changes.
LEMMA StateStep ==
    ASSUME FifoInv, NEW p \in Process, NEW x \in {"wait", "idle"},
           p \in Reader /\ x = "wait" => num_available = 0,
           p \in Writer /\ x = "wait" => num_free = 0,
           state' = [state EXCEPT ![p] = x],
           UNCHANGED <<bufVars, deltaVars, written, output, assertFailed>>
    PROVE  FifoInv' /\ UNCHANGED <<contents, output>>
<1> USE DEF FifoInv, bufVars, deltaVars
<1>1. state' \in [Process -> {"ready", "wait", "idle"}]
  BY DEF FifoTypeOK
<1>2. FifoTypeOK'
  BY ZenonT(60), <1>1 DEF FifoTypeOK
<1>3. SlotsAccounted' /\ AssertsHold' /\ Ring' /\ UNCHANGED <<contents, output>>
  BY DEF SlotsAccounted, AssertsHold, Ring, contents
<1>4. \A q \in Process : state'[q] = "wait" => state[q] = "wait" \/ (q = p /\ x = "wait")
  <2>1. \A q \in Process : state'[q] = IF q = p THEN x ELSE state[q]
    BY DEF FifoTypeOK
  <2> QED BY <2>1
<1>5. NoLostWakeup'
  BY <1>4, ProcessAssumption DEF NoLostWakeup, Process, num_available, num_free
<1> QED BY <1>2, <1>3, <1>5 DEF FifoInv

\* Every step of the fifo keeps the invariant, and is a step of the bounded
\* fifo or leaves what its users see unchanged.
LEMMA NextStep ==
    ASSUME FifoInv, [FifoNext]_fifoVars
    PROVE  FifoInv' /\ [Abstract!FifoNext]_<<contents, output>>
<1>1. ASSUME NEW r \in Reader, read(r) PROVE FifoInv' /\ [Abstract!FifoNext]_<<contents, output>>
  <2>1. CASE num_available = 0
    <3>1. FifoInv' /\ UNCHANGED <<contents, output>>
      <4>1. wait(r) /\ r \in Process /\ r \notin Writer
        BY <1>1, <2>1, ProcessAssumption DEF read, Process
      <4> QED BY ZenonT(60), <4>1, <2>1, StateStep DEF wait
    <3> QED BY <3>1
  <2>2. CASE num_available # 0
    <3>1. m_free # m_size
      BY <2>2, SizeAssumption DEF FifoInv, SlotsAccounted, num_available, FifoTypeOK
    <3>2. FifoInv' /\ Abstract!Get
      BY <1>1, <2>2, <3>1, ReadStep DEF read
    <3> QED BY <3>2 DEF Abstract!FifoNext
  <2> QED BY <2>1, <2>2
<1>2. ASSUME NEW w \in Writer, write(w) PROVE FifoInv' /\ [Abstract!FifoNext]_<<contents, output>>
  <2>1. CASE num_free = 0
    <3>1. FifoInv' /\ UNCHANGED <<contents, output>>
      <4>1. wait(w) /\ w \in Process /\ w \notin Reader
        BY <1>2, <2>1, ProcessAssumption DEF write, Process
      <4> QED BY ZenonT(60), <4>1, <2>1, StateStep DEF wait
    <3> QED BY <3>1
  <2>2. CASE num_free # 0
    <3>1. m_free # 0
      BY <2>2, SizeAssumption DEF FifoInv, SlotsAccounted, num_free, FifoTypeOK
    <3>2. FifoInv' /\ Abstract!Put(written + 1) /\ written + 1 \in FifoPacket
      BY <1>2, <2>2, <3>1, WriteStep DEF write
    <3> QED BY <3>2 DEF Abstract!FifoNext
  <2> QED BY <2>1, <2>2
<1>3. ASSUME NEW w \in Writer, pause(w) PROVE FifoInv' /\ [Abstract!FifoNext]_<<contents, output>>
  <2>1. FifoInv' /\ UNCHANGED <<contents, output>>
    BY ZenonT(60), <1>3, StateStep DEF pause, Process
  <2> QED BY <2>1
<1>4. ASSUME NEW timeouts \in SUBSET Writer, update(timeouts)
      PROVE  FifoInv' /\ [Abstract!FifoNext]_<<contents, output>>
  BY <1>4, UpdateStep
<1>5. CASE UNCHANGED fifoVars
  <2> USE <1>5 DEF fifoVars, bufVars, deltaVars
  <2>1. FifoTypeOK' /\ SlotsAccounted' /\ AssertsHold' /\ Ring' /\ UNCHANGED <<contents, output>>
    BY DEF FifoInv, FifoTypeOK, SlotsAccounted, AssertsHold, Ring, contents
  <2>2. NoLostWakeup'
    BY DEF FifoInv, NoLostWakeup, num_available, num_free
  <2> QED BY ZenonT(60), <2>1, <2>2 DEF FifoInv
<1> QED BY <1>1, <1>2, <1>3, <1>4, <1>5 DEF FifoNext

LEMMA InvariantHolds == FifoSpec => []FifoInv
<1>1. FifoInit => FifoInv
  BY InitFifoInv
<1>2. FifoInv /\ [FifoNext]_fifoVars => FifoInv'
  BY NextStep
<1> QED BY <1>1, <1>2, PTL DEF FifoSpec

\* The counters of sc_fifo account for every slot at every moment of a delta
\* cycle, for every size of the buffer and any number of processes.
THEOREM SlotsAccountedAlways == FifoSpec => [](FifoTypeOK /\ SlotsAccounted)
<1>1. FifoInv => FifoTypeOK /\ SlotsAccounted
  BY DEF FifoInv
<1> QED BY <1>1, InvariantHolds, PTL

\* No process of sc_fifo waits for what is already there: update() loses no
\* wake-up, however many processes share the fifo.
THEOREM NoWakeupIsLost == FifoSpec => []NoLostWakeup
<1>1. FifoInv => NoLostWakeup
  BY DEF FifoInv
<1> QED BY <1>1, InvariantHolds, PTL

\* The sc_asserts of read() and write() never fail.
THEOREM AssertsNeverFail == FifoSpec => []AssertsHold
<1>1. FifoInv => AssertsHold
  BY DEF FifoInv
<1> QED BY <1>1, InvariantHolds, PTL

\* The ring buffer of sc_fifo implements the bounded fifo: packets come out
\* once each, in the order they were written.
THEOREM RingImplementsFifo == FifoSpec => ImplementsFifo
<1>1. FifoInit => Abstract!FifoInit
  <2> SUFFICES ASSUME FifoInit PROVE Abstract!FifoInit
    OBVIOUS
  <2>1. m_size - m_free = 0
    BY SizeAssumption DEF FifoInit
  <2> QED BY <2>1 DEF FifoInit, contents, Abstract!FifoInit
<1>2. FifoInv /\ [FifoNext]_fifoVars => [Abstract!FifoNext]_<<contents, output>>
  BY NextStep
<1> QED
  BY <1>1, <1>2, InvariantHolds, PTL DEF FifoSpec, ImplementsFifo, Abstract!FifoSpec, Abstract!fifoVars

===============================================================================
