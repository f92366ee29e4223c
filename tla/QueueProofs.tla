----------------------------- MODULE QueueProofs ------------------------------
(***************************************************************************)
(* Every method of the queue object (module Queue) preserves QInv: the     *)
(* lists, flags and counters stay consistent.  One lemma per method, which *)
(* also says what the method does to the sets of allocated, pending and    *)
(* in-service entries; a component that calls several methods in one step  *)
(* chains the lemmas.  They rest on lemmas about the list operations, for  *)
(* lists without duplicates over any set.                                  *)
(***************************************************************************)
EXTENDS Queue, SequenceTheorems, WellFoundedInduction, TLAPS

\* A nonempty set of natural numbers has a least element.
LEMMA LeastNat ==
    ASSUME NEW T \in SUBSET Nat, T # {}
    PROVE  \E x \in T : \A y \in T : x <= y
<1>1. PICK x \in T : \A y \in T : ~ (<<y, x>> \in OpToRel(<, Nat))
    BY ZenonT(60), WFMin, NatLessThanWellFounded
<1>2. \A y \in T : x <= y
    <2>1. TAKE y \in T
    <2>2. x \in Nat /\ y \in Nat
        OBVIOUS
    <2>3. ~ (y < x)
        BY ZenonT(60), <1>1, <2>2 DEF OpToRel
    <2>4. QED
        BY <2>2, <2>3
<1>3. QED
    BY <1>2

\* The shape of a list after eraseAt (std::list::erase).
LEMMA EraseAtShape ==
    ASSUME NEW S, NEW s \in Seq(S), NEW k \in 1 .. Len(s)
    PROVE  /\ eraseAt(s, k) \in Seq(S)
           /\ Len(eraseAt(s, k)) = Len(s) - 1
           /\ \A i \in 1 .. Len(s) - 1 :
                 eraseAt(s, k)[i] = IF i < k THEN s[i] ELSE s[i + 1]
<1> DEFINE a == SubSeq(s, 1, k - 1)
           b == SubSeq(s, k + 1, Len(s))
<1>1. Len(s) \in Nat /\ \A i \in 1 .. Len(s) : s[i] \in S
    BY LenProperties, ElementOfSeq
<1>2. a \in Seq(S) /\ Len(a) = k - 1 /\ \A i \in 1 .. k - 1 : a[i] = s[i]
    <2>1. \A i \in 1 .. k - 1 : s[i] \in S
        BY <1>1
    <2>2. /\ a \in Seq(S)
          /\ Len(a) = IF 1 <= k - 1 THEN (k - 1) - 1 + 1 ELSE 0
          /\ \A i \in 1 .. (k - 1) - 1 + 1 : a[i] = s[1 + i - 1]
        BY <2>1, <1>1, SubSeqProperties
    <2>3. QED
        BY <2>2, <1>1
<1>3. /\ b \in Seq(S)
      /\ Len(b) = Len(s) - k
      /\ \A i \in 1 .. Len(s) - k : b[i] = s[k + i]
    <2>1. \A i \in k + 1 .. Len(s) : s[i] \in S
        BY <1>1
    <2>2. /\ b \in Seq(S)
          /\ Len(b) = IF k + 1 <= Len(s) THEN Len(s) - (k + 1) + 1 ELSE 0
          /\ \A i \in 1 .. Len(s) - (k + 1) + 1 : b[i] = s[(k + 1) + i - 1]
        BY <2>1, <1>1, SubSeqProperties
    <2>3. QED
        BY <2>2, <1>1
<1>4. eraseAt(s, k) = a \o b
    BY DEF eraseAt
<1> HIDE DEF a, b
<1>5. /\ a \o b \in Seq(S)
      /\ Len(a \o b) = Len(a) + Len(b)
      /\ \A i \in 1 .. Len(a) + Len(b) :
            (a \o b)[i] = IF i <= Len(a) THEN a[i] ELSE b[i - Len(a)]
    BY ZenonT(60), <1>2, <1>3, ConcatProperties
<1>6. ASSUME NEW i \in 1 .. Len(s) - 1
      PROVE  eraseAt(s, k)[i] = IF i < k THEN s[i] ELSE s[i + 1]
    BY <1>1, <1>2, <1>3, <1>4, <1>5
<1>7. QED
    BY <1>1, <1>2, <1>3, <1>4, <1>5, <1>6

\* The shape of a list after insertAt (std::list::insert).
LEMMA InsertAtShape ==
    ASSUME NEW S, NEW s \in Seq(S), NEW k \in 1 .. Len(s) + 1, NEW e \in S
    PROVE  /\ insertAt(s, k, e) \in Seq(S)
           /\ Len(insertAt(s, k, e)) = Len(s) + 1
           /\ \A i \in 1 .. Len(s) + 1 :
                 insertAt(s, k, e)[i] = IF i < k THEN s[i]
                                        ELSE IF i = k THEN e ELSE s[i - 1]
<1> DEFINE a == SubSeq(s, 1, k - 1)
           b == SubSeq(s, k, Len(s))
           c == a \o <<e>>
<1>1. Len(s) \in Nat /\ \A i \in 1 .. Len(s) : s[i] \in S
    BY LenProperties, ElementOfSeq
<1>2. a \in Seq(S) /\ Len(a) = k - 1 /\ \A i \in 1 .. k - 1 : a[i] = s[i]
    <2>1. \A i \in 1 .. k - 1 : s[i] \in S
        BY <1>1
    <2>2. /\ a \in Seq(S)
          /\ Len(a) = IF 1 <= k - 1 THEN (k - 1) - 1 + 1 ELSE 0
          /\ \A i \in 1 .. (k - 1) - 1 + 1 : a[i] = s[1 + i - 1]
        BY <2>1, <1>1, SubSeqProperties
    <2>3. QED
        BY <2>2, <1>1
<1>3. /\ b \in Seq(S)
      /\ Len(b) = Len(s) - k + 1
      /\ \A i \in 1 .. Len(s) - k + 1 : b[i] = s[k + i - 1]
    <2>1. \A i \in k .. Len(s) : s[i] \in S
        BY <1>1
    <2>2. /\ b \in Seq(S)
          /\ Len(b) = IF k <= Len(s) THEN Len(s) - k + 1 ELSE 0
          /\ \A i \in 1 .. Len(s) - k + 1 : b[i] = s[k + i - 1]
        BY <2>1, <1>1, SubSeqProperties
    <2>3. QED
        BY <2>2, <1>1
<1>4. insertAt(s, k, e) = c \o b
    BY DEF insertAt
<1>5. /\ c \in Seq(S)
      /\ Len(c) = k
      /\ \A i \in 1 .. k : c[i] = IF i < k THEN s[i] ELSE e
    <2> HIDE DEF a
    <2>1. <<e>> \in Seq(S) /\ Len(<<e>>) = 1 /\ <<e>>[1] = e
        OBVIOUS
    <2>2. /\ c \in Seq(S)
          /\ Len(c) = Len(a) + Len(<<e>>)
          /\ \A i \in 1 .. Len(a) + Len(<<e>>) :
                c[i] = IF i <= Len(a) THEN a[i] ELSE <<e>>[i - Len(a)]
        BY <1>2, <2>1, ConcatProperties
    <2>3. QED
        BY <2>1, <2>2, <1>1, <1>2
<1> HIDE DEF a, b, c
<1>6. /\ c \o b \in Seq(S)
      /\ Len(c \o b) = Len(c) + Len(b)
      /\ \A i \in 1 .. Len(c) + Len(b) :
            (c \o b)[i] = IF i <= Len(c) THEN c[i] ELSE b[i - Len(c)]
    BY <1>3, <1>5, ConcatProperties
<1>7. ASSUME NEW i \in 1 .. Len(s) + 1
      PROVE  insertAt(s, k, e)[i] = IF i < k THEN s[i]
                                    ELSE IF i = k THEN e ELSE s[i - 1]
    BY <1>1, <1>3, <1>4, <1>5, <1>6
<1>8. QED
    BY <1>1, <1>3, <1>4, <1>5, <1>6, <1>7

\* Range and IsInjective of a list, in terms of its places.
LEMMA ListFacts ==
    ASSUME NEW S, NEW s \in Seq(S)
    PROVE  /\ Len(s) \in Nat
           /\ \A i \in 1 .. Len(s) : s[i] \in S
           /\ \A x : x \in Range(s) <=> \E i \in 1 .. Len(s) : s[i] = x
           /\ IsInjective(s) <=>
                 \A i, j \in 1 .. Len(s) : s[i] = s[j] => i = j
<1>1. Len(s) \in Nat /\ DOMAIN s = 1 .. Len(s)
    BY LenProperties
<1>2. \A i \in 1 .. Len(s) : s[i] \in S
    BY ElementOfSeq
<1>3. QED
    BY <1>1, <1>2 DEF Range, IsInjective

\* The place IndexOf finds.
LEMMA IndexOfProps ==
    ASSUME NEW S, NEW s \in Seq(S), NEW e \in Range(s)
    PROVE  IndexOf(s, e) \in 1 .. Len(s) /\ s[IndexOf(s, e)] = e
<1>1. \E i \in 1 .. Len(s) : s[i] = e
    BY ListFacts
<1>2. QED
    BY <1>1 DEF IndexOf

\* Erasing an element of a list without duplicates removes just that element.
LEMMA EraseProps ==
    ASSUME NEW S, NEW s \in Seq(S), IsInjective(s), NEW e \in Range(s)
    PROVE  /\ erase(s, e) \in Seq(S)
           /\ Len(erase(s, e)) = Len(s) - 1
           /\ IsInjective(erase(s, e))
           /\ Range(erase(s, e)) = Range(s) \ {e}
<1> DEFINE k == IndexOf(s, e)
           r == erase(s, e)
<1>1. k \in 1 .. Len(s) /\ s[k] = e
    BY IndexOfProps
<1>2. /\ Len(s) \in Nat
      /\ \A x : x \in Range(s) <=> \E i \in 1 .. Len(s) : s[i] = x
      /\ \A i, j \in 1 .. Len(s) : s[i] = s[j] => i = j
    BY ListFacts
<1> HIDE DEF k
<1>3. /\ r \in Seq(S)
      /\ Len(r) = Len(s) - 1
      /\ \A i \in 1 .. Len(s) - 1 : r[i] = IF i < k THEN s[i] ELSE s[i + 1]
    BY ZenonT(60), <1>1, EraseAtShape DEF erase, k
<1> HIDE DEF r
<1>4. /\ \A x : x \in Range(r) <=> \E i \in 1 .. Len(r) : r[i] = x
      /\ IsInjective(r) <=> \A i, j \in 1 .. Len(r) : r[i] = r[j] => i = j
    BY <1>3, ListFacts
<1>5. IsInjective(r)
    <2>1. SUFFICES ASSUME NEW i \in 1 .. Len(r), NEW j \in 1 .. Len(r), r[i] = r[j]
                   PROVE  i = j
        BY <1>4
    <2>2. QED
        BY <2>1, <1>1, <1>2, <1>3
<1>6. ASSUME NEW x \in Range(r) PROVE x \in Range(s) \ {e}
    <2>1. PICK i \in 1 .. Len(r) : r[i] = x
        BY <1>4
    <2>2. QED
        BY <2>1, <1>1, <1>2, <1>3
<1>7. ASSUME NEW x \in Range(s) \ {e} PROVE x \in Range(r)
    <2>1. PICK i \in 1 .. Len(s) : s[i] = x
        BY <1>2
    <2>2. CASE i < k
        BY <2>1, <2>2, <1>1, <1>2, <1>3, <1>4
    <2>3. CASE i > k
        <3>1. i - 1 \in 1 .. Len(r) /\ r[i - 1] = x
            BY <2>1, <2>3, <1>1, <1>2, <1>3
        <3>2. QED
            BY <3>1, <1>4
    <2>4. i # k
        BY <2>1, <1>1
    <2>5. QED
        BY <2>2, <2>3, <2>4, <1>1, <1>2
<1>8. QED
    BY <1>3, <1>5, <1>6, <1>7 DEF r

\* Inserting a new element, anywhere, adds just that element.
LEMMA InsertProps ==
    ASSUME NEW S, NEW s \in Seq(S), IsInjective(s),
           NEW k \in 1 .. Len(s) + 1, NEW e \in S, e \notin Range(s)
    PROVE  /\ insertAt(s, k, e) \in Seq(S)
           /\ Len(insertAt(s, k, e)) = Len(s) + 1
           /\ IsInjective(insertAt(s, k, e))
           /\ Range(insertAt(s, k, e)) = Range(s) \cup {e}
<1> DEFINE r == insertAt(s, k, e)
<1>2. /\ Len(s) \in Nat
      /\ \A x : x \in Range(s) <=> \E i \in 1 .. Len(s) : s[i] = x
      /\ \A i, j \in 1 .. Len(s) : s[i] = s[j] => i = j
      /\ \A i \in 1 .. Len(s) : s[i] # e
    BY ListFacts
<1>3. /\ r \in Seq(S)
      /\ Len(r) = Len(s) + 1
      /\ \A i \in 1 .. Len(s) + 1 : r[i] = IF i < k THEN s[i]
                                            ELSE IF i = k THEN e ELSE s[i - 1]
    BY InsertAtShape
<1> HIDE DEF r
<1>4. /\ \A x : x \in Range(r) <=> \E i \in 1 .. Len(r) : r[i] = x
      /\ IsInjective(r) <=> \A i, j \in 1 .. Len(r) : r[i] = r[j] => i = j
    BY SMTT(30), <1>3, ListFacts
<1>5. IsInjective(r)
    <2>1. SUFFICES ASSUME NEW i \in 1 .. Len(r), NEW j \in 1 .. Len(r), r[i] = r[j]
                   PROVE  i = j
        BY <1>4
    <2> DEFINE p(n) == IF n < k THEN n ELSE n - 1
    <2>2. \A n \in 1 .. Len(r) : n # k => p(n) \in 1 .. Len(s) /\ r[n] = s[p(n)]
        BY <1>2, <1>3
    <2>3. r[k] = e
        BY <1>2, <1>3
    <2>4. CASE i = k \/ j = k
        BY SMTT(30), <2>1, <2>2, <2>3, <2>4, <1>2
    <2>5. CASE i # k /\ j # k
        <3>1. p(i) = p(j)
            <4> HIDE DEF p
            <4>1. /\ p(i) \in 1 .. Len(s) /\ r[i] = s[p(i)]
                  /\ p(j) \in 1 .. Len(s) /\ r[j] = s[p(j)]
                BY <2>2, <2>5
            <4>2. QED
                BY ZenonT(60), <4>1, <2>1, <1>2
        <3>2. QED
            BY <3>1, <2>5, <1>2, <1>3
    <2>6. QED
        BY <2>4, <2>5
<1>6. ASSUME NEW x \in Range(r) PROVE x \in Range(s) \cup {e}
    <2>1. PICK i \in 1 .. Len(r) : r[i] = x
        BY <1>4
    <2>2. CASE i = k
        BY <2>1, <2>2, <1>2, <1>3
    <2>3. CASE i < k
        <3>1. i \in 1 .. Len(s) /\ s[i] = x
            BY <2>1, <2>3, <1>2, <1>3
        <3>2. QED
            BY <3>1, <1>2
    <2>4. CASE i > k
        <3>1. i - 1 \in 1 .. Len(s) /\ s[i - 1] = x
            BY <2>1, <2>4, <1>2, <1>3
        <3>2. QED
            BY <3>1, <1>2
    <2>5. QED
        BY <2>2, <2>3, <2>4, <1>2, <1>3
<1>7. ASSUME NEW x \in Range(s) PROVE x \in Range(r)
    <2>1. PICK i \in 1 .. Len(s) : s[i] = x
        BY <1>2
    <2>2. CASE i < k
        BY <2>1, <2>2, <1>2, <1>3, <1>4
    <2>3. CASE ~(i < k)
        <3>1. i + 1 \in 1 .. Len(r) /\ r[i + 1] = x
            BY <2>1, <2>3, <1>2, <1>3
        <3>2. QED
            BY <3>1, <1>4
    <2>4. QED
        BY <2>2, <2>3
<1>8. e \in Range(r)
    <2>1. k \in 1 .. Len(r) /\ r[k] = e
        BY <1>2, <1>3
    <2>2. QED
        BY <2>1, <1>4
<1>9. QED
    BY <1>3, <1>5, <1>6, <1>7, <1>8 DEF r

\* push_back and push_front are insertions at the two ends.
LEMMA EndsAreInsertions ==
    ASSUME NEW S, NEW s \in Seq(S), NEW e \in S
    PROVE  /\ Append(s, e) = insertAt(s, Len(s) + 1, e)
           /\ <<e>> \o s = insertAt(s, 1, e)
<1>1. Len(s) \in Nat
    BY LenProperties
<1>a. 1 \in 1 .. Len(s) + 1 /\ Len(s) + 1 \in 1 .. Len(s) + 1
    BY <1>1
<1>b. \A n \in 1 .. Len(s) + 1 :
         /\ insertAt(s, n, e) \in Seq(S)
         /\ Len(insertAt(s, n, e)) = Len(s) + 1
         /\ \A i \in 1 .. Len(s) + 1 :
               insertAt(s, n, e)[i] = IF i < n THEN s[i]
                                      ELSE IF i = n THEN e ELSE s[i - 1]
    BY InsertAtShape
<1>2. /\ insertAt(s, 1, e) \in Seq(S)
      /\ Len(insertAt(s, 1, e)) = Len(s) + 1
      /\ \A i \in 1 .. Len(s) + 1 :
            insertAt(s, 1, e)[i] = IF i = 1 THEN e ELSE s[i - 1]
    BY <1>1, <1>a, <1>b
<1>3. /\ insertAt(s, Len(s) + 1, e) \in Seq(S)
      /\ Len(insertAt(s, Len(s) + 1, e)) = Len(s) + 1
      /\ \A i \in 1 .. Len(s) + 1 :
            insertAt(s, Len(s) + 1, e)[i] = IF i < Len(s) + 1 THEN s[i] ELSE e
    BY <1>1, <1>a, <1>b
<1>4. /\ Append(s, e) \in Seq(S)
      /\ Len(Append(s, e)) = Len(s) + 1
      /\ \A i \in 1 .. Len(s) : Append(s, e)[i] = s[i]
      /\ Append(s, e)[Len(s) + 1] = e
    BY AppendProperties
<1>5. /\ <<e>> \o s \in Seq(S)
      /\ Len(<<e>> \o s) = Len(s) + 1
      /\ \A i \in 1 .. Len(s) + 1 :
            (<<e>> \o s)[i] = IF i = 1 THEN e ELSE s[i - 1]
    <2>1. <<e>> \in Seq(S) /\ Len(<<e>>) = 1 /\ <<e>>[1] = e
        OBVIOUS
    <2>2. /\ <<e>> \o s \in Seq(S)
          /\ Len(<<e>> \o s) = Len(<<e>>) + Len(s)
          /\ \A i \in 1 .. Len(<<e>>) + Len(s) :
                (<<e>> \o s)[i] = IF i <= Len(<<e>>) THEN <<e>>[i]
                                  ELSE s[i - Len(<<e>>)]
        BY <2>1, ConcatProperties
    <2>3. QED
        BY <2>1, <2>2, <1>1
<1>6. Append(s, e) = insertAt(s, Len(s) + 1, e)
    <2>1. \A i \in 1 .. Len(Append(s, e)) :
             Append(s, e)[i] = insertAt(s, Len(s) + 1, e)[i]
        BY <1>1, <1>3, <1>4
    <2>2. QED
        BY <2>1, <1>3, <1>4, SeqEqual
<1>7. <<e>> \o s = insertAt(s, 1, e)
    <2>1. \A i \in 1 .. Len(<<e>> \o s) : (<<e>> \o s)[i] = insertAt(s, 1, e)[i]
        BY <1>1, <1>2, <1>5
    <2>2. QED
        BY <2>1, <1>2, <1>5, SeqEqual
<1>8. QED
    BY <1>6, <1>7

\* Popping the free list.
LEMMA PopProps ==
    ASSUME NEW S, NEW s \in Seq(S), IsInjective(s), s # << >>
    PROVE  /\ Head(s) \in S /\ Head(s) \in Range(s)
           /\ Tail(s) \in Seq(S)
           /\ Len(Tail(s)) = Len(s) - 1
           /\ IsInjective(Tail(s))
           /\ Range(Tail(s)) = Range(s) \ {Head(s)}
<1> DEFINE r == Tail(s)
<1>1. /\ Len(s) \in Nat \ {0}
      /\ \A v : v \in Range(s) <=> \E i \in 1 .. Len(s) : s[i] = v
      /\ \A i, j \in 1 .. Len(s) : s[i] = s[j] => i = j
    BY ListFacts, EmptySeq
<1>2. /\ Head(s) \in S
      /\ r \in Seq(S)
      /\ Len(r) = Len(s) - 1
      /\ \A i \in 1 .. Len(r) : r[i] = s[i + 1]
    BY HeadTailProperties
<1>3. Head(s) = s[1]
    OBVIOUS
<1> HIDE DEF r
<1>4. /\ \A v : v \in Range(r) <=> \E i \in 1 .. Len(r) : r[i] = v
      /\ IsInjective(r) <=> \A i, j \in 1 .. Len(r) : r[i] = r[j] => i = j
    BY SMTT(30), <1>2, ListFacts
<1>5. Head(s) \in Range(s)
    BY <1>1, <1>3
<1>6. IsInjective(r)
    <2>1. SUFFICES ASSUME NEW i \in 1 .. Len(r), NEW j \in 1 .. Len(r), r[i] = r[j]
                   PROVE  i = j
        BY <1>4
    <2>2. i + 1 \in 1 .. Len(s) /\ j + 1 \in 1 .. Len(s) /\ s[i + 1] = s[j + 1]
        BY <2>1, <1>1, <1>2
    <2>3. QED
        BY <2>2, <1>1
<1>7. ASSUME NEW v \in Range(r) PROVE v \in Range(s) \ {Head(s)}
    <2>1. PICK i \in 1 .. Len(r) : r[i] = v
        BY <1>4
    <2>2. i + 1 \in 1 .. Len(s) /\ s[i + 1] = v /\ 1 \in 1 .. Len(s)
        BY <2>1, <1>1, <1>2
    <2>3. s[i + 1] # s[1]
        BY <2>2, <1>1
    <2>4. QED
        BY <2>2, <2>3, <1>1, <1>3
<1>8. ASSUME NEW v \in Range(s) \ {Head(s)} PROVE v \in Range(r)
    <2>1. PICK i \in 1 .. Len(s) : s[i] = v
        BY <1>1
    <2>2. i - 1 \in 1 .. Len(r) /\ r[i - 1] = v
        BY <2>1, <1>1, <1>2, <1>3
    <2>3. QED
        BY <2>2, <1>4
<1>9. QED
    BY <1>2, <1>5, <1>6, <1>7, <1>8 DEF r

\* r has the elements of s, without duplicates, and e.
Extends(r, s, S, e) ==
    /\ r \in Seq(S)
    /\ Len(r) = Len(s) + 1
    /\ IsInjective(r)
    /\ Range(r) = Range(s) \cup {e}

\* push_back and push_front add just the element.
LEMMA PushProps ==
    ASSUME NEW S, NEW s \in Seq(S), IsInjective(s), NEW e \in S, e \notin Range(s)
    PROVE  Extends(Append(s, e), s, S, e) /\ Extends(<<e>> \o s, s, S, e)
<1>1. \A n \in 1 .. Len(s) + 1 : Extends(insertAt(s, n, e), s, S, e)
    BY InsertProps DEF Extends
<1>2. 1 \in 1 .. Len(s) + 1 /\ Len(s) + 1 \in 1 .. Len(s) + 1
    BY LenProperties
<1>3. Append(s, e) = insertAt(s, Len(s) + 1, e) /\ <<e>> \o s = insertAt(s, 1, e)
    BY EndsAreInsertions
<1>4. QED
    BY ZenonT(60), <1>1, <1>2, <1>3

(***************************************************************************)
(* The methods keep the queue consistent                                   *)
(***************************************************************************)

QInv(x) ==
    /\ x \in QueueType
    /\ Partitioned(x)
    /\ ReadyExact(x)
    /\ Counted(x)
    /\ FreeIdle(x)

\* addToReadyList inserts the entry at some place and changes nothing else.
LEMMA AddToReadyListProps ==
    ASSUME NEW x \in QueueType, IsInjective(x.readyList),
           NEW e \in Entry, e \notin Range(x.readyList)
    PROVE  \E rl \in Seq(Entry) :
              /\ addToReadyList(x, e) = [x EXCEPT !.readyList = rl]
              /\ Len(rl) = Len(x.readyList) + 1
              /\ IsInjective(rl)
              /\ Range(rl) = Range(x.readyList) \cup {e}
<1> DEFINE r     == x.readyList
           later == {i \in 1 .. Len(r) : x.readyTime[r[i]] > x.readyTime[e]}
           first == CHOOSE i \in later : \A j \in later : i <= j
           atEnd == r = << >> \/ x.readyTime[r[Len(r)]] <= x.readyTime[e]
           k     == IF atEnd THEN Len(r) + 1 ELSE first
           rl    == insertAt(r, k, e)
<1>1. r \in Seq(Entry) /\ Len(r) \in Nat /\ (r # << >> => Len(r) \in 1 .. Len(r))
    <2>1. r \in Seq(Entry)
        BY DEF QueueType
    <2>2. Len(r) \in Nat /\ (r # << >> => Len(r) \in Nat \ {0})
        BY <2>1, LenProperties, EmptySeq
    <2>3. QED
        BY <2>1, <2>2
<1>2. ~atEnd => first \in later
    <2>1. SUFFICES ASSUME ~atEnd PROVE first \in later
        OBVIOUS
    <2>2. r[Len(r)] \in Entry
        BY <1>1, <2>1, ElementOfSeq
    <2>3. x.readyTime[r[Len(r)]] \in Nat /\ x.readyTime[e] \in Nat
        BY <2>2 DEF QueueType
    <2>4. Len(r) \in later
        BY <1>1, <2>1, <2>3
    <2>5. later \in SUBSET Nat /\ later # {}
        BY <1>1, <2>4
    <2>6. \E i \in later : \A j \in later : i <= j
        <3> HIDE DEF later
        <3> QED BY <2>5, LeastNat
    <2>7. QED
        <3> HIDE DEF later
        <3> QED BY <2>6
<1>3. k \in 1 .. Len(r) + 1
    <2>1. CASE atEnd
        BY <2>1, <1>1
    <2>2. CASE ~atEnd
        <3>1. first \in 1 .. Len(r)
            <4> HIDE DEF first
            <4> QED BY <1>2, <2>2
        <3>2. QED
            <4> HIDE DEF first
            <4> QED BY <3>1, <2>2, <1>1
    <2>3. QED
        BY <2>1, <2>2
<1>4. addToReadyList(x, e) = [x EXCEPT !.readyList = rl]
    <2>1. Append(r, e) = insertAt(r, Len(r) + 1, e)
        BY ZenonT(60), <1>1, EndsAreInsertions
    <2>2. QED
        BY <2>1 DEF addToReadyList
<1> HIDE DEF k
<1>5. /\ rl \in Seq(Entry)
      /\ Len(rl) = Len(r) + 1
      /\ IsInjective(rl)
      /\ Range(rl) = Range(r) \cup {e}
    BY <1>1, <1>3, InsertProps
<1>6. QED
    BY ZenonT(60), <1>4, <1>5

\* The facts about a consistent queue that the lemmas below start from.
LEMMA QInvTypes ==
    ASSUME NEW x, QInv(x)
    PROVE  /\ x \in QueueType
           /\ x.freeList \in Seq(Entry) /\ x.allocatedList \in Seq(Entry)
           /\ x.readyList \in Seq(Entry)
           /\ x.inService \in [Entry -> BOOLEAN] /\ x.readyTime \in [Entry -> Nat]
           /\ x.blkAddr \in [Entry -> Addr]
           /\ x.numInService \in Int /\ x.allocated \in Int
BY DEF QInv, QueueType

LEMMA QInvCounts ==
    ASSUME NEW x, QInv(x)
    PROVE  /\ x.numInService \in Int /\ x.allocated \in Int /\ numEntries \in Nat
           /\ Len(x.freeList) \in Nat /\ Len(x.allocatedList) \in Nat
           /\ Len(x.readyList) \in Nat
           /\ x.allocated = Len(x.allocatedList)
           /\ x.allocated + Len(x.freeList) = numEntries
           /\ x.numInService + Len(x.readyList) = x.allocated
<1>1. numEntries \in Nat
    BY QueueAssumption DEF numEntries
<1>2. QED
    BY ZenonT(60), <1>1, QInvTypes, LenProperties DEF QInv, Counted

LEMMA QInvLists ==
    ASSUME NEW x, QInv(x)
    PROVE  /\ IsInjective(x.freeList) /\ IsInjective(x.allocatedList)
           /\ IsInjective(x.readyList)
           /\ Range(x.freeList) \subseteq Entry
           /\ Range(x.allocatedList) \subseteq Entry
           /\ Range(x.readyList) \subseteq Entry
<1>1. \A s \in Seq(Entry) : Range(s) \subseteq Entry
    BY ListFacts
<1>2. QED
    BY <1>1, QInvTypes DEF QInv, Partitioned, ReadyExact

\* allocate keeps the queue consistent and adds one pending entry to it.
LEMMA AllocateEntryProps ==
    ASSUME NEW x, QInv(x), x.freeList # << >>, NEW a \in Addr, NEW t \in Nat
    PROVE  /\ QInv(allocateEntry(x, a, t))
           /\ Head(x.freeList) \in Entry
           /\ Head(x.freeList) \notin Range(x.allocatedList)
           /\ Range(allocateEntry(x, a, t).allocatedList)
                 = Range(x.allocatedList) \cup {Head(x.freeList)}
           /\ Range(allocateEntry(x, a, t).readyList)
                 = Range(x.readyList) \cup {Head(x.freeList)}
           /\ allocateEntry(x, a, t).inService = x.inService
<1> DEFINE e  == Head(x.freeList)
           fl == Tail(x.freeList)
           al == Append(x.allocatedList, e)
           is == [x.inService EXCEPT ![e] = FALSE]
           rt == [x.readyTime EXCEPT ![e] = t]
           ba == [x.blkAddr EXCEPT ![e] = a]
           n  == x.allocated + 1
           z  == [x EXCEPT !.freeList = fl, !.allocatedList = al, !.inService = is,
                           !.readyTime = rt, !.blkAddr = ba, !.allocated = n]
           y  == allocateEntry(x, a, t)
<1>t. /\ x \in QueueType
      /\ x.freeList \in Seq(Entry) /\ x.allocatedList \in Seq(Entry)
      /\ x.readyList \in Seq(Entry)
      /\ x.inService \in [Entry -> BOOLEAN] /\ x.readyTime \in [Entry -> Nat]
      /\ x.blkAddr \in [Entry -> Addr]
      /\ x.allocated \in Int
    BY QInvTypes
<1>l. /\ IsInjective(x.freeList) /\ IsInjective(x.allocatedList)
      /\ IsInjective(x.readyList)
    BY QInvLists
<1>c. /\ x.numInService \in Int /\ x.allocated \in Int /\ numEntries \in Nat
      /\ Len(x.freeList) \in Nat /\ Len(x.allocatedList) \in Nat
      /\ Len(x.readyList) \in Nat
      /\ x.allocated = Len(x.allocatedList)
      /\ x.allocated + Len(x.freeList) = numEntries
      /\ x.numInService + Len(x.readyList) = x.allocated
    BY QInvCounts
<1>0. y = addToReadyList(z, e)
    BY DEF allocateEntry
<1>1. /\ e \in Entry /\ e \in Range(x.freeList)
      /\ fl \in Seq(Entry) /\ Len(fl) = Len(x.freeList) - 1
      /\ IsInjective(fl) /\ Range(fl) = Range(x.freeList) \ {e}
    BY <1>t, <1>l, PopProps
<1> HIDE DEF e, fl
<1>2. e \notin Range(x.allocatedList) /\ e \notin Range(x.readyList) /\ ~x.inService[e]
    BY <1>1 DEF QInv, Partitioned, ReadyExact, FreeIdle
<1>3. /\ al \in Seq(Entry) /\ Len(al) = Len(x.allocatedList) + 1
      /\ IsInjective(al) /\ Range(al) = Range(x.allocatedList) \cup {e}
    <2>1. /\ x.allocatedList \in Seq(Entry) /\ IsInjective(x.allocatedList)
          /\ e \in Entry /\ e \notin Range(x.allocatedList)
        BY SMTT(30), <1>1, <1>2, <1>t, <1>l
    <2>2. Extends(al, x.allocatedList, Entry, e)
        BY ZenonT(60), <2>1, PushProps
    <2> HIDE DEF al
    <2>3. QED
        BY <2>2 DEF Extends
<1>4. /\ is = x.inService /\ is \in [Entry -> BOOLEAN]
      /\ rt \in [Entry -> Nat] /\ ba \in [Entry -> Addr]
      /\ n \in Int
    <2>1. e \in Entry /\ ~x.inService[e]
        BY <1>1, <1>2
    <2>2. is = x.inService /\ is \in [Entry -> BOOLEAN]
        BY ZenonT(60), <2>1, <1>t, Zenon
    <2>3. rt \in [Entry -> Nat] /\ ba \in [Entry -> Addr]
        BY <2>1, <1>t
    <2>4. QED
        BY <2>2, <2>3, <1>t
<1>5. fl \in Seq(Entry) /\ al \in Seq(Entry)
    BY <1>1, <1>3
<1> HIDE DEF al, is, rt, ba, n
<1>6. z \in QueueType
    BY ZenonT(60), <1>4, <1>5, <1>t DEF QueueType
<1>7. /\ z.freeList = fl /\ z.allocatedList = al
      /\ z.readyList = x.readyList /\ z.inService = is
      /\ z.numInService = x.numInService /\ z.allocated = n
    BY <1>4, <1>5, <1>t DEF QueueType
<1> HIDE DEF z, y
<1>8. PICK rl \in Seq(Entry) :
              /\ y = [z EXCEPT !.readyList = rl]
              /\ Len(rl) = Len(x.readyList) + 1
              /\ IsInjective(rl)
              /\ Range(rl) = Range(x.readyList) \cup {e}
    BY ZenonT(60), <1>0, <1>1, <1>2, <1>6, <1>7, <1>l, AddToReadyListProps
<1>9. /\ y \in QueueType
      /\ y.freeList = fl /\ y.allocatedList = al
      /\ y.readyList = rl /\ y.inService = x.inService
      /\ y.numInService = x.numInService /\ y.allocated = x.allocated + 1
    BY ZenonT(60), <1>4, <1>6, <1>7, <1>8 DEF QueueType, n
<1>10. Partitioned(y)
    BY <1>1, <1>3, <1>9 DEF QInv, Partitioned
<1>11. ReadyExact(y)
    BY <1>1, <1>2, <1>3, <1>8, <1>9 DEF QInv, ReadyExact
<1>12. Counted(y)
    <2> DEFINE lf == Len(x.freeList)
               lr == Len(x.readyList)
               na == x.allocated
               ni == x.numInService
    <2>1. /\ na \in Int /\ ni \in Int /\ lf \in Nat /\ lr \in Nat /\ numEntries \in Nat
          /\ na + lf = numEntries /\ ni + lr = na
        BY ZenonT(60), <1>c
    <2>2. Len(fl) = lf - 1 /\ Len(al) = na + 1 /\ Len(rl) = lr + 1
        BY <1>1, <1>3, <1>8, <1>c
    <2> HIDE DEF lf, lr, na, ni
    <2>3. na + 1 + Len(fl) = numEntries /\ ni + Len(rl) = na + 1
        BY <2>1, <2>2
    <2>4. QED
        BY <1>9, <2>2, <2>3 DEF Counted, na, ni
<1>13. FreeIdle(y)
    BY <1>1, <1>9 DEF QInv, FreeIdle
<1>14. QED
    BY SMTT(30), <1>1, <1>2, <1>3, <1>8, <1>9, <1>10, <1>11, <1>12, <1>13 DEF QInv, y, e

\* deallocate keeps the queue consistent and takes the entry out of it.
LEMMA DeallocateEntryProps ==
    ASSUME NEW x, QInv(x), NEW e \in Range(x.allocatedList)
    PROVE  /\ QInv(deallocateEntry(x, e))
           /\ Range(deallocateEntry(x, e).allocatedList) = Range(x.allocatedList) \ {e}
           /\ Range(deallocateEntry(x, e).readyList) = Range(x.readyList) \ {e}
           /\ deallocateEntry(x, e).inService = [x.inService EXCEPT ![e] = FALSE]
<1> DEFINE fl == <<e>> \o x.freeList
           al == erase(x.allocatedList, e)
           rl == IF x.inService[e] THEN x.readyList ELSE erase(x.readyList, e)
           is == [x.inService EXCEPT ![e] = FALSE]
           ns == IF x.inService[e] THEN x.numInService - 1 ELSE x.numInService
           n  == x.allocated - 1
           y  == deallocateEntry(x, e)
<1>t. /\ x \in QueueType
      /\ x.freeList \in Seq(Entry) /\ x.allocatedList \in Seq(Entry)
      /\ x.readyList \in Seq(Entry)
      /\ x.inService \in [Entry -> BOOLEAN]
      /\ x.numInService \in Int /\ x.allocated \in Int
    BY QInvTypes
<1>l. /\ IsInjective(x.freeList) /\ IsInjective(x.allocatedList)
      /\ IsInjective(x.readyList)
    BY QInvLists
<1>c. /\ x.numInService \in Int /\ x.allocated \in Int /\ numEntries \in Nat
      /\ Len(x.freeList) \in Nat /\ Len(x.allocatedList) \in Nat
      /\ Len(x.readyList) \in Nat
      /\ x.allocated = Len(x.allocatedList)
      /\ x.allocated + Len(x.freeList) = numEntries
      /\ x.numInService + Len(x.readyList) = x.allocated
    BY QInvCounts
<1>0. y = [x EXCEPT !.freeList = fl, !.allocatedList = al, !.readyList = rl,
                    !.inService = is, !.numInService = ns, !.allocated = n]
    BY DEF deallocateEntry
<1>1. e \in Entry /\ e \notin Range(x.freeList)
    BY QInvLists DEF QInv, Partitioned
<1>2. /\ fl \in Seq(Entry) /\ Len(fl) = Len(x.freeList) + 1
      /\ IsInjective(fl) /\ Range(fl) = Range(x.freeList) \cup {e}
    <2>1. Extends(fl, x.freeList, Entry, e)
        BY <1>1, <1>t, <1>l, PushProps
    <2> HIDE DEF fl
    <2>2. QED
        BY <2>1 DEF Extends
<1>3. /\ al \in Seq(Entry) /\ Len(al) = Len(x.allocatedList) - 1
      /\ IsInjective(al) /\ Range(al) = Range(x.allocatedList) \ {e}
    BY <1>t, <1>l, EraseProps
<1>4. e \in Range(x.readyList) <=> ~x.inService[e]
    BY <1>1 DEF QInv, ReadyExact
<1>5. /\ rl \in Seq(Entry)
      /\ Len(rl) = IF x.inService[e] THEN Len(x.readyList) ELSE Len(x.readyList) - 1
      /\ IsInjective(rl) /\ Range(rl) = Range(x.readyList) \ {e}
    <2>1. CASE x.inService[e]
        BY <2>1, <1>4, <1>t, <1>l
    <2>2. CASE ~x.inService[e]
        <3>1. e \in Range(x.readyList) /\ rl = erase(x.readyList, e)
            BY <2>2, <1>4
        <3>2. QED
            BY SMTT(30), <2>2, <3>1, <1>t, <1>l, EraseProps
    <2>3. QED
        BY <2>1, <2>2
<1>6. /\ is \in [Entry -> BOOLEAN]
      /\ \A d \in Entry : is[d] = IF d = e THEN FALSE ELSE x.inService[d]
    BY ZenonT(60), <1>1, <1>t
<1>7. /\ fl \in Seq(Entry) /\ al \in Seq(Entry) /\ rl \in Seq(Entry)
      /\ is \in [Entry -> BOOLEAN] /\ ns \in Int /\ n \in Int
    BY <1>2, <1>3, <1>5, <1>6, <1>t
<1> HIDE DEF fl, al, rl, is, ns, n, y
<1>8. /\ y \in QueueType
      /\ y.freeList = fl /\ y.allocatedList = al /\ y.readyList = rl
      /\ y.inService = is /\ y.numInService = ns /\ y.allocated = n
    BY ZenonT(60), <1>0, <1>7, <1>t DEF QueueType
<1>9. Partitioned(y)
    BY <1>1, <1>2, <1>3, <1>8 DEF QInv, Partitioned
<1>10. ReadyExact(y)
    BY ZenonT(60), <1>3, <1>5, <1>6, <1>8 DEF QInv, ReadyExact
<1>11. Counted(y)
    <2> DEFINE lf == Len(x.freeList)
               lr == Len(x.readyList)
               na == x.allocated
               ni == x.numInService
               b  == x.inService[e]
    <2>1. /\ na \in Int /\ ni \in Int /\ lf \in Nat /\ lr \in Nat /\ numEntries \in Nat
          /\ na + lf = numEntries /\ ni + lr = na
        BY ZenonT(60), <1>c
    <2>2. Len(fl) = lf + 1 /\ Len(al) = na - 1 /\ n = na - 1
        BY <1>2, <1>3, <1>c DEF n
    <2>3. /\ Len(rl) = IF b THEN lr ELSE lr - 1
          /\ ns = IF b THEN ni - 1 ELSE ni
        BY <1>5 DEF ns
    <2> HIDE DEF lf, lr, na, ni, b
    <2>4. n + Len(fl) = numEntries /\ ns + Len(rl) = n
        BY <2>1, <2>2, <2>3
    <2>5. QED
        BY <1>8, <2>2, <2>4 DEF Counted
<1>12. FreeIdle(y)
    BY ZenonT(60), <1>2, <1>6, <1>8 DEF QInv, FreeIdle
<1>13. QED
    BY <1>3, <1>5, <1>8, <1>9, <1>10, <1>11, <1>12 DEF QInv, y, is

\* The constructor's queue is consistent.
LEMMA NewQueueProps ==
    ASSUME NEW a \in Addr
    PROVE  /\ QInv(NewQueue(a))
           /\ NewQueue(a).allocatedList = << >> /\ NewQueue(a).readyList = << >>
           /\ NewQueue(a).inService = [e \in Entry |-> FALSE]
<1> DEFINE fl == [i \in Entry |-> i]
           y  == NewQueue(a)
<1>1. numEntries \in Nat
    BY QueueAssumption DEF numEntries
<1>2. /\ fl \in Seq(Entry) /\ Len(fl) = numEntries
      /\ IsInjective(fl) /\ Range(fl) = Entry
    <2>1. fl \in [1 .. numEntries -> Entry]
        BY DEF Entry
    <2>2. fl \in Seq(Entry) /\ Len(fl) = numEntries
        BY <1>1, <2>1
    <2>3. QED
        BY ZenonT(60), <2>2 DEF IsInjective, Range, Entry
<1> HIDE DEF fl
<1>3. << >> \in Seq(Entry) /\ Len(<< >>) = 0 /\ IsInjective(<< >>) /\ Range(<< >>) = {}
    BY DEF IsInjective, Range
<1>4. y \in QueueType
    BY <1>2, <1>3 DEF NewQueue, QueueType, fl
<1>5. /\ y.freeList = fl /\ y.allocatedList = << >> /\ y.readyList = << >>
      /\ y.inService = [e \in Entry |-> FALSE]
      /\ y.numInService = 0 /\ y.allocated = 0
    BY DEF NewQueue, fl
<1> HIDE DEF y
<1>6. Partitioned(y) /\ ReadyExact(y) /\ FreeIdle(y)
    BY <1>2, <1>3, <1>5 DEF Partitioned, ReadyExact, FreeIdle
<1>7. Counted(y)
    BY <1>1, <1>2, <1>3, <1>5 DEF Counted
<1>8. QED
    BY <1>4, <1>5, <1>6, <1>7 DEF QInv, y

\* A method that leaves the entries where they are, and puts on the ready
\* list exactly those that are now not in service, keeps consistency.
LEMMA ReadyUpdate ==
    ASSUME NEW x, QInv(x), NEW y \in QueueType,
           y.freeList = x.freeList, y.allocatedList = x.allocatedList,
           y.allocated = x.allocated,
           IsInjective(y.readyList),
           \A d \in Entry : d \in Range(y.readyList)
                                <=> d \in Range(x.allocatedList) /\ ~y.inService[d],
           \A d \in Entry : d \in Range(x.freeList) => ~y.inService[d],
           y.numInService + Len(y.readyList) = x.allocated
    PROVE  QInv(y)
<1>1. Partitioned(y) /\ FreeIdle(y)
    BY DEF QInv, Partitioned, FreeIdle
<1>2. ReadyExact(y)
    BY DEF ReadyExact
<1>3. Counted(y)
    BY ZenonT(60) DEF QInv, Counted
<1>4. QED
    BY <1>1, <1>2, <1>3 DEF QInv

\* markInService takes a pending entry off the ready list.
LEMMA MarkInServiceProps ==
    ASSUME NEW x, QInv(x), NEW e \in Range(x.allocatedList), ~x.inService[e]
    PROVE  /\ QInv(markInService(x, e))
           /\ markInService(x, e).allocatedList = x.allocatedList
           /\ Range(markInService(x, e).readyList) = Range(x.readyList) \ {e}
           /\ markInService(x, e).inService = [x.inService EXCEPT ![e] = TRUE]
<1> DEFINE rl == erase(x.readyList, e)
           is == [x.inService EXCEPT ![e] = TRUE]
           ns == x.numInService + 1
           y  == markInService(x, e)
<1>0. y = [x EXCEPT !.readyList = rl, !.inService = is, !.numInService = ns]
    BY DEF markInService
<1>t. /\ x \in QueueType
      /\ x.readyList \in Seq(Entry) /\ x.inService \in [Entry -> BOOLEAN]
      /\ x.numInService \in Int
    BY QInvTypes
<1>1. e \in Entry /\ e \notin Range(x.freeList) /\ e \in Range(x.readyList)
    BY QInvLists DEF QInv, Partitioned, ReadyExact
<1>2. /\ rl \in Seq(Entry) /\ Len(rl) = Len(x.readyList) - 1
      /\ IsInjective(rl) /\ Range(rl) = Range(x.readyList) \ {e}
    <2>1. IsInjective(x.readyList)
        BY QInvLists
    <2>2. QED
        BY <1>t, <1>1, <2>1, EraseProps
<1>3. /\ is \in [Entry -> BOOLEAN] /\ ns \in Int
      /\ \A d \in Entry : is[d] = IF d = e THEN TRUE ELSE x.inService[d]
    <2>1. e \in Entry /\ x.inService \in [Entry -> BOOLEAN]
        BY <1>1, <1>t
    <2>2. is \in [Entry -> BOOLEAN]
        BY ZenonT(60), <2>1, Zenon
    <2>3. \A d \in Entry : is[d] = IF d = e THEN TRUE ELSE x.inService[d]
        BY ZenonT(60), <2>1, Zenon
    <2>4. ns \in Int
        BY <1>t
    <2>5. QED
        BY ZenonT(60), <2>2, <2>3, <2>4, Zenon
<1>4. rl \in Seq(Entry) /\ is \in [Entry -> BOOLEAN] /\ ns \in Int
    BY <1>2, <1>3
<1>5. ns + Len(rl) = x.allocated
    <2> DEFINE lr == Len(x.readyList)
               ni == x.numInService
    <2>1. lr \in Nat /\ ni \in Int /\ ni + lr = x.allocated /\ Len(rl) = lr - 1
        BY <1>2, QInvCounts
    <2>2. ns = ni + 1
        OBVIOUS
    <2> HIDE DEF lr, ni, ns, rl
    <2>3. QED
        BY <2>1, <2>2
<1> HIDE DEF rl, is, ns, y
<1>6. /\ y \in QueueType
      /\ y.freeList = x.freeList /\ y.allocatedList = x.allocatedList
      /\ y.readyList = rl /\ y.inService = is
      /\ y.numInService = ns /\ y.allocated = x.allocated
    BY ZenonT(60), <1>0, <1>4, <1>t DEF QueueType
<1>7. \A d \in Entry : d \in Range(rl) <=> d \in Range(x.allocatedList) /\ ~is[d]
    BY ZenonT(60), <1>2, <1>3 DEF QInv, ReadyExact
<1>8. \A d \in Entry : d \in Range(x.freeList) => ~is[d]
    BY ZenonT(60), <1>1, <1>3 DEF QInv, FreeIdle
<1>9. IsInjective(y.readyList) /\ y.numInService + Len(y.readyList) = x.allocated
    BY <1>2, <1>5, <1>6
<1>10. QInv(y)
    BY <1>6, <1>7, <1>8, <1>9, ReadyUpdate
<1>11. QED
    BY <1>2, <1>6, <1>10 DEF y, is

\* markPending puts an entry in service back on the ready list.
LEMMA MarkPendingProps ==
    ASSUME NEW x, QInv(x), NEW e \in Range(x.allocatedList), x.inService[e],
           NEW t \in Nat
    PROVE  /\ QInv(markPending(x, e, t))
           /\ markPending(x, e, t).allocatedList = x.allocatedList
           /\ Range(markPending(x, e, t).readyList) = Range(x.readyList) \cup {e}
           /\ markPending(x, e, t).inService = [x.inService EXCEPT ![e] = FALSE]
<1> DEFINE is == [x.inService EXCEPT ![e] = FALSE]
           rt == [x.readyTime EXCEPT ![e] = t]
           ns == x.numInService - 1
           z  == [x EXCEPT !.inService = is, !.readyTime = rt, !.numInService = ns]
           y  == markPending(x, e, t)
<1>0. y = addToReadyList(z, e)
    BY DEF markPending
<1>t. /\ x \in QueueType
      /\ x.inService \in [Entry -> BOOLEAN] /\ x.readyTime \in [Entry -> Nat]
      /\ x.numInService \in Int
    BY QInvTypes
<1>1. e \in Entry /\ e \notin Range(x.freeList) /\ e \notin Range(x.readyList)
    BY QInvLists DEF QInv, Partitioned, ReadyExact
<1>2. /\ is \in [Entry -> BOOLEAN]
      /\ \A d \in Entry : is[d] = IF d = e THEN FALSE ELSE x.inService[d]
    <2>1. e \in Entry
        BY <1>1
    <2>2. QED
        BY ZenonT(60), <2>1, <1>t
<1>3. rt \in [Entry -> Nat] /\ ns \in Int
    BY <1>1, <1>t
<1>4. is \in [Entry -> BOOLEAN]
    BY <1>2
<1> HIDE DEF is, rt, ns
<1>5. /\ z \in QueueType
      /\ z.freeList = x.freeList /\ z.allocatedList = x.allocatedList
      /\ z.readyList = x.readyList /\ z.inService = is
      /\ z.numInService = ns /\ z.allocated = x.allocated
    BY ZenonT(60), <1>3, <1>4, <1>t DEF QueueType
<1> HIDE DEF z, y
<1>6. IsInjective(x.readyList)
    BY QInvLists
<1>7. PICK rl \in Seq(Entry) :
              /\ y = [z EXCEPT !.readyList = rl]
              /\ Len(rl) = Len(x.readyList) + 1
              /\ IsInjective(rl)
              /\ Range(rl) = Range(x.readyList) \cup {e}
    <2>1. /\ z \in QueueType /\ IsInjective(z.readyList)
          /\ e \in Entry /\ e \notin Range(z.readyList)
        BY <1>1, <1>5, <1>6
    <2>2. \E rl \in Seq(Entry) :
              /\ addToReadyList(z, e) = [z EXCEPT !.readyList = rl]
              /\ Len(rl) = Len(z.readyList) + 1
              /\ IsInjective(rl)
              /\ Range(rl) = Range(z.readyList) \cup {e}
        BY <2>1, AddToReadyListProps
    <2>3. QED
        BY ZenonT(60), <2>2, <1>0, <1>5
<1>8. /\ y \in QueueType
      /\ y.freeList = x.freeList /\ y.allocatedList = x.allocatedList
      /\ y.readyList = rl /\ y.inService = is
      /\ y.numInService = ns /\ y.allocated = x.allocated
    BY ZenonT(60), <1>5, <1>7 DEF QueueType
<1>9. ns + Len(rl) = x.allocated
    <2> DEFINE lr == Len(x.readyList)
               ni == x.numInService
    <2>1. lr \in Nat /\ ni \in Int /\ ni + lr = x.allocated /\ Len(rl) = lr + 1
        BY <1>7, QInvCounts
    <2>2. ns = ni - 1
        BY DEF ns
    <2> HIDE DEF lr, ni
    <2>3. QED
        BY <2>1, <2>2
<1>10. \A d \in Entry : d \in Range(rl) <=> d \in Range(x.allocatedList) /\ ~is[d]
    BY ZenonT(60), <1>1, <1>2, <1>7 DEF QInv, ReadyExact
<1>11. \A d \in Entry : d \in Range(x.freeList) => ~is[d]
    BY ZenonT(60), <1>2 DEF QInv, FreeIdle
<1>12. IsInjective(y.readyList) /\ y.numInService + Len(y.readyList) = x.allocated
    BY <1>7, <1>8, <1>9
<1>13. QInv(y)
    BY <1>8, <1>10, <1>11, <1>12, ReadyUpdate
<1>14. QED
    BY <1>7, <1>8, <1>13 DEF y, is

\* Changing ready times, as delay and forceDeallocateTarget do, touches no list.
LEMMA ReadyTimeProps ==
    ASSUME NEW x, QInv(x), NEW rt \in [Entry -> Nat]
    PROVE  /\ QInv([x EXCEPT !.readyTime = rt])
           /\ [x EXCEPT !.readyTime = rt].allocatedList = x.allocatedList
           /\ [x EXCEPT !.readyTime = rt].readyList = x.readyList
           /\ [x EXCEPT !.readyTime = rt].inService = x.inService
<1> DEFINE y == [x EXCEPT !.readyTime = rt]
<1>t. x \in QueueType
    BY QInvTypes
<1>1. /\ y \in QueueType
      /\ y.freeList = x.freeList /\ y.allocatedList = x.allocatedList
      /\ y.readyList = x.readyList /\ y.inService = x.inService
      /\ y.numInService = x.numInService /\ y.allocated = x.allocated
    BY ZenonT(60), <1>t DEF QueueType
<1> HIDE DEF y
<1>2. QInv(y)
    BY ZenonT(60), <1>1 DEF QInv, Partitioned, ReadyExact, Counted, FreeIdle
<1>3. QED
    BY <1>1, <1>2 DEF y

\* moveToFront reorders the ready list and changes nothing else.
LEMMA MoveToFrontProps ==
    ASSUME NEW x, QInv(x), NEW e \in Range(x.allocatedList)
    PROVE  /\ QInv(moveToFront(x, e))
           /\ moveToFront(x, e).allocatedList = x.allocatedList
           /\ Range(moveToFront(x, e).readyList) = Range(x.readyList)
           /\ moveToFront(x, e).inService = x.inService
<1> DEFINE er == erase(x.readyList, e)
           rl == IF x.inService[e] THEN x.readyList ELSE <<e>> \o er
           y  == moveToFront(x, e)
<1>0. y = [x EXCEPT !.readyList = rl]
    BY DEF moveToFront
<1>t. x \in QueueType /\ x.readyList \in Seq(Entry)
    BY QInvTypes
<1>1. e \in Entry /\ IsInjective(x.readyList) /\ Len(x.readyList) \in Nat
    BY QInvLists, QInvCounts
<1>2. /\ rl \in Seq(Entry) /\ Len(rl) = Len(x.readyList)
      /\ IsInjective(rl) /\ Range(rl) = Range(x.readyList)
    <2>1. CASE x.inService[e]
        BY <2>1, <1>t, <1>1
    <2>2. CASE ~x.inService[e]
        <3>1. e \in Range(x.readyList)
            BY <2>2, <1>1 DEF QInv, ReadyExact
        <3>2. /\ er \in Seq(Entry) /\ Len(er) = Len(x.readyList) - 1
              /\ IsInjective(er) /\ Range(er) = Range(x.readyList) \ {e}
            BY SMTT(30), <3>1, <1>t, <1>1, EraseProps
        <3> HIDE DEF er
        <3>3. Extends(<<e>> \o er, er, Entry, e)
            BY <3>2, <1>1, PushProps
        <3>4. rl = <<e>> \o er
            BY <2>2
        <3> HIDE DEF rl
        <3>5. rl \in Seq(Entry) /\ IsInjective(rl) /\ Range(rl) = Range(x.readyList)
            BY ZenonT(60), <3>1, <3>2, <3>3, <3>4 DEF Extends
        <3>6. Len(rl) = Len(x.readyList)
            <4> DEFINE lr == Len(x.readyList)
            <4>1. lr \in Nat /\ Len(er) = lr - 1 /\ Len(rl) = Len(er) + 1
                BY <3>2, <3>3, <3>4, <1>1 DEF Extends
            <4> HIDE DEF lr
            <4>2. Len(rl) = lr
                BY <4>1
            <4>3. QED
                BY <4>2 DEF lr
        <3>7. QED
            BY <3>5, <3>6
    <2>3. QED
        BY <2>1, <2>2
<1> HIDE DEF rl, y
<1>3. /\ y \in QueueType
      /\ y.freeList = x.freeList /\ y.allocatedList = x.allocatedList
      /\ y.readyList = rl /\ y.inService = x.inService
      /\ y.numInService = x.numInService /\ y.allocated = x.allocated
    BY ZenonT(60), <1>0, <1>2, <1>t DEF QueueType
<1>4. QInv(y)
    BY ZenonT(60), <1>2, <1>3 DEF QInv, Partitioned, ReadyExact, Counted, FreeIdle
<1>5. QED
    BY <1>2, <1>3, <1>4 DEF y

(***************************************************************************)
(* Queries of the queue, and the other fields of an entry                  *)
(***************************************************************************)

\* findMatch finds an allocated entry for the block exactly if there is one.
LEMMA FindMatchProps ==
    ASSUME NEW x, QInv(x), NEW a \in Addr
    PROVE  IF findMatch(x, a) = Null
           THEN \A e \in Range(x.allocatedList) : x.blkAddr[e] # a
           ELSE /\ findMatch(x, a) \in Range(x.allocatedList)
                /\ findMatch(x, a) \in Entry
                /\ x.blkAddr[findMatch(x, a)] = a
<1> DEFINE al  == x.allocatedList
           hit == {i \in 1 .. Len(al) : x.blkAddr[al[i]] = a}
           k   == CHOOSE i \in hit : \A j \in hit : i <= j
<1>1. al \in Seq(Entry)
    BY QInvTypes
<1>2. /\ Len(al) \in Nat /\ \A i \in 1 .. Len(al) : al[i] \in Entry
      /\ \A e : e \in Range(al) <=> \E i \in 1 .. Len(al) : al[i] = e
    BY <1>1, ListFacts
<1>3. findMatch(x, a) = IF hit = {} THEN Null ELSE al[k]
    BY DEF findMatch
<1>4. Null \notin Entry
    BY DEF Null, Entry
<1>5. CASE hit = {}
    BY <1>2, <1>3, <1>5
<1>6. CASE hit # {}
    <2>1. hit \in SUBSET Nat
        BY <1>2
    <2>2. \E i \in hit : \A j \in hit : i <= j
        BY ZenonT(60), <2>1, <1>6, LeastNat
    <2>3. k \in hit
        BY ZenonT(60), <2>2
    <2>4. k \in 1 .. Len(al) /\ x.blkAddr[al[k]] = a
        BY ZenonT(60), <2>3
    <2> HIDE DEF k, hit
    <2>5. al[k] \in Range(al) /\ al[k] \in Entry
        BY <1>2, <2>4
    <2> HIDE DEF al
    <2>6. QED
        BY <1>3, <1>4, <1>6, <2>4, <2>5 DEF al
<1>7. QED
    BY <1>5, <1>6

\* allocate sets the address, the ready time and the count, and no others.
LEMMA AllocateEntryFields ==
    ASSUME NEW x \in QueueType, NEW a, NEW t
    PROVE  /\ allocateEntry(x, a, t).blkAddr = [x.blkAddr EXCEPT ![Head(x.freeList)] = a]
           /\ allocateEntry(x, a, t).readyTime = [x.readyTime EXCEPT ![Head(x.freeList)] = t]
           /\ allocateEntry(x, a, t).allocated = x.allocated + 1
<1> DEFINE e  == Head(x.freeList)
           fl == Tail(x.freeList)
           al == Append(x.allocatedList, e)
           is == [x.inService EXCEPT ![e] = FALSE]
           rt == [x.readyTime EXCEPT ![e] = t]
           ba == [x.blkAddr EXCEPT ![e] = a]
           n  == x.allocated + 1
           z  == [x EXCEPT !.freeList = fl, !.allocatedList = al, !.inService = is,
                           !.readyTime = rt, !.blkAddr = ba, !.allocated = n]
<1>1. allocateEntry(x, a, t) = addToReadyList(z, e)
    BY DEF allocateEntry
<1>2. \E rl : addToReadyList(z, e) = [z EXCEPT !.readyList = rl]
    BY ZenonT(60) DEF addToReadyList
<1> HIDE DEF fl, al, is, rt, ba, n
<1>3. z.blkAddr = ba /\ z.readyTime = rt /\ z.allocated = n
    BY DEF QueueType
<1>4. \A rl : LET y == [z EXCEPT !.readyList = rl]
              IN  y.blkAddr = ba /\ y.readyTime = rt /\ y.allocated = n
    BY DEF QueueType
<1> HIDE DEF z
<1>5. QED
    BY ZenonT(60), <1>1, <1>2, <1>4 DEF ba, rt, n, e

LEMMA DeallocateEntryFields ==
    ASSUME NEW x \in QueueType, NEW e
    PROVE  /\ deallocateEntry(x, e).blkAddr = x.blkAddr
           /\ deallocateEntry(x, e).readyTime = x.readyTime
           /\ deallocateEntry(x, e).allocated = x.allocated - 1
BY DEF deallocateEntry, QueueType

LEMMA MarkInServiceFields ==
    ASSUME NEW x \in QueueType, NEW e
    PROVE  /\ markInService(x, e).blkAddr = x.blkAddr
           /\ markInService(x, e).readyTime = x.readyTime
           /\ markInService(x, e).allocated = x.allocated
BY DEF markInService, QueueType

\* In this cache every entry is ready as soon as it is allocated, so getNext
\* returns the head of the ready list.
LEMMA GetNextProps ==
    ASSUME NEW x, QInv(x), \A e \in Entry : x.readyTime[e] = 0
    PROVE  IF x.readyList = << >> THEN getNext(x) = Null
           ELSE getNext(x) \in Range(x.readyList) /\ getNext(x) \in Entry
<1>1. x.readyList \in Seq(Entry)
    BY QInvTypes
<1>2. CASE x.readyList = << >>
    BY <1>2 DEF getNext
<1>3. CASE x.readyList # << >>
    <2>1. Head(x.readyList) = x.readyList[1] /\ 1 \in 1 .. Len(x.readyList)
        BY <1>1, <1>3
    <2>2. Head(x.readyList) \in Range(x.readyList) /\ Head(x.readyList) \in Entry
        BY <1>1, <2>1, ListFacts
    <2>3. QED
        BY <1>3, <2>2 DEF getNext, curTick
<1>4. QED
    BY <1>2, <1>3

===============================================================================
