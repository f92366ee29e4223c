------------------------------- MODULE L0Proofs -------------------------------
(***************************************************************************)
(* The assembly of the cache behind the CPU ports implements the ledger of *)
(* the requestors; the order of responses; and what a locked read keeps    *)
(* out: for every number of ports, MSHRs, targets, sets, ways, blocks and  *)
(* requests.                                                               *)
(*                                                                         *)
(* The assembly adds PortInv, what the fifos hold, to the invariant of     *)
(* module CacheProofs; the order of responses adds AllocInv, and the       *)
(* locked blocks add LockInv.                                              *)
(***************************************************************************)
EXTENDS L0, CacheProofs

(***************************************************************************)
(* The assembled cache                                                     *)
(***************************************************************************)

\* The answers in S are given for the first time in this step.
Answers(S) ==
    /\ \A r \in S : answered[r] = 0
    /\ answered' = [r \in Request |-> IF r \in S THEN 1 ELSE answered[r]]

LEMMA NoAnswers ==
    ASSUME CacheInv, answered' = answered
    PROVE  Answers({})
<1>1. answered \in [Request -> {0, 1}]
    BY DEF CacheInv, LedgerInv, LedgerOf
<1>2. QED
    BY ZenonT(60), <1>1 DEF Answers

\* A call of the cache answers its own packet, for the first time, or nothing.
LEMMA CallAnswers ==
    ASSUME CacheInv, NEW p, Fresh(p), recvTimingReq(p)
    PROVE  \E S \in SUBSET {p.id} : Answers(S)
<1>1. p.id \in Request /\ answered \in [Request -> {0, 1}] /\ answered[p.id] = 0
    <2>1. p.id \in Request /\ answered \in [Request -> {0, 1}]
        BY DEF Fresh, CpuPacket, CacheInv, LedgerInv, LedgerOf
    <2>2. answered[p.id] = 1 => \E r \in received : r.id = p.id
        BY <2>1 DEF CacheInv, LedgerInv, LedgerOf
    <2>3. QED
        BY ZenonT(60), <2>1, <2>2 DEF Fresh
<1>2. ASSUME NEW S \in SUBSET {p.id}, Respond(S)
      PROVE  Answers(S)
    <2>1. \A r \in Request : answered[r] + (IF r \in S THEN 1 ELSE 0)
                                = IF r \in S THEN 1 ELSE answered[r]
        BY <1>1
    <2>2. QED
        BY ZenonT(60), <1>1, <1>2, <2>1 DEF Answers, Respond
<1>3. CASE answered' = answered
    BY ZenonT(60), <1>3, NoAnswers
<1>4. CASE Hit(p)
    <2>1. PICK S \in SUBSET {p.id} : Respond(S)
        BY <1>4 DEF Hit
    <2>2. QED
        BY <1>2, <2>1
<1>5. CASE LockedReadHit(p)
    <2>1. Respond({p.id}) \/ answered' = answered
        BY ZenonT(60), <1>5 DEF LockedReadHit, Abort
    <2>2. QED
        BY <1>2, <1>3, <2>1
<1>6. CASE DropCleanWriteback(p)
    BY ZenonT(60), <1>3, <1>6 DEF DropCleanWriteback, Abort
<1>7. CASE Writeback(p)
    BY ZenonT(60), <1>3, <1>7 DEF Writeback, Abort
<1>8. CASE WriteCleanMiss(p) \/ LockedWrite(p)
    BY ZenonT(60), <1>3, <1>8 DEF WriteCleanMiss, LockedWrite, Abort
<1>9. CASE MissCoalesced(p)
    BY <1>3, <1>9 DEF MissCoalesced
<1>10. CASE MissAllocated(p)
    BY ZenonT(60), <1>3, <1>10 DEF MissAllocated, Abort
<1>11. QED
    BY ZenonT(60), <1>4, <1>5, <1>6, <1>7, <1>8, <1>9, <1>10 DEF recvTimingReq

\* A response answers the targets of its MSHR, which were received and not answered.
LEMMA ResponseAnswers ==
    ASSUME CacheInv, NEW e \in Range(q.readyList), recvTimingResp(e), received' = received
    PROVE  /\ ServicedTargets(e) \cap Request \in SUBSET {p.id : p \in received}
           /\ Answers(ServicedTargets(e) \cap Request)
<1> DEFINE S == ServicedTargets(e) \cap Request
<1>1. e \in Entry
    BY ReadyEntry
<1>2. /\ Respond(ServicedTargets(e)) /\ targets' = [targets EXCEPT ![e] = << >>]
      /\ q' = deallocateEntry(q, e)
    BY DEF recvTimingResp
<1>3. /\ LedgerInv /\ targets \in [Entry -> Seq(Packet)] /\ q \in QueueType
    BY QInvTypes DEF CacheInv, MissInv
<1>4. q'.blkAddr = q.blkAddr
    BY ZenonT(60), <1>2, <1>3, DeallocateEntryFields
<1>5. /\ \A r \in Request : r \in ServicedTargets(e) =>
             answered[r] = 0 /\ \E p \in received : p.id = r
      /\ \A r \in Request :
             answered'[r] = IF r \in ServicedTargets(e) THEN 1 ELSE answered[r]
    BY ZenonT(60), <1>1, <1>2, <1>3, <1>4, TargetsServed
<1>6. answered' = [r \in Request |-> IF r \in S THEN 1 ELSE answered[r]]
    <2>1. answered' = [r \in Request |-> answered'[r]]
        BY <1>2 DEF Respond
    <2>2. \A r \in Request : answered'[r] = IF r \in S THEN 1 ELSE answered[r]
        BY <1>5
    <2> HIDE DEF S
    <2>3. QED
        BY ZenonT(60), <2>1, <2>2
<1>7. S \in SUBSET {p.id : p \in received} /\ \A r \in S : answered[r] = 0
    BY <1>5
<1>8. QED
    BY <1>6, <1>7 DEF Answers

\* The process answers requests that were received and not answered.
LEMMA SendAnswers ==
    ASSUME CacheInv, processSendEvent \/ retry
    PROVE  \E S \in SUBSET {p.id : p \in received} : Answers(S)
<1> DEFINE e == getNext(q)
<1>1. CASE answered' = answered
    BY <1>1, NoAnswers
<1>2. CASE e # Null /\ MissFails(e) = "none" /\ SendMSHR(e)
    <2>1. e \in Range(q.readyList)
        BY ZenonT(60), <1>2, NextEntry
    <2> HIDE DEF e
    <2>2. recvTimingResp(e) /\ received' = received
        BY ZenonT(60), <1>2 DEF SendMSHR
    <2>3. QED
        BY ZenonT(60), <2>1, <2>2, ResponseAnswers
<1>3. QED
    BY ZenonT(60), <1>1, <1>2 DEF processSendEvent, retry, SendMSHR, Abort

\* What the ports hold: packets with numbers of their own, not yet received.
PortInv ==
    /\ from \in Seq(Port) /\ Len(from) <= maxRequests
    /\ fifo \in [Port -> Seq(CpuPacket)]
    /\ \A p \in received : p.id <= Len(from)
    /\ \A m \in Port : \A i \in 1 .. Len(fifo[m]) :
           fifo[m][i].id <= Len(from) /\ \A p \in received : p.id # fifo[m][i].id
    /\ \A m, n \in Port : \A i \in 1 .. Len(fifo[m]) : \A j \in 1 .. Len(fifo[n]) :
           fifo[m][i].id = fifo[n][j].id => m = n /\ i = j

\* The packet at the head of a fifo is new to the cache.
LEMMA HeadIsFresh ==
    ASSUME PortInv, NEW m \in Port, fifo[m] # << >>
    PROVE  Fresh(Head(fifo[m])) /\ Head(fifo[m]).id <= Len(from)
<1>1. fifo[m] \in Seq(CpuPacket)
    BY DEF PortInv
<1>2. Head(fifo[m]) = fifo[m][1] /\ 1 \in 1 .. Len(fifo[m]) /\ Head(fifo[m]) \in CpuPacket
    BY <1>1
<1>3. QED
    BY <1>2 DEF PortInv, Fresh

LEMMA CpuWriteKeeps ==
    ASSUME CacheInv, PortInv, NEW m \in Port, NEW c \in Cmds, NEW b \in Addr, CpuWrite(m, c, b)
    PROVE  CacheInv' /\ PortInv'
<1> DEFINE n == Len(from) + 1
           p == [id |-> n, cmd |-> c, blk |-> b]
           s == Append(fifo[m], p)
<1>1. /\ from \in Seq(Port) /\ Len(from) \in Nat /\ Len(from) <= maxRequests
      /\ fifo \in [Port -> Seq(CpuPacket)] /\ maxRequests \in Nat
    BY CacheAssumption DEF PortInv
<1>2. /\ Len(from) < maxRequests /\ fifo' = [fifo EXCEPT ![m] = s]
      /\ from' = Append(from, m) /\ UNCHANGED vars /\ received' = received
    BY DEF CpuWrite, vars
<1>3. p \in CpuPacket /\ p.id = n
    BY <1>1, <1>2 DEF CpuPacket, Request
<1> HIDE DEF p
<1>4. /\ from' \in Seq(Port) /\ Len(from') = n /\ n <= maxRequests
      /\ Len(from) <= n /\ n \in Nat
    BY <1>1, <1>2
<1>5. /\ s \in Seq(CpuPacket) /\ Len(s) = Len(fifo[m]) + 1 /\ Len(fifo[m]) \in Nat
      /\ \A i \in 1 .. Len(s) : \/ i \in 1 .. Len(fifo[m]) /\ s[i] = fifo[m][i]
                                \/ i = Len(fifo[m]) + 1 /\ s[i] = p
    BY <1>1, <1>3
<1> HIDE DEF s
<1>6. /\ fifo' \in [Port -> Seq(CpuPacket)]
      /\ \A k \in Port : fifo'[k] = IF k = m THEN s ELSE fifo[k]
    BY ZenonT(60), <1>1, <1>2, <1>5
<1>7. \A k \in Port : \A i \in 1 .. Len(fifo'[k]) :
          \/ i \in 1 .. Len(fifo[k]) /\ fifo'[k][i] = fifo[k][i]
          \/ k = m /\ i = Len(fifo[m]) + 1 /\ fifo'[k][i] = p
    BY ZenonT(60), <1>5, <1>6
<1>8. /\ \A u \in received : u.id <= Len(from) /\ u.id \in Nat /\ u.id # n
      /\ \A k \in Port : \A i \in 1 .. Len(fifo[k]) :
             fifo[k][i].id \in Nat /\ fifo[k][i].id <= Len(from) /\ fifo[k][i].id # n
    <2>1. \A u \in CpuPacket : u.id \in Nat
        BY CacheAssumption DEF CpuPacket, Request
    <2>2. received \subseteq CpuPacket
        BY DEF CacheInv, LedgerInv, LedgerOf
    <2>3. \A k \in Port : \A i \in 1 .. Len(fifo[k]) : fifo[k][i] \in CpuPacket
        BY <1>1
    <2>4. QED
        BY <1>1, <2>1, <2>2, <2>3 DEF PortInv
<1> HIDE DEF n
<1>9. \A u \in received' : u.id <= Len(from')
    BY <1>1, <1>2, <1>4, <1>8
<1>10. \A k \in Port : \A i \in 1 .. Len(fifo'[k]) :
           fifo'[k][i].id <= Len(from') /\ \A u \in received' : u.id # fifo'[k][i].id
    <2>1. SUFFICES ASSUME NEW k \in Port, NEW i \in 1 .. Len(fifo'[k])
                   PROVE  fifo'[k][i].id <= Len(from') /\ \A u \in received : u.id # fifo'[k][i].id
        BY ZenonT(60), <1>2
    <2>2. CASE i \in 1 .. Len(fifo[k]) /\ fifo'[k][i] = fifo[k][i]
        <3>1. fifo[k][i].id \in Nat /\ fifo[k][i].id <= Len(from)
            BY ZenonT(60), <1>8, <2>2
        <3>2. \A u \in received : u.id # fifo[k][i].id
            BY ZenonT(60), <2>2 DEF PortInv
        <3>3. fifo[k][i].id <= Len(from')
            BY <1>1, <1>4, <3>1
        <3>4. QED
            BY ZenonT(60), <2>2, <3>2, <3>3
    <2>3. CASE fifo'[k][i] = p
        BY <1>3, <1>4, <1>8, <2>3
    <2>4. QED
        BY ZenonT(60), <1>7, <2>2, <2>3
<1>11. \A k, l \in Port : \A i \in 1 .. Len(fifo'[k]) : \A j \in 1 .. Len(fifo'[l]) :
           fifo'[k][i].id = fifo'[l][j].id => k = l /\ i = j
    <2>1. SUFFICES ASSUME NEW k \in Port, NEW l \in Port, NEW i \in 1 .. Len(fifo'[k]),
                          NEW j \in 1 .. Len(fifo'[l]), fifo'[k][i].id = fifo'[l][j].id
                   PROVE  k = l /\ i = j
        BY ZenonT(60)
    <2>2. CASE i \in 1 .. Len(fifo[k]) /\ fifo'[k][i] = fifo[k][i]
        <3>1. j \in 1 .. Len(fifo[l]) /\ fifo'[l][j] = fifo[l][j]
            BY ZenonT(60), <1>3, <1>7, <1>8, <2>1, <2>2
        <3>2. QED
            BY <2>1, <2>2, <3>1 DEF PortInv
    <2>3. CASE k = m /\ i = Len(fifo[m]) + 1 /\ fifo'[k][i] = p
        BY ZenonT(60), <1>3, <1>7, <1>8, <2>1, <2>3
    <2>4. QED
        BY ZenonT(60), <1>7, <2>2, <2>3
<1>12. PortInv'
    BY ZenonT(60), <1>4, <1>6, <1>9, <1>10, <1>11 DEF PortInv
<1>13. QED
    BY ZenonT(60), <1>2, <1>12, StutterKeeps

LEMMA ReqMonitorKeeps ==
    ASSUME CacheInv, PortInv, NEW m \in Port, ReqMonitor(m)
    PROVE  CacheInv' /\ PortInv'
<1> DEFINE p == Head(fifo[m])
           s == Tail(fifo[m])
<1>1. /\ fifo[m] # << >> /\ recvTimingReq(p) /\ fifo' = [fifo EXCEPT ![m] = s] /\ from' = from
    BY DEF ReqMonitor
<1>2. Fresh(p) /\ p.id <= Len(from)
    BY <1>1, HeadIsFresh
<1>3. fifo \in [Port -> Seq(CpuPacket)] /\ fifo[m] \in Seq(CpuPacket)
    BY DEF PortInv
<1>4. /\ s \in Seq(CpuPacket) /\ p = fifo[m][1] /\ 1 \in 1 .. Len(fifo[m])
      /\ \A i \in 1 .. Len(s) : i + 1 \in 2 .. Len(fifo[m]) /\ s[i] = fifo[m][i + 1]
    BY <1>1, <1>3
<1> HIDE DEF p, s
<1>5. CacheInv'
    BY <1>1, <1>2, RecvTimingReqKeeps
<1>6. \A u \in received' : u \in received \/ u = p
    BY <1>1, TakesItsPacket
<1>7. /\ fifo' \in [Port -> Seq(CpuPacket)]
      /\ \A k \in Port : fifo'[k] = IF k = m THEN s ELSE fifo[k]
    BY ZenonT(60), <1>1, <1>3, <1>4
<1>8. \A k \in Port : \A i \in 1 .. Len(fifo'[k]) :
          LET j == IF k = m THEN i + 1 ELSE i
          IN  j \in 1 .. Len(fifo[k]) /\ fifo'[k][i] = fifo[k][j] /\ ~(k = m /\ j = 1)
    BY <1>4, <1>7
<1>9. \A k \in Port : \A i \in 1 .. Len(fifo'[k]) :
          /\ fifo'[k][i].id <= Len(from) /\ fifo'[k][i].id # p.id
          /\ \A u \in received : u.id # fifo'[k][i].id
    <2>1. SUFFICES ASSUME NEW k \in Port, NEW i \in 1 .. Len(fifo'[k])
                   PROVE  /\ fifo'[k][i].id <= Len(from) /\ fifo'[k][i].id # p.id
                          /\ \A u \in received : u.id # fifo'[k][i].id
        OBVIOUS
    <2> DEFINE j == IF k = m THEN i + 1 ELSE i
    <2>2. j \in 1 .. Len(fifo[k]) /\ fifo'[k][i] = fifo[k][j] /\ ~(k = m /\ j = 1)
        BY ZenonT(60), <1>8
    <2> HIDE DEF j
    <2>3. fifo[k][j].id <= Len(from) /\ \A u \in received : u.id # fifo[k][j].id
        BY <2>2 DEF PortInv
    <2>4. fifo[k][j].id # fifo[m][1].id
        BY <1>4, <2>2 DEF PortInv
    <2>5. QED
        BY ZenonT(60), <1>4, <2>2, <2>3, <2>4
<1>10. \A k, l \in Port : \A i \in 1 .. Len(fifo'[k]) : \A j \in 1 .. Len(fifo'[l]) :
           fifo'[k][i].id = fifo'[l][j].id => k = l /\ i = j
    <2>1. SUFFICES ASSUME NEW k \in Port, NEW l \in Port, NEW i \in 1 .. Len(fifo'[k]),
                          NEW j \in 1 .. Len(fifo'[l]), fifo'[k][i].id = fifo'[l][j].id
                   PROVE  k = l /\ i = j
        OBVIOUS
    <2> DEFINE a == IF k = m THEN i + 1 ELSE i
               b == IF l = m THEN j + 1 ELSE j
    <2>2. /\ a \in 1 .. Len(fifo[k]) /\ fifo'[k][i] = fifo[k][a]
          /\ b \in 1 .. Len(fifo[l]) /\ fifo'[l][j] = fifo[l][b]
        BY ZenonT(60), <1>8
    <2> HIDE DEF a, b
    <2>3. k = l /\ a = b
        BY <2>1, <2>2 DEF PortInv
    <2>4. QED
        BY <2>3 DEF a, b
<1>11. \A u \in received' : u.id <= Len(from)
    BY ZenonT(60), <1>2, <1>6 DEF PortInv
<1>12. PortInv'
    BY <1>1, <1>6, <1>7, <1>9, <1>10, <1>11 DEF PortInv
<1>13. QED
    BY <1>5, <1>12

LEMMA PortsLeftAlone ==
    ASSUME PortInv, fifo' = fifo, from' = from, received' = received
    PROVE  PortInv'
BY DEF PortInv

LEMMA L0Step ==
    ASSUME CacheInv, PortInv, [L0Next]_l0Vars
    PROVE  CacheInv' /\ PortInv'
<1>1. CASE \E m \in Port, c \in Cmds, b \in Addr : CpuWrite(m, c, b)
    BY <1>1, CpuWriteKeeps
<1>2. CASE \E m \in Port : ReqMonitor(m)
    BY ZenonT(60), <1>2, ReqMonitorKeeps
<1>3. CASE PktQueueProcess
    <2>1. processSendEvent /\ fifo' = fifo /\ from' = from /\ received' = received
        BY ZenonT(60), <1>3, SendTakesNothing DEF PktQueueProcess
    <2>2. CacheInv'
        BY ZenonT(60), <2>1, ProcessSendEventKeeps
    <2>3. PortInv'
        BY ZenonT(60), <2>1, PortsLeftAlone
    <2>4. QED
        BY ZenonT(60), <2>2, <2>3
<1>4. CASE UNCHANGED l0Vars
    <2>1. UNCHANGED vars /\ fifo' = fifo /\ from' = from /\ received' = received
        BY <1>4 DEF l0Vars, vars
    <2>2. PortInv'
        BY ZenonT(60), <2>1, PortsLeftAlone
    <2>3. QED
        BY ZenonT(60), <2>1, <2>2, StutterKeeps
<1>5. QED
    BY ZenonT(60), <1>1, <1>2, <1>3, <1>4 DEF L0Next

\* The invariant of the cache holds in the assembled program as well, where
\* packets reach it through the fifos of the ports, in any interleaving.
THEOREM L0Invariant == L0Spec => [](CacheInv /\ PortInv)
<1>1. L0Init => CacheInv /\ PortInv
    <2>1. ASSUME L0Init PROVE PortInv
        <3>1. /\ from = << >> /\ received = {} /\ fifo = [m \in Port |-> << >>]
            BY <2>1 DEF L0Init, Init
        <3>2. \A m \in Port : fifo[m] = << >> /\ 1 .. Len(fifo[m]) = {}
            BY <3>1
        <3>3. Len(from) = 0 /\ maxRequests \in Nat /\ fifo \in [Port -> Seq(CpuPacket)]
            BY <3>1, CacheAssumption
        <3>4. QED
            BY <3>1, <3>2, <3>3 DEF PortInv
    <2>2. QED
        BY ZenonT(60), <2>1, InitKeeps DEF L0Init
<1>2. CacheInv /\ PortInv /\ [L0Next]_l0Vars => (CacheInv /\ PortInv)'
    BY L0Step
<1>3. QED
    BY <1>1, <1>2, PTL DEF L0Spec

\* Every step of the assembled cache is a step of the requestors' ledger or leaves
\* the ledger as it is (CpuSidePort's ReqMonitor, recvTimingReq, pktQueueProcess).
THEOREM L0ImplementsLedger == L0Spec => ImplementsLedger
<1>1. L0Init => Ledger!LedgerInit
    BY DEF L0Init, Init, Ledger!LedgerInit
<1>2. ASSUME CacheInv, PortInv, [L0Next]_l0Vars
      PROVE  [Ledger!LedgerNext]_<<1 .. Len(from), answered>>
    <2>1. Len(from) \in Nat /\ Len(from) <= maxRequests /\ from \in Seq(Port)
        BY <1>2 DEF PortInv
    <2>2. ASSUME NEW S \in SUBSET (1 .. Len(from)), Answers(S), from' = from
          PROVE  Ledger!LedgerNext
        <3>1. Ledger!Answer(S)
            BY <2>2 DEF Answers, Ledger!Answer
        <3>2. QED
            BY <3>1 DEF Ledger!LedgerNext
    <2>3. CASE \E m \in Port, c \in Cmds, b \in Addr : CpuWrite(m, c, b)
        <3>1. PICK m \in Port, c \in Cmds, b \in Addr : CpuWrite(m, c, b)
            BY ZenonT(60), <2>3
        <3>2. /\ Len(from) < maxRequests /\ from' = Append(from, m) /\ answered' = answered
            BY <3>1 DEF CpuWrite, vars
        <3>3. Len(from') = Len(from) + 1
            BY <2>1, <3>2
        <3>4. /\ Len(from) + 1 \in Request /\ Len(from) + 1 \notin 1 .. Len(from)
              /\ 1 .. Len(from') = (1 .. Len(from)) \cup {Len(from) + 1}
            BY <2>1, <3>2, <3>3, CacheAssumption DEF Request
        <3>5. Ledger!Submit(Len(from) + 1)
            BY <3>2, <3>4 DEF Ledger!Submit
        <3>6. QED
            BY ZenonT(60), <3>4, <3>5 DEF Ledger!LedgerNext
    <2>4. CASE \E m \in Port : ReqMonitor(m)
        <3>1. PICK m \in Port : ReqMonitor(m)
            BY <2>4
        <3> DEFINE p == Head(fifo[m])
        <3>2. fifo[m] # << >> /\ recvTimingReq(p) /\ from' = from
            BY <3>1 DEF ReqMonitor
        <3>3. Fresh(p) /\ p.id <= Len(from)
            BY ZenonT(60), <1>2, <3>2, HeadIsFresh
        <3>4. p.id \in 1 .. Len(from)
            BY <2>1, <3>3, CacheAssumption DEF Fresh, CpuPacket, Request
        <3> HIDE DEF p
        <3>5. PICK S \in SUBSET {p.id} : Answers(S)
            BY ZenonT(60), <1>2, <3>2, <3>3, CallAnswers
        <3>6. S \in SUBSET (1 .. Len(from))
            BY <3>4
        <3>7. QED
            BY ZenonT(60), <2>2, <3>2, <3>5, <3>6
    <2>5. CASE PktQueueProcess
        <3>1. processSendEvent /\ from' = from
            BY <2>5 DEF PktQueueProcess
        <3>2. PICK S \in SUBSET {p.id : p \in received} : Answers(S)
            BY ZenonT(60), <1>2, <3>1, SendAnswers
        <3>3. \A p \in received : p.id \in 1 .. Len(from)
            <4>1. \A p \in received : p.id \in Request /\ p.id <= Len(from)
                BY <1>2 DEF CacheInv, LedgerInv, LedgerOf, CpuPacket, PortInv
            <4>2. QED
                BY <4>1, <2>1, CacheAssumption DEF Request
        <3>4. S \in SUBSET (1 .. Len(from))
            BY <3>3
        <3>5. QED
            BY ZenonT(60), <2>2, <3>1, <3>2, <3>4
    <2>6. CASE UNCHANGED l0Vars
        BY ZenonT(60), <2>6 DEF l0Vars, vars
    <2>7. QED
        BY ZenonT(60), <1>2, <2>3, <2>4, <2>5, <2>6 DEF L0Next
<1>3. QED
    BY <1>1, <1>2, L0Invariant, PTL DEF L0Spec, ImplementsLedger, Ledger!LedgerSpec

(***************************************************************************)
(* Order                                                                   *)
(***************************************************************************)

\* Only a writeback to its block changes what the allocation of an MSHR left.
AllocInv == \A e \in Outstanding : ~WrittenBack(q.blkAddr[e]) => AsAllocated(e)

LEMMA OutstandingTypes ==
    ASSUME CacheInv
    PROVE  \A e \in Outstanding : e \in Entry /\ q.blkAddr[e] \in Addr
BY ZenonT(60), QInvTypes, QInvLists DEF CacheInv, MissInv, Outstanding

\* createMissPacket finds no block, unless it was written back.
LEMMA AllocFollows ==
    ASSUME CacheInv, AllocInv
    PROVE  MissNotCached
<1>1. SUFFICES ASSUME NEW e \in Range(q.readyList), ~WrittenBack(q.blkAddr[e])
               PROVE  ~Cached(q.blkAddr[e])
    BY ZenonT(60) DEF MissNotCached
<1>2. e \in Outstanding /\ ~q.inService[e]
    BY ZenonT(60), ReadyEntry
<1>3. \A w \in Way : tags[extractSet(q.blkAddr[e])][w].blk # q.blkAddr[e]
    BY ZenonT(60), <1>1, <1>2 DEF AllocInv, AsAllocated
<1>4. q.blkAddr[e] \in Addr
    BY ZenonT(60), <1>2, OutstandingTypes
<1>5. QED
    BY ZenonT(60), <1>3, <1>4, FindBlockProps

\* A request that finds its block permitted has no MSHR to wait behind, unless
\* the block was written back.
LEMMA PermittedIsIdle ==
    ASSUME CacheInv, AllocInv, NEW p, p.blk \in Addr, Permitted(p),
           NEW e \in Outstanding, q.blkAddr[e] = p.blk
    PROVE  WrittenBack(p.blk)
<1>1. SUFFICES ASSUME ~WrittenBack(p.blk) PROVE FALSE
    OBVIOUS
<1>2. AsAllocated(e)
    BY ZenonT(60), <1>1 DEF AllocInv
<1>3. Cached(p.blk) /\ bitsOf(p.blk) \cap Both # {}
    BY DEF Permitted, isSet, bitsOf, Both
<1>4. /\ findBlock(p.blk) \in Way /\ tags[extractSet(p.blk)][findBlock(p.blk)].blk = p.blk
      /\ extractSet(p.blk) \in Set /\ p.blk # NoBlk /\ Placed(tags)
    BY ZenonT(60), <1>3, FindBlockProps, AddrProps DEF CacheInv, TagInv
<1>5. PICK w \in Way : /\ tags[extractSet(p.blk)][w].blk = p.blk
                       /\ tags[extractSet(p.blk)][w].bits \cap Both = {}
    BY ZenonT(60), <1>2, <1>4 DEF AsAllocated
<1>6. findBlock(p.blk) = w
    BY ZenonT(60), <1>4, <1>5 DEF Placed
<1>7. QED
    BY ZenonT(60), <1>3, <1>5, <1>6 DEF bitsOf

LEMMA AllocStays ==
    ASSUME CacheInv, AllocInv, received \subseteq received',
           NEW d, Stays(d), ~WrittenBack(q.blkAddr[d])',
           NEW b, TouchesOnly(b), q.blkAddr[d] # b
    PROVE  AsAllocated(d)'
<1>1. d \in Outstanding /\ q'.blkAddr[d] = q.blkAddr[d] /\ q'.inService[d] = q.inService[d]
    BY DEF Stays
<1>2. ~WrittenBack(q.blkAddr[d])
    BY ZenonT(60), <1>1 DEF WrittenBack
<1>3. AsAllocated(d)
    BY ZenonT(60), <1>1, <1>2 DEF AllocInv
<1>4. q.blkAddr[d] # NoBlk /\ extractSet(q.blkAddr[d]) \in Set
    BY ZenonT(60), <1>1, OutstandingTypes, AddrProps
<1>5. CASE q.inService[d]
    <2>1. PICK w \in Way : /\ tags[extractSet(q.blkAddr[d])][w].blk = q.blkAddr[d]
                           /\ tags[extractSet(q.blkAddr[d])][w].bits \cap Both = {}
        BY ZenonT(60), <1>3, <1>5 DEF AsAllocated
    <2>2. /\ tags'[extractSet(q.blkAddr[d])][w].blk = q.blkAddr[d]
          /\ tags'[extractSet(q.blkAddr[d])][w].bits = tags[extractSet(q.blkAddr[d])][w].bits
        BY <1>4, <2>1 DEF TouchesOnly
    <2>3. QED
        BY ZenonT(60), <1>1, <1>5, <2>1, <2>2 DEF AsAllocated
<1>6. CASE ~q.inService[d]
    <2>1. \A w \in Way : tags[extractSet(q.blkAddr[d])][w].blk # q.blkAddr[d]
        BY ZenonT(60), <1>3, <1>6 DEF AsAllocated
    <2>2. \A w \in Way : tags'[extractSet(q.blkAddr[d])][w].blk # q.blkAddr[d]
        BY <1>4, <2>1 DEF TouchesOnly
    <2>3. QED
        BY ZenonT(60), <1>1, <1>6, <2>2 DEF AsAllocated
<1>7. QED
    BY ZenonT(60), <1>5, <1>6

\* Nothing is touched when the tags stay.
LEMMA TouchesNothing ==
    ASSUME tags' = tags
    PROVE  TouchesOnly(NoBlk)
BY ZenonT(60) DEF TouchesOnly

LEMMA AllStay ==
    ASSUME q' = q
    PROVE  Outstanding' = Outstanding /\ \A d \in Outstanding : Stays(d)
BY DEF Outstanding, Stays

LEMMA AllocCall ==
    ASSUME CacheInv, AllocInv, NEW p, Fresh(p), recvTimingReq(p)
    PROVE  AllocInv'
<1>1. SUFFICES ASSUME NEW d \in Outstanding', ~WrittenBack(q.blkAddr[d])'
               PROVE  AsAllocated(d)'
    BY ZenonT(60) DEF AllocInv
<1>2. received \subseteq received' /\ p.blk \in Addr
    BY ZenonT(60), TakesItsPacket DEF Fresh, CpuPacket
<1>3. \A e \in Outstanding : q.blkAddr[e] # NoBlk
    BY ZenonT(60), OutstandingTypes, AddrProps
<1>4. CASE q' = q /\ tags' = tags
    BY ZenonT(60), <1>1, <1>2, <1>3, <1>4, AllStay, TouchesNothing, AllocStays
<1>5. CASE Marks(p) /\ isWriteback(p.cmd)
    <2>1. q' = q /\ TouchesOnly(p.blk) /\ p \in received'
        BY <1>5 DEF Marks
    <2>2. q.blkAddr[d] # p.blk
        BY ZenonT(60), <1>1, <1>5, <2>1 DEF WrittenBack
    <2>3. QED
        BY ZenonT(60), <1>1, <1>2, <2>1, <2>2, AllStay, AllocStays
<1>6. CASE Marks(p) /\ Permitted(p)
    <2>1. q' = q /\ TouchesOnly(p.blk) /\ d \in Outstanding
        BY <1>1, <1>6, AllStay DEF Marks
    <2>2. ~WrittenBack(q.blkAddr[d])
        BY ZenonT(60), <1>1, <1>2, <2>1 DEF WrittenBack
    <2>3. q.blkAddr[d] # p.blk
        BY ZenonT(60), <1>2, <1>6, <2>1, <2>2, PermittedIsIdle
    <2>4. QED
        BY ZenonT(60), <1>1, <1>2, <2>1, <2>3, AllStay, AllocStays
<1>7. CASE \E e, b : Allocates(p, e) /\ TouchesOnly(b) /\ b \in {p.blk, NoBlk}
    <2>1. PICK e, b : Allocates(p, e) /\ TouchesOnly(b) /\ b \in {p.blk, NoBlk}
        BY <1>7
    <2>2. CASE d = e
        BY ZenonT(60), <2>1, <2>2 DEF Allocates
    <2>3. CASE d # e
        <3>1. d \in Outstanding /\ Stays(d) /\ q.blkAddr[d] # p.blk
            BY ZenonT(60), <1>1, <2>1, <2>3 DEF Allocates
        <3>2. q.blkAddr[d] # b
            BY ZenonT(60), <1>3, <2>1, <3>1
        <3>3. QED
            BY ZenonT(60), <1>1, <1>2, <2>1, <3>1, <3>2, AllocStays
    <2>4. QED
        BY ZenonT(60), <2>2, <2>3
<1>8. QED
    BY ZenonT(60), <1>4, <1>5, <1>6, <1>7, CallCases, TouchesNothing DEF Locks, Misses

LEMMA AllocSend ==
    ASSUME CacheInv, AllocInv, processSendEvent \/ retry
    PROVE  AllocInv'
<1>1. SUFFICES ASSUME NEW d \in Outstanding', ~WrittenBack(q.blkAddr[d])'
               PROVE  AsAllocated(d)'
    BY ZenonT(60) DEF AllocInv
<1>2. received \subseteq received'
    BY ZenonT(60), SendTakesNothing
<1>3. \A e \in Outstanding : q.blkAddr[e] # NoBlk
    BY ZenonT(60), OutstandingTypes, AddrProps
<1>4. CASE q' = q /\ tags' = tags
    BY ZenonT(60), <1>1, <1>2, <1>3, <1>4, AllStay, TouchesNothing, AllocStays
<1>5. CASE \E e \in Range(q.readyList) : Serves(e)
    BY ZenonT(60), <1>1, <1>2, <1>5, AllocStays DEF Serves
<1>6. QED
    BY ZenonT(60), <1>4, <1>5, SendCases

\* A step that answers a request, other than a store conditional, leaves no
\* request for the same block unanswered, unless the block was written back.
Drains ==
    \A p, r \in received' :
        (/\ p.blk = r.blk /\ needsResponse(p.cmd) /\ r.cmd # "StoreCondReq"
         /\ answered'[r.id] = 1 /\ (r \in received => answered[r.id] = 0))
            => answered'[p.id] = 1 \/ WrittenBack(p.blk)'

\* An unanswered request is a target of the MSHR of its block.
LEMMA Waits ==
    ASSUME CacheInv, NEW p \in received, needsResponse(p.cmd), answered[p.id] # 1
    PROVE  \E e \in Outstanding :
              q.blkAddr[e] = p.blk /\ \E i \in 1 .. Len(targets[e]) : targets[e][i] = p
<1>1. LedgerInv /\ p \in CpuPacket /\ answered \in [Request -> {0, 1}]
    BY ZenonT(60) DEF CacheInv, LedgerInv, LedgerOf
<1>2. p.id \in Request /\ p.id # Copy /\ answered[p.id] = 0
    BY <1>1 DEF CpuPacket, Request, Copy
<1>3. PICK e \in Entry : \E i \in 1 .. Len(targets[e]) : targets[e][i] = p
    BY ZenonT(60), <1>1, <1>2 DEF LedgerInv, LedgerOf
<1>4. PICK i \in 1 .. Len(targets[e]) : targets[e][i] = p
    BY ZenonT(60), <1>3
<1>5. q.blkAddr[e] = p.blk
    BY ZenonT(60), <1>1, <1>2, <1>4, TargetFacts
<1>6. targets[e] # << >>
    BY <1>4
<1>7. e \in Outstanding
    BY <1>6 DEF CacheInv, MissInv
<1>8. QED
    BY ZenonT(60), <1>4, <1>5, <1>7

\* A request the cache has not seen is not answered.
LEMMA UnansweredBefore ==
    ASSUME CacheInv, NEW u, Fresh(u)
    PROVE  u.id \in Request /\ answered[u.id] = 0
<1>1. u.id \in Request
    BY DEF Fresh, CpuPacket
<1>2. answered[u.id] \in {0, 1} /\ (answered[u.id] = 1 => \E v \in received : v.id = u.id)
    BY ZenonT(60), <1>1 DEF CacheInv, LedgerInv, LedgerOf
<1>3. QED
    BY ZenonT(60), <1>1, <1>2 DEF Fresh

\* Only a hit is answered in the call that brings it.
LEMMA AnsweredByHit ==
    ASSUME CacheInv, NEW u, recvTimingReq(u), answered' # answered
    PROVE  Hit(u) \/ (LockedReadHit(u) /\ Permitted(u))
<1>1. CASE LockedReadHit(u)
    BY ZenonT(60), <1>1 DEF LockedReadHit
<1>2. CASE DropCleanWriteback(u) \/ Writeback(u)
    BY ZenonT(60), <1>2 DEF DropCleanWriteback, Writeback, Abort
<1>3. CASE WriteCleanMiss(u) \/ LockedWrite(u)
    BY ZenonT(60), <1>3 DEF WriteCleanMiss, LockedWrite, Abort
<1>4. CASE MissCoalesced(u) \/ MissAllocated(u)
    BY ZenonT(60), <1>4 DEF MissCoalesced, MissAllocated, Abort
<1>5. QED
    BY ZenonT(60), <1>1, <1>2, <1>3, <1>4 DEF recvTimingReq

LEMMA CallDrains ==
    ASSUME CacheInv, AllocInv, NEW u, Fresh(u), recvTimingReq(u)
    PROVE  Drains
<1>1. SUFFICES ASSUME NEW p \in received', NEW r \in received',
                      p.blk = r.blk, needsResponse(p.cmd), r.cmd # "StoreCondReq",
                      answered'[r.id] = 1, r \in received => answered[r.id] = 0
               PROVE  answered'[p.id] = 1 \/ WrittenBack(p.blk)'
    BY ZenonT(60) DEF Drains
<1>2. PICK S \in SUBSET {u.id} : Answers(S)
    BY ZenonT(60), CallAnswers
<1>3. /\ received \subseteq CpuPacket /\ u \in CpuPacket
      /\ \A v \in received : v.id # u.id
      /\ received' = received \/ received' = received \cup {u}
    BY TakesItsPacket DEF CacheInv, LedgerInv, LedgerOf, Fresh
<1>4. \A v \in CpuPacket : v.id \in Request
    BY DEF CpuPacket
<1>5. answered[u.id] = 0
    BY ZenonT(60), UnansweredBefore
<1>6. r = u /\ r.id \in S
    <2>1. r.id \in Request /\ answered[r.id] = 0
        BY ZenonT(60), <1>1, <1>3, <1>4, <1>5
    <2>2. r.id \in S
        BY <1>1, <1>2, <2>1 DEF Answers
    <2>3. QED
        BY ZenonT(60), <1>1, <1>2, <1>3, <2>2
<1>7. answered' # answered
    BY <1>1, <1>5, <1>6
<1>8. Permitted(u) /\ u.blk \in Addr
    <2>1. Permitted(u)
        BY ZenonT(60), <1>1, <1>6, <1>7, AnsweredByHit DEF Hit, FailedStoreCond
    <2>2. QED
        BY ZenonT(60), <1>3, <2>1 DEF CpuPacket
<1>9. CASE p = u
    BY ZenonT(60), <1>1, <1>6, <1>9
<1>10. CASE p # u
    <2>1. p \in received
        BY ZenonT(60), <1>1, <1>3, <1>10
    <2>2. CASE answered[p.id] = 1
        BY ZenonT(60), <1>2, <1>3, <1>4, <2>1, <2>2 DEF Answers
    <2>3. CASE answered[p.id] # 1
        <3>1. \E e \in Outstanding : q.blkAddr[e] = u.blk
            BY ZenonT(60), <1>1, <1>6, <2>1, <2>3, Waits
        <3>2. WrittenBack(p.blk)
            BY ZenonT(60), <1>1, <1>6, <1>8, <3>1, PermittedIsIdle
        <3>3. QED
            BY ZenonT(60), <1>3, <3>2 DEF WrittenBack
    <2>4. QED
        BY ZenonT(60), <2>2, <2>3
<1>11. QED
    BY ZenonT(60), <1>9, <1>10

LEMMA SendDrains ==
    ASSUME CacheInv, processSendEvent \/ retry
    PROVE  Drains
<1> DEFINE e == getNext(q)
           S == ServicedTargets(e) \cap Request
<1>1. SUFFICES ASSUME NEW p \in received', NEW r \in received',
                      p.blk = r.blk, needsResponse(p.cmd), r.cmd # "StoreCondReq",
                      answered'[r.id] = 1, r \in received => answered[r.id] = 0
               PROVE  answered'[p.id] = 1
    BY ZenonT(60) DEF Drains
<1>2. received' = received
    BY ZenonT(60), SendTakesNothing
<1>3. CASE answered' = answered
    BY <1>1, <1>2, <1>3
<1>4. CASE e # Null /\ MissFails(e) = "none" /\ SendMSHR(e)
    <2>1. e \in Range(q.readyList)
        BY ZenonT(60), <1>4, NextEntry
    <2>2. recvTimingResp(e)
        BY <1>4 DEF SendMSHR
    <2> HIDE DEF e
    <2>3. e \in Entry /\ e \in Outstanding
        BY ZenonT(60), <2>1, ReadyEntry
    <2>4. Answers(S)
        BY ZenonT(60), <1>2, <2>1, <2>2, ResponseAnswers
    <2>5. /\ p.id \in Request /\ r.id \in Request /\ r.id # Copy /\ LedgerInv
          /\ \A v \in received : v.id = r.id => v = r
        <3>1. received \subseteq CpuPacket /\ \A v \in received : v.id = r.id => v = r
            BY ZenonT(60), <1>1, <1>2 DEF CacheInv, LedgerInv, LedgerOf
        <3>2. QED
            BY <1>1, <1>2, <3>1 DEF CpuPacket, Request, Copy, CacheInv
    <2>6. r.id \in S
        BY <1>1, <1>2, <2>4, <2>5 DEF Answers
    <2>7. PICK i \in 1 .. Len(targets[e]) : targets[e][i].id = r.id
        BY ZenonT(60), <2>6 DEF ServicedTargets
    <2>8. r.blk = q.blkAddr[e]
        BY <2>3, <2>5, <2>7, TargetFacts
    <2>9. CASE answered[p.id] = 1
        BY ZenonT(60), <2>4, <2>5, <2>9 DEF Answers
    <2>10. CASE answered[p.id] # 1
        <3>1. PICK d \in Outstanding :
                  q.blkAddr[d] = p.blk /\ \E j \in 1 .. Len(targets[d]) : targets[d][j] = p
            BY ZenonT(60), <1>1, <1>2, <2>10, Waits
        <3>2. d = e
            BY ZenonT(60), <1>1, <2>3, <2>8, <3>1 DEF CacheInv, MissInv, OneMSHRPerBlock
        <3>3. p.id \in S
            BY ZenonT(60), <2>5, <3>1, <3>2 DEF ServicedTargets
        <3>4. QED
            BY ZenonT(60), <2>4, <2>5, <3>3 DEF Answers
    <2>11. QED
        BY ZenonT(60), <2>9, <2>10
<1>5. QED
    BY ZenonT(60), <1>3, <1>4 DEF processSendEvent, retry, SendMSHR, Abort

\* How a step that drains keeps the order of two requests p and r.
LEMMA OrderKept ==
    ASSUME CacheInv, Drains, NEW S, Answers(S),
           NEW p \in received', NEW r \in received', received' \subseteq CpuPacket,
           p.blk = r.blk, needsResponse(p.cmd), r.cmd # "StoreCondReq", answered'[r.id] > 0,
           r \in received /\ answered[r.id] > 0 =>
               (p \in received /\ answered[p.id] > 0) \/ WrittenBack(p.blk)'
    PROVE  answered'[p.id] > 0 \/ WrittenBack(p.blk)'
<1>1. p.id \in Request /\ r.id \in Request /\ answered \in [Request -> {0, 1}]
    BY ZenonT(60) DEF CpuPacket, CacheInv, LedgerInv, LedgerOf
<1>2. answered'[r.id] = 1
    BY <1>1 DEF Answers
<1>3. CASE r \in received /\ answered[r.id] > 0
    <2>1. CASE answered[p.id] > 0
        BY <1>1, <2>1 DEF Answers
    <2>2. QED
        BY ZenonT(60), <1>3, <2>1
<1>4. CASE r \in received => answered[r.id] = 0
    <2>1. answered'[p.id] = 1 \/ WrittenBack(p.blk)'
        BY ZenonT(60), <1>2, <1>4 DEF Drains
    <2>2. QED
        BY <2>1
<1>5. QED
    BY <1>1, <1>3, <1>4

LEMMA AllocInit ==
    ASSUME Init
    PROVE  AllocInv /\ SameBlockInOrder
<1>1. q = NewQueue(CHOOSE b \in Addr : TRUE) /\ received = {}
    BY DEF Init
<1>2. q.allocatedList = << >>
    BY ZenonT(60), <1>1, QueueAssumption, NewQueueProps
<1>3. Outstanding = {}
    BY <1>2 DEF Outstanding, Range
<1>4. QED
    BY ZenonT(60), <1>1, <1>3 DEF AllocInv, AsAllocated, SameBlockInOrder

LEMMA OrderStep ==
    ASSUME CacheInv, AllocInv, SameBlockInOrder, [Next]_vars
    PROVE  AllocInv' /\ SameBlockInOrder'
<1>1. CacheInv' /\ received' \subseteq CpuPacket
    BY ZenonT(60), CacheStep DEF CacheInv, LedgerInv, LedgerOf
<1>2. ASSUME Drains, NEW S, Answers(S), received \subseteq received',
             \A p \in received' \ received : \A r \in received : r.id < p.id /\ ~(p.id < r.id)
      PROVE  SameBlockInOrder'
    <2>1. SUFFICES ASSUME NEW p \in received', NEW r \in received',
                          p.blk = r.blk, p.id < r.id, needsResponse(p.cmd),
                          r.cmd # "StoreCondReq", answered'[r.id] > 0
                   PROVE  answered'[p.id] > 0 \/ WrittenBack(p.blk)'
        BY ZenonT(60) DEF SameBlockInOrder
    <2>2. WrittenBack(p.blk) => WrittenBack(p.blk)'
        BY ZenonT(60), <1>2 DEF WrittenBack
    <2>3. r \in received /\ answered[r.id] > 0 =>
              (p \in received /\ answered[p.id] > 0) \/ WrittenBack(p.blk)'
        BY ZenonT(60), <1>2, <2>1, <2>2 DEF SameBlockInOrder
    <2>4. QED
        BY ZenonT(60), <1>1, <1>2, <2>1, <2>3, OrderKept
<1>3. CASE Arrive
    <2>1. PICK u : Fresh(u) /\ recvTimingReq(u) /\ \A r \in received : r.id < u.id
        BY ZenonT(60), <1>3, ArrivesFresh
    <2>2. \A r \in received : r.id < u.id /\ ~(u.id < r.id)
        <3>1. \A r \in received \cup {u} : r.id \in Nat
            BY <2>1, CacheAssumption DEF Fresh, CacheInv, LedgerInv, LedgerOf, CpuPacket, Request
        <3>2. \A i, j \in Nat : i < j => ~(j < i)
            OBVIOUS
        <3>3. QED
            BY ZenonT(60), <2>1, <3>1, <3>2
    <2>3. AllocInv' /\ Drains
        BY ZenonT(60), <2>1, AllocCall, CallDrains
    <2>4. PICK S \in SUBSET {u.id} : Answers(S)
        BY ZenonT(60), <2>1, CallAnswers
    <2>5. /\ received \subseteq received'
          /\ \A p \in received' \ received : p = u
        BY ZenonT(60), <2>1, TakesItsPacket
    <2>6. SameBlockInOrder'
        BY ZenonT(60), <1>2, <2>2, <2>3, <2>4, <2>5
    <2>7. QED
        BY ZenonT(60), <2>3, <2>6
<1>4. CASE processSendEvent \/ retry
    <2>1. AllocInv' /\ Drains /\ received' = received
        BY ZenonT(60), <1>4, AllocSend, SendDrains, SendTakesNothing
    <2>2. PICK S \in SUBSET {p.id : p \in received} : Answers(S)
        BY ZenonT(60), <1>4, SendAnswers
    <2>3. QED
        BY ZenonT(60), <1>2, <2>1, <2>2
<1>5. CASE UNCHANGED vars
    BY ZenonT(60), <1>5 DEF AllocInv, AsAllocated, WrittenBack, SameBlockInOrder, Outstanding,
       vars, missVars
<1>6. QED
    BY ZenonT(60), <1>3, <1>4, <1>5 DEF Next

LEMMA AllocInvariant == Spec => [](CacheInv /\ AllocInv /\ SameBlockInOrder)
<1>1. Init => CacheInv /\ AllocInv /\ SameBlockInOrder
    BY ZenonT(60), InitKeeps, AllocInit
<1>2. CacheInv /\ AllocInv /\ SameBlockInOrder /\ [Next]_vars
         => (CacheInv /\ AllocInv /\ SameBlockInOrder)'
    BY CacheStep, OrderStep
<1>3. QED
    BY <1>1, <1>2, PTL DEF Spec

\* The requests for one block that no cache above has written back are answered
\* in the order they arrive, although hits answer at once and misses wait for
\* memory (handleTimingReqHit, handleTimingReqMiss, serviceMSHRTargets).
THEOREM RequestsInOrder == Spec => []SameBlockInOrder
BY AllocInvariant, PTL

\* createMissPacket's assert holds when an MSHR is sent, its block is not in the
\* tags, unless a cache above has written that block back.
THEOREM MissesAreNotCached == Spec => []MissNotCached
<1>1. CacheInv /\ AllocInv => MissNotCached
    BY ZenonT(60), AllocFollows
<1>2. QED
    BY <1>1, AllocInvariant, PTL

(***************************************************************************)
(* A locked block                                                          *)
(***************************************************************************)

\* A cache above has written the block of l back since l arrived.
WrittenSince(l) == \E w \in received : isWriteback(w.cmd) /\ w.blk = l.blk /\ l.id < w.id

\* The block that the locked read l has locked: its MSHR stays in service, the
\* block stays cached, and no longer readable.
LockHeld(l) ==
    /\ \E e \in Outstanding : q.inService[e] /\ q.blkAddr[e] = l.blk
    /\ \E w \in Way :
          LET way == tags[extractSet(l.blk)][w]
          IN  /\ way.blk = l.blk /\ "Readable" \notin way.bits
              /\ "Writable" \in way.bits => WrittenSince(l)

LockInv ==
    \A l \in received : l.cmd = "LockedRMWReadReq" /\ answered[l.id] = 1 => LockHeld(l)

\* A step at another block leaves the lock alone.
LEMMA LockStays ==
    ASSUME NEW l \in received, received \subseteq received', l.blk \in Addr, LockHeld(l),
           NEW b, TouchesOnly(b), l.blk # b,
           \A d \in Outstanding : q.blkAddr[d] = l.blk => Stays(d)
    PROVE  LockHeld(l)'
<1>1. PICK e \in Outstanding : q.inService[e] /\ q.blkAddr[e] = l.blk
    BY ZenonT(60) DEF LockHeld
<1>2. e \in Outstanding' /\ q'.inService[e] /\ q'.blkAddr[e] = l.blk
    BY ZenonT(60), <1>1 DEF Stays
<1>3. PICK w \in Way : /\ tags[extractSet(l.blk)][w].blk = l.blk
                       /\ "Readable" \notin tags[extractSet(l.blk)][w].bits
                       /\ "Writable" \in tags[extractSet(l.blk)][w].bits => WrittenSince(l)
    BY ZenonT(60) DEF LockHeld
<1>4. WrittenSince(l) => WrittenSince(l)'
    BY ZenonT(60) DEF WrittenSince
<1>5. /\ tags'[extractSet(l.blk)][w].blk = l.blk
      /\ tags'[extractSet(l.blk)][w].bits = tags[extractSet(l.blk)][w].bits
    BY ZenonT(60), <1>3, AddrProps DEF TouchesOnly
<1>6. QED
    BY ZenonT(60), <1>2, <1>3, <1>4, <1>5 DEF LockHeld

\* What access() finds of a locked block: it is cached, not readable, and
\* writable only after a writeback.
LEMMA LockedLookup ==
    ASSUME CacheInv, NEW l, LockHeld(l), l.blk \in Addr, NEW p, p.blk = l.blk
    PROVE  /\ Cached(p.blk) /\ findMatch(q, p.blk) # Null
           /\ Permitted(p) => needsWritable(p.cmd) /\ WrittenSince(l)
<1>1. PICK w \in Way : /\ tags[extractSet(l.blk)][w].blk = l.blk
                       /\ "Readable" \notin tags[extractSet(l.blk)][w].bits
                       /\ "Writable" \in tags[extractSet(l.blk)][w].bits => WrittenSince(l)
    BY ZenonT(60) DEF LockHeld
<1>2. Cached(l.blk)
    BY ZenonT(60), <1>1, FindBlockProps
<1>3. /\ findBlock(l.blk) \in Way /\ tags[extractSet(l.blk)][findBlock(l.blk)].blk = l.blk
      /\ extractSet(l.blk) \in Set /\ l.blk # NoBlk /\ Placed(tags)
    BY ZenonT(60), <1>2, FindBlockProps, AddrProps DEF CacheInv, TagInv
<1>4. findBlock(l.blk) = w
    BY ZenonT(60), <1>1, <1>3 DEF Placed
<1>5. findMatch(q, l.blk) # Null
    BY ZenonT(60), FindMatchProps DEF LockHeld, CacheInv, MissInv, Outstanding
<1>6. QED
    BY ZenonT(60), <1>1, <1>2, <1>4, <1>5 DEF Permitted, isSet

LEMMA LockCall ==
    ASSUME CacheInv, LockInv, LockKeepsOthersOut,
           NEW u, Fresh(u), recvTimingReq(u), \A r \in received : r.id < u.id
    PROVE  LockInv' /\ LockKeepsOthersOut'
<1>1. PICK S \in SUBSET {u.id} : Answers(S)
    BY ZenonT(60), CallAnswers
<1>2. /\ received \subseteq received' /\ \A v \in received' : v \in received \/ v = u
      /\ received \subseteq CpuPacket /\ u \in CpuPacket
      /\ \A v \in received : v.id # u.id
    BY TakesItsPacket DEF CacheInv, LedgerInv, LedgerOf, Fresh
<1>3. \A v \in CpuPacket : v.id \in Request /\ v.id \in Nat /\ v.blk \in Addr
    BY CacheAssumption DEF CpuPacket, Request
<1>4. \A v \in received : answered'[v.id] = answered[v.id] /\ answered[v.id] \in {0, 1}
    <2>1. \A v \in received : v.id \in Request /\ v.id \notin S
        BY ZenonT(60), <1>1, <1>2, <1>3
    <2>2. QED
        BY ZenonT(60), <2>1, <1>1 DEF Answers, CacheInv, LedgerInv, LedgerOf
<1>5. ASSUME NEW l \in received, l.cmd = "LockedRMWReadReq", answered[l.id] = 1
      PROVE  LockHeld(l) /\ l.blk \in Addr /\ l.blk # NoBlk
    BY ZenonT(60), <1>2, <1>3, <1>5, AddrProps DEF LockInv
<1>6. ASSUME NEW l \in received, l.cmd = "LockedRMWReadReq", answered[l.id] = 1
      PROVE  LockHeld(l)'
    <2>1. LockHeld(l) /\ l.blk \in Addr /\ l.blk # NoBlk
        BY ZenonT(60), <1>5, <1>6
    <2>2. ASSUME NEW b, TouchesOnly(b), l.blk # b, \A d \in Outstanding : Stays(d)
          PROVE  LockHeld(l)'
        BY ZenonT(60), <1>2, <2>1, <2>2, LockStays
    <2>3. CASE q' = q /\ tags' = tags
        BY ZenonT(60), <2>1, <2>2, <2>3, AllStay, TouchesNothing
    <2>4. CASE Marks(u) /\ isWriteback(u.cmd)
        <3>1. q' = q /\ TouchesOnly(u.blk) /\ u \in received'
            BY ZenonT(60), <2>4 DEF Marks
        <3>2. CASE u.blk # l.blk
            BY ZenonT(60), <2>2, <3>1, <3>2, AllStay
        <3>3. CASE u.blk = l.blk
            <4>1. WrittenSince(l)'
                BY ZenonT(60), <1>6, <2>4, <3>1, <3>3 DEF WrittenSince
            <4>2. PICK w \in Way : /\ tags[extractSet(l.blk)][w].blk = l.blk
                                   /\ "Readable" \notin tags[extractSet(l.blk)][w].bits
                BY ZenonT(60), <2>1 DEF LockHeld
            <4>3. /\ tags'[extractSet(l.blk)][w].blk = l.blk
                  /\ "Readable" \notin tags'[extractSet(l.blk)][w].bits
                BY ZenonT(60), <2>1, <2>4, <3>3, <4>2, AddrProps DEF Marks
            <4>4. \E e \in Outstanding' : q'.inService[e] /\ q'.blkAddr[e] = l.blk
                BY ZenonT(60), <2>1, <3>1, AllStay DEF LockHeld
            <4>5. QED
                BY ZenonT(60), <4>1, <4>3, <4>4 DEF LockHeld
        <3>4. QED
            BY ZenonT(60), <3>2, <3>3
    <2>5. CASE Marks(u) /\ u.cmd = "WriteClean" /\ Permitted(u)
        <3>1. ~needsWritable(u.cmd)
            BY <2>5 DEF needsWritable
        <3>2. u.blk # l.blk
            BY ZenonT(60), <2>1, <2>5, <3>1, LockedLookup
        <3>3. QED
            BY ZenonT(60), <2>2, <2>5, <3>2, AllStay DEF Marks
    <2>6. CASE Locks(u)
        <3>1. PICK e : Allocates(u, e) /\ TouchesOnly(u.blk)
            BY ZenonT(60), <2>6 DEF Locks
        <3>2. /\ \A d \in Outstanding : Stays(d) /\ q.blkAddr[d] # u.blk
            BY ZenonT(60), <3>1 DEF Allocates
        <3>3. u.blk # l.blk
            BY ZenonT(60), <2>1, <3>2 DEF LockHeld
        <3>4. QED
            BY ZenonT(60), <2>2, <3>1, <3>2, <3>3
    <2>7. CASE Misses(u)
        BY ZenonT(60), <2>1, <2>2, <2>7, TouchesNothing DEF Misses, Allocates
    <2>8. QED
        BY ZenonT(60), <2>3, <2>4, <2>5, <2>6, <2>7, CallCases
<1>7. ASSUME answered'[u.id] # 0
      PROVE  /\ Hit(u) \/ Locks(u)
             /\ Permitted(u) \/ FailedStoreCond(u)
    <2>1. answered' # answered
        BY ZenonT(60), <1>7, UnansweredBefore
    <2>2. Hit(u) \/ (LockedReadHit(u) /\ Permitted(u))
        BY ZenonT(60), <2>1, AnsweredByHit
    <2>3. CASE Hit(u)
        BY ZenonT(60), <2>3 DEF Hit
    <2>4. CASE LockedReadHit(u) /\ Permitted(u)
        BY ZenonT(60), <2>1, <2>4, LockTakesMSHR
    <2>5. QED
        BY ZenonT(60), <2>2, <2>3, <2>4
<1>8. LockInv'
    <2>1. SUFFICES ASSUME NEW l \in received', l.cmd = "LockedRMWReadReq", answered'[l.id] = 1
                   PROVE  LockHeld(l)'
        BY ZenonT(60) DEF LockInv
    <2>2. CASE l \in received
        BY ZenonT(60), <1>4, <1>6, <2>1, <2>2
    <2>3. CASE l = u
        <3>1. Locks(u)
            BY <1>7, <2>1, <2>3 DEF Hit
        <3>2. PICK e : Allocates(u, e) /\ q'.inService[e]
            BY ZenonT(60), <3>1 DEF Locks
        <3>3. e \in Outstanding' /\ q'.blkAddr[e] = u.blk /\ AsAllocated(e)'
            BY ZenonT(60), <3>2 DEF Allocates
        <3>4. PICK w \in Way : /\ tags'[extractSet(u.blk)][w].blk = u.blk
                               /\ tags'[extractSet(u.blk)][w].bits \cap Both = {}
            BY ZenonT(60), <3>2, <3>3 DEF AsAllocated
        <3>5. /\ "Readable" \notin tags'[extractSet(u.blk)][w].bits
              /\ "Writable" \notin tags'[extractSet(u.blk)][w].bits
            BY <3>4 DEF Both
        <3>6. QED
            BY ZenonT(60), <2>3, <3>2, <3>3, <3>4, <3>5 DEF LockHeld
    <2>4. QED
        BY ZenonT(60), <1>2, <2>1, <2>2, <2>3
<1>9. LockKeepsOthersOut'
    <2>1. SUFFICES ASSUME NEW l \in received', NEW p \in received',
                          l.cmd = "LockedRMWReadReq", answered'[l.id] > 0, p.blk = l.blk,
                          l.id < p.id, answered'[p.id] > 0
                   PROVE  /\ needsWritable(p.cmd)
                          /\ \E w \in received' : /\ isWriteback(w.cmd) /\ w.blk = l.blk
                                                  /\ l.id < w.id /\ w.id < p.id
        BY ZenonT(60) DEF LockKeepsOthersOut
    <2>2. l \in received
        <3>1. u.id \in Nat /\ \A v \in received : v.id \in Nat /\ v.id < u.id
            BY ZenonT(60), <1>2, <1>3
        <3>2. QED
            BY <1>2, <2>1, <3>1
    <2>3. answered[l.id] = 1 /\ answered[l.id] > 0
        BY <1>4, <2>1, <2>2
    <2>4. CASE p \in received
        <3>1. answered[p.id] > 0
            BY ZenonT(60), <1>4, <2>1, <2>4
        <3>2. QED
            BY ZenonT(60), <1>2, <2>1, <2>2, <2>3, <2>4, <3>1 DEF LockKeepsOthersOut
    <2>5. CASE p = u
        <3>1. LockHeld(l) /\ l.blk \in Addr
            BY ZenonT(60), <1>5, <2>1, <2>2, <2>3
        <3>2. Cached(u.blk)
            BY ZenonT(60), <2>1, <2>5, <3>1, LockedLookup
        <3>3. answered'[u.id] # 0
            BY <2>1, <2>5
        <3>4. Permitted(u)
            BY ZenonT(60), <1>7, <3>2, <3>3 DEF FailedStoreCond
        <3>5. needsWritable(u.cmd) /\ WrittenSince(l)
            BY ZenonT(60), <2>1, <2>5, <3>1, <3>4, LockedLookup
        <3>6. QED
            BY ZenonT(60), <1>2, <2>5, <3>5 DEF WrittenSince
    <2>6. QED
        BY ZenonT(60), <1>2, <2>1, <2>4, <2>5
<1>10. QED
    BY ZenonT(60), <1>8, <1>9

LEMMA LockSend ==
    ASSUME CacheInv, LockInv, LockKeepsOthersOut, processSendEvent \/ retry
    PROVE  LockInv' /\ LockKeepsOthersOut'
<1>1. received' = received
    BY ZenonT(60), SendTakesNothing
<1>2. \A v \in received : v.id \in Request /\ v.id # Copy /\ v.blk \in Addr
    BY DEF CacheInv, LedgerInv, LedgerOf, CpuPacket, Request, Copy
<1>3. CASE q' = q /\ tags' = tags /\ answered' = answered
    <2>1. Outstanding' = Outstanding
        BY ZenonT(60), <1>3, AllStay
    <2>2. \A l \in received : LockHeld(l) => LockHeld(l)'
        BY ZenonT(60), <1>1, <1>3, <2>1 DEF LockHeld, WrittenSince
    <2>3. QED
        BY ZenonT(60), <1>1, <1>3, <2>2 DEF LockInv, LockKeepsOthersOut
<1>4. CASE \E e \in Range(q.readyList) : Serves(e)
    <2>1. PICK e \in Range(q.readyList) : Serves(e)
        BY <1>4
    <2>2. /\ e \in Entry /\ e \in Outstanding /\ ~q.inService[e]
          /\ LedgerInv /\ answered \in [Request -> {0, 1}]
        BY ZenonT(60), ReadyEntry DEF CacheInv, LedgerInv, LedgerOf
    <2>3. ASSUME NEW v \in received, answered'[v.id] > 0, ~(answered[v.id] > 0)
          PROVE  v.blk = q.blkAddr[e] /\ v.cmd # "LockedRMWReadReq"
        <3>1. v.id \in ServicedTargets(e)
            <4>1. answered'[v.id] = answered[v.id] + IF v.id \in ServicedTargets(e) THEN 1 ELSE 0
                BY ZenonT(60), <1>2, <2>1, <2>3 DEF Serves, Respond
            <4>2. QED
                BY <1>2, <2>2, <2>3, <4>1
        <3>2. PICK i \in 1 .. Len(targets[e]) : targets[e][i].id = v.id
            BY ZenonT(60), <3>1 DEF ServicedTargets
        <3>3. targets[e][i] \in received /\ targets[e][i].blk = q.blkAddr[e]
            BY ZenonT(60), <1>2, <2>2, <2>3, <3>2, TargetFacts
        <3>4. targets[e][i] = v
            BY ZenonT(60), <2>3, <3>2, <3>3 DEF CacheInv, LedgerInv, LedgerOf
        <3>5. ~TargetsLeft(e)
            BY ZenonT(60), <2>1, MissFailsProps DEF Serves
        <3>6. QED
            BY ZenonT(60), <3>2, <3>3, <3>4, <3>5 DEF TargetsLeft
    <2>4. ASSUME NEW l \in received, l.cmd = "LockedRMWReadReq", answered'[l.id] > 0
          PROVE  answered[l.id] = 1 /\ answered[l.id] > 0 /\ LockHeld(l)
        <3>1. answered[l.id] > 0
            BY ZenonT(60), <2>3, <2>4
        <3>2. answered[l.id] = 1
            BY <1>2, <2>2, <3>1
        <3>3. QED
            BY ZenonT(60), <2>4, <3>1, <3>2 DEF LockInv
    <2>5. ASSUME NEW l \in received, LockHeld(l)
          PROVE  l.blk # q.blkAddr[e] /\ LockHeld(l)'
        <3>1. l.blk # q.blkAddr[e]
            BY ZenonT(60), <2>2, <2>5 DEF LockHeld, CacheInv, MissInv, OneMSHRPerBlock
        <3>2. \A d \in Outstanding : q.blkAddr[d] = l.blk => Stays(d)
            BY ZenonT(60), <2>1, <3>1 DEF Serves
        <3>3. TouchesOnly(q.blkAddr[e]) /\ received \subseteq received' /\ l.blk \in Addr
            BY ZenonT(60), <1>1, <1>2, <2>1 DEF Serves
        <3>4. QED
            BY ZenonT(60), <2>5, <3>1, <3>2, <3>3, LockStays
    <2>6. LockInv'
        <3>1. SUFFICES ASSUME NEW l \in received, l.cmd = "LockedRMWReadReq", answered'[l.id] = 1
                       PROVE  LockHeld(l)'
            BY ZenonT(60), <1>1 DEF LockInv
        <3>2. answered'[l.id] > 0
            BY <3>1
        <3>3. QED
            BY ZenonT(60), <2>4, <2>5, <3>1, <3>2
    <2>7. LockKeepsOthersOut'
        <3>1. SUFFICES ASSUME NEW l \in received, NEW p \in received,
                              l.cmd = "LockedRMWReadReq", answered'[l.id] > 0, p.blk = l.blk,
                              l.id < p.id, answered'[p.id] > 0
                       PROVE  answered[l.id] > 0 /\ answered[p.id] > 0
            BY ZenonT(60), <1>1 DEF LockKeepsOthersOut
        <3>2. answered[l.id] > 0 /\ l.blk # q.blkAddr[e]
            BY ZenonT(60), <2>4, <2>5, <3>1
        <3>3. QED
            BY ZenonT(60), <2>3, <3>1, <3>2
    <2>8. QED
        BY ZenonT(60), <2>6, <2>7
<1>5. QED
    BY ZenonT(60), <1>3, <1>4, SendCases

\* Once a locked read is answered no later request to its block is, but for a
\* write after a writeback to the block, whatever hits, misses, responses and
\* writebacks come in between (handleTimingReqHit, NoncoherentCache::access).
THEOREM LocksKeepOthersOut == Spec => []LockKeepsOthersOut
<1>1. Init => LockInv /\ LockKeepsOthersOut
    BY DEF Init, LockInv, LockKeepsOthersOut
<1>2. CacheInv /\ LockInv /\ LockKeepsOthersOut /\ [Next]_vars => (LockInv /\ LockKeepsOthersOut)'
    <2>1. SUFFICES ASSUME CacheInv, LockInv, LockKeepsOthersOut, [Next]_vars
                   PROVE  (LockInv /\ LockKeepsOthersOut)'
        OBVIOUS
    <2>2. CASE Arrive
        BY ZenonT(60), <2>1, <2>2, ArrivesFresh, LockCall
    <2>3. CASE processSendEvent \/ retry
        BY ZenonT(60), <2>1, <2>3, LockSend
    <2>4. CASE UNCHANGED vars
        BY ZenonT(60), <2>1, <2>4 DEF LockInv, LockHeld, WrittenSince, LockKeepsOthersOut,
           Outstanding, vars, missVars
    <2>5. QED
        BY ZenonT(60), <2>1, <2>2, <2>3, <2>4 DEF Next
<1>3. QED
    BY <1>1, <1>2, CacheInvariant, PTL DEF Spec

(***************************************************************************)
(* The ports                                                               *)
(***************************************************************************)

\* Each port hands over its packets in the order they were written to it.
PortSequence ==
    /\ \A m \in Port : \A i \in 1 .. Len(fifo[m]) :
           /\ from[fifo[m][i].id] = m
           /\ \A p \in received : from[p.id] = m => p.id < fifo[m][i].id
    /\ \A m \in Port : \A i, j \in 1 .. Len(fifo[m]) : i < j => fifo[m][i].id < fifo[m][j].id

LEMMA PortWrite ==
    ASSUME CacheInv, PortInv, PortSequence, PortOrder,
           NEW m \in Port, NEW c \in Cmds, NEW b \in Addr, CpuWrite(m, c, b)
    PROVE  PortSequence' /\ PortOrder'
<1> DEFINE n == Len(from) + 1
           p == [id |-> n, cmd |-> c, blk |-> b]
           s == Append(fifo[m], p)
<1>1. from \in Seq(Port) /\ Len(from) \in Nat /\ fifo \in [Port -> Seq(CpuPacket)]
    BY DEF PortInv
<1>2. /\ fifo' = [fifo EXCEPT ![m] = s] /\ from' = Append(from, m)
      /\ received' = received /\ answered' = answered
    BY DEF CpuWrite, vars
<1>3. p.id = n /\ n \in Nat /\ n > Len(from)
    BY <1>1
<1> HIDE DEF p
<1>4. from'[n] = m /\ \A k \in 1 .. Len(from) : from'[k] = from[k]
    BY <1>1, <1>2
<1> HIDE DEF n
<1>5. \A k \in Port : \A i \in 1 .. Len(fifo'[k]) :
          \/ i \in 1 .. Len(fifo[k]) /\ fifo'[k][i] = fifo[k][i]
          \/ k = m /\ i = Len(fifo[m]) + 1 /\ fifo'[k][i] = p
    <2>1. fifo[m] \in Seq(CpuPacket \cup {p}) /\ p \in CpuPacket \cup {p}
        BY <1>1
    <2>2. \A i \in 1 .. Len(s) : \/ i \in 1 .. Len(fifo[m]) /\ s[i] = fifo[m][i]
                                 \/ i = Len(fifo[m]) + 1 /\ s[i] = p
        BY <2>1
    <2> HIDE DEF s
    <2>3. \A k \in Port : fifo'[k] = IF k = m THEN s ELSE fifo[k]
        BY ZenonT(60), <1>1, <1>2
    <2>4. QED
        BY ZenonT(60), <2>2, <2>3
<1> HIDE DEF s
<1>6. /\ \A u \in received : u.id \in 1 .. Len(from)
      /\ \A k \in Port : \A i \in 1 .. Len(fifo[k]) : fifo[k][i].id \in 1 .. Len(from)
    <2>1. \A u \in CpuPacket : u.id \in Nat /\ 1 <= u.id
        BY CacheAssumption DEF CpuPacket, Request
    <2>2. received \subseteq CpuPacket
        BY DEF CacheInv, LedgerInv, LedgerOf
    <2>3. \A k \in Port : \A i \in 1 .. Len(fifo[k]) : fifo[k][i] \in CpuPacket
        BY <1>1
    <2>4. QED
        BY SMTT(30), <1>1, <2>1, <2>2, <2>3 DEF PortInv
<1>7. \A k \in Port : \A i \in 1 .. Len(fifo'[k]) :
          /\ from'[fifo'[k][i].id] = k
          /\ \A u \in received : from'[u.id] = k => u.id < fifo'[k][i].id
    <2>1. SUFFICES ASSUME NEW k \in Port, NEW i \in 1 .. Len(fifo'[k])
                   PROVE  /\ from'[fifo'[k][i].id] = k
                          /\ \A u \in received : from'[u.id] = k => u.id < fifo'[k][i].id
        BY ZenonT(60)
    <2>2. CASE i \in 1 .. Len(fifo[k]) /\ fifo'[k][i] = fifo[k][i]
        BY ZenonT(60), <1>4, <1>6, <2>2 DEF PortSequence
    <2>3. CASE k = m /\ fifo'[k][i] = p
        BY <1>1, <1>3, <1>4, <1>6, <2>3
    <2>4. QED
        BY ZenonT(60), <1>5, <2>2, <2>3
<1>8. \A k \in Port : \A i, j \in 1 .. Len(fifo'[k]) : i < j => fifo'[k][i].id < fifo'[k][j].id
    <2>1. SUFFICES ASSUME NEW k \in Port, NEW i \in 1 .. Len(fifo'[k]),
                          NEW j \in 1 .. Len(fifo'[k]), i < j
                   PROVE  fifo'[k][i].id < fifo'[k][j].id
        OBVIOUS
    <2>2. Len(fifo[k]) \in Nat /\ Len(fifo[m]) \in Nat
        BY <1>1
    <2>3. CASE j \in 1 .. Len(fifo[k]) /\ fifo'[k][j] = fifo[k][j]
        <3>1. i \in 1 .. Len(fifo[k]) /\ fifo'[k][i] = fifo[k][i]
            BY <1>5, <2>1, <2>2, <2>3
        <3>2. QED
            BY ZenonT(60), <2>1, <2>3, <3>1 DEF PortSequence
    <2>4. CASE k = m /\ j = Len(fifo[m]) + 1 /\ fifo'[k][j] = p
        <3>1. i \in 1 .. Len(fifo[k]) /\ fifo'[k][i] = fifo[k][i]
            BY <1>5, <2>1, <2>2, <2>4
        <3>2. fifo[k][i].id \in 1 .. Len(from)
            BY ZenonT(60), <1>6, <3>1
        <3>3. fifo[k][i].id < n
            BY <1>1, <1>3, <3>2
        <3>4. QED
            BY ZenonT(60), <1>3, <2>4, <3>1, <3>3
    <2>5. QED
        BY ZenonT(60), <1>5, <2>3, <2>4
<1>9. PortSequence'
    BY ZenonT(60), <1>2, <1>7, <1>8 DEF PortSequence
<1>10. PortOrder'
    <2>1. \A v \in received : from'[v.id] = from[v.id]
        BY ZenonT(60), <1>4, <1>6
    <2>2. received' = received /\ answered' = answered
        BY ZenonT(60), <1>2
    <2>3. SUFFICES ASSUME NEW u \in received, NEW r \in received,
                          u.blk = r.blk, u.id < r.id, from'[u.id] = from'[r.id],
                          needsResponse(u.cmd), r.cmd # "StoreCondReq", answered[r.id] > 0
                   PROVE  answered[u.id] > 0 \/ WrittenBack(u.blk)
        BY ZenonT(60), <2>2 DEF PortOrder, WrittenBack
    <2>4. from[u.id] = from[r.id]
        BY ZenonT(60), <2>1, <2>3
    <2>5. QED
        BY ZenonT(60), <2>3, <2>4 DEF PortOrder
<1>11. QED
    BY ZenonT(60), <1>9, <1>10

LEMMA PortRead ==
    ASSUME CacheInv, PortInv, PortSequence, PortOrder, AllocInv,
           NEW m \in Port, ReqMonitor(m)
    PROVE  PortSequence' /\ PortOrder'
<1> DEFINE u == Head(fifo[m])
           s == Tail(fifo[m])
<1>1. /\ fifo[m] # << >> /\ recvTimingReq(u) /\ fifo' = [fifo EXCEPT ![m] = s] /\ from' = from
    BY DEF ReqMonitor
<1>2. Fresh(u)
    BY ZenonT(60), <1>1, HeadIsFresh
<1>3. fifo \in [Port -> Seq(CpuPacket)] /\ fifo[m] \in Seq(CpuPacket)
    BY DEF PortInv
<1>4. /\ u = fifo[m][1] /\ 1 \in 1 .. Len(fifo[m]) /\ Len(fifo[m]) \in Nat
      /\ \A i \in 1 .. Len(s) : i + 1 \in 2 .. Len(fifo[m]) /\ s[i] = fifo[m][i + 1]
    BY <1>1, <1>3
<1>5. \A k \in Port : fifo'[k] = IF k = m THEN s ELSE fifo[k]
    BY ZenonT(60), <1>1, <1>3
<1> HIDE DEF u, s
<1>6. received \subseteq received' /\ \A p \in received' : p \in received \/ p = u
    BY <1>1, TakesItsPacket
<1>7. from[u.id] = m /\ \A r \in received : from[r.id] = m => r.id < u.id
    BY ZenonT(60), <1>4 DEF PortSequence
<1>8. PortSequence'
    <2>1. \A k \in Port : \A i \in 1 .. Len(fifo'[k]) :
              /\ from[fifo'[k][i].id] = k
              /\ \A p \in received' : from[p.id] = k => p.id < fifo'[k][i].id
        <3>1. SUFFICES ASSUME NEW k \in Port, NEW i \in 1 .. Len(fifo'[k])
                       PROVE  /\ from[fifo'[k][i].id] = k
                              /\ \A p \in received' : from[p.id] = k => p.id < fifo'[k][i].id
            BY ZenonT(60)
        <3>2. CASE k # m
            BY ZenonT(60), <1>5, <1>6, <1>7, <3>2 DEF PortSequence
        <3>3. CASE k = m
            <4>1. /\ i + 1 \in 1 .. Len(fifo[m]) /\ fifo'[k][i] = fifo[m][i + 1] /\ 1 < i + 1
                BY <1>4, <1>5, <3>3
            <4>2. /\ from[fifo[m][i + 1].id] = m
                  /\ \A p \in received : from[p.id] = m => p.id < fifo[m][i + 1].id
                BY ZenonT(60), <4>1 DEF PortSequence
            <4>3. fifo[m][1].id < fifo[m][i + 1].id
                BY ZenonT(60), <1>4, <4>1 DEF PortSequence
            <4>4. QED
                BY ZenonT(60), <1>4, <1>6, <3>3, <4>1, <4>2, <4>3
        <3>4. QED
            BY ZenonT(60), <3>2, <3>3
    <2>2. \A k \in Port : \A i, j \in 1 .. Len(fifo'[k]) : i < j => fifo'[k][i].id < fifo'[k][j].id
        <3>1. SUFFICES ASSUME NEW k \in Port, NEW i \in 1 .. Len(fifo'[k]),
                              NEW j \in 1 .. Len(fifo'[k]), i < j
                       PROVE  fifo'[k][i].id < fifo'[k][j].id
            BY ZenonT(60)
        <3>2. CASE k # m
            BY ZenonT(60), <1>5, <3>1, <3>2 DEF PortSequence
        <3>3. CASE k = m
            <4>1. /\ i + 1 \in 1 .. Len(fifo[m]) /\ fifo'[k][i] = fifo[m][i + 1]
                  /\ j + 1 \in 1 .. Len(fifo[m]) /\ fifo'[k][j] = fifo[m][j + 1]
                  /\ i + 1 < j + 1
                BY <1>4, <1>5, <3>1, <3>3
            <4>2. QED
                BY ZenonT(60), <4>1 DEF PortSequence
        <3>4. QED
            BY ZenonT(60), <3>2, <3>3
    <2>3. QED
        BY ZenonT(60), <1>1, <2>1, <2>2 DEF PortSequence
<1>9. PortOrder'
    <2>1. SUFFICES ASSUME NEW p \in received', NEW r \in received',
                          p.blk = r.blk, p.id < r.id, from[p.id] = from[r.id],
                          needsResponse(p.cmd), r.cmd # "StoreCondReq", answered'[r.id] > 0
                   PROVE  answered'[p.id] > 0 \/ WrittenBack(p.blk)'
        BY ZenonT(60), <1>1 DEF PortOrder
    <2>2. Drains
        BY ZenonT(60), <1>1, <1>2, CallDrains
    <2>3. PICK S \in SUBSET {u.id} : Answers(S)
        BY ZenonT(60), <1>1, <1>2, CallAnswers
    <2>4. received' \subseteq CpuPacket
        BY ZenonT(60), <1>2, <1>6 DEF Fresh, CacheInv, LedgerInv, LedgerOf
    <2>5. r \in received => p \in received
        <3>1. \A v \in CpuPacket : v.id \in Nat
            BY CacheAssumption DEF CpuPacket, Request
        <3>2. QED
            BY <1>6, <1>7, <2>1, <2>4, <3>1
    <2>6. r \in received /\ answered[r.id] > 0 =>
              (p \in received /\ answered[p.id] > 0) \/ WrittenBack(p.blk)'
        BY ZenonT(60), <1>6, <2>1, <2>5 DEF PortOrder, WrittenBack
    <2>7. QED
        BY ZenonT(60), <2>1, <2>2, <2>3, <2>4, <2>6, OrderKept
<1>10. QED
    BY ZenonT(60), <1>8, <1>9

LEMMA PortStep ==
    ASSUME CacheInv, PortInv, AllocInv, PortSequence, PortOrder, [L0Next]_l0Vars
    PROVE  AllocInv' /\ PortSequence' /\ PortOrder'
<1>1. CASE \E m \in Port, c \in Cmds, b \in Addr : CpuWrite(m, c, b)
    <2>1. PICK m \in Port, c \in Cmds, b \in Addr : CpuWrite(m, c, b)
        BY ZenonT(60), <1>1
    <2>2. q' = q /\ tags' = tags /\ received' = received
        BY ZenonT(60), <2>1 DEF CpuWrite, vars, missVars
    <2>3. AllocInv'
        BY ZenonT(60), <2>2 DEF AllocInv, AsAllocated, WrittenBack, Outstanding
    <2>4. QED
        BY ZenonT(60), <2>1, <2>3, PortWrite
<1>2. CASE \E m \in Port : ReqMonitor(m)
    <2>1. PICK m \in Port : ReqMonitor(m)
        BY <1>2
    <2>2. fifo[m] # << >> /\ recvTimingReq(Head(fifo[m]))
        BY ZenonT(60), <2>1 DEF ReqMonitor
    <2>3. AllocInv'
        BY ZenonT(60), <2>2, HeadIsFresh, AllocCall
    <2>4. QED
        BY ZenonT(60), <2>1, <2>3, PortRead
<1>3. CASE PktQueueProcess
    <2>1. processSendEvent /\ fifo' = fifo /\ from' = from /\ received' = received
        BY ZenonT(60), <1>3, SendTakesNothing DEF PktQueueProcess
    <2>2. AllocInv' /\ Drains /\ received' \subseteq CpuPacket
        BY ZenonT(60), <2>1, AllocSend, SendDrains DEF CacheInv, LedgerInv, LedgerOf
    <2>3. PICK S \in SUBSET {p.id : p \in received} : Answers(S)
        BY ZenonT(60), <2>1, SendAnswers
    <2>4. PortSequence'
        BY ZenonT(60), <2>1 DEF PortSequence
    <2>5. PortOrder'
        <3>1. SUFFICES ASSUME NEW p \in received', NEW r \in received',
                              p.blk = r.blk, p.id < r.id, from[p.id] = from[r.id],
                              needsResponse(p.cmd), r.cmd # "StoreCondReq", answered'[r.id] > 0
                       PROVE  answered'[p.id] > 0 \/ WrittenBack(p.blk)'
            BY ZenonT(60), <2>1 DEF PortOrder
        <3>2. r \in received /\ answered[r.id] > 0 =>
                  (p \in received /\ answered[p.id] > 0) \/ WrittenBack(p.blk)'
            BY ZenonT(60), <2>1, <3>1 DEF PortOrder, WrittenBack
        <3>3. QED
            BY ZenonT(60), <2>2, <2>3, <3>1, <3>2, OrderKept
    <2>6. QED
        BY ZenonT(60), <2>2, <2>4, <2>5
<1>4. CASE UNCHANGED l0Vars
    <2>1. /\ q' = q /\ tags' = tags /\ fifo' = fifo /\ from' = from
          /\ received' = received /\ answered' = answered
        BY ZenonT(60), <1>4 DEF l0Vars, vars, missVars
    <2>2. AllocInv'
        BY ZenonT(60), <2>1 DEF AllocInv, AsAllocated, WrittenBack, Outstanding
    <2>3. PortSequence' /\ PortOrder'
        BY ZenonT(60), <2>1 DEF PortSequence, PortOrder, WrittenBack
    <2>4. QED
        BY ZenonT(60), <2>2, <2>3
<1>5. QED
    BY ZenonT(60), <1>1, <1>2, <1>3, <1>4 DEF L0Next

\* The requests of one port to one block that no cache above has written back are
\* answered in program order, although the ports race (ReqMonitor, recvTimingReq).
THEOREM PortsInOrder == L0Spec => []PortOrder
<1>1. L0Init => AllocInv /\ PortSequence /\ PortOrder
    <2>1. ASSUME L0Init PROVE AllocInv /\ PortSequence /\ PortOrder
        <3>1. Init /\ received = {} /\ fifo = [m \in Port |-> << >>]
            BY <2>1 DEF L0Init, Init
        <3>2. \A m \in Port : 1 .. Len(fifo[m]) = {}
            BY <3>1
        <3>3. QED
            BY ZenonT(60), <3>1, <3>2, AllocInit DEF PortSequence, PortOrder
    <2>2. QED
        BY ZenonT(60), <2>1
<1>2. CacheInv /\ PortInv /\ AllocInv /\ PortSequence /\ PortOrder /\ [L0Next]_l0Vars
          => (AllocInv /\ PortSequence /\ PortOrder)'
    BY PortStep
<1>3. QED
    BY <1>1, <1>2, L0Invariant, PTL DEF L0Spec

===============================================================================
