---------------------------------- MODULE L0 ----------------------------------
(***************************************************************************)
(* The assembled level-0 cache (top/l0.cpp): three CPU-side ports, each    *)
(* with a bounded sc_fifo and a ReqMonitor process, in front of one        *)
(* NoncoherentCache whose pktQueueProcess reads the memory below.  The     *)
(* processes of the CPU (top/top.cpp) write packets into the fifos.        *)
(*                                                                         *)
(* ReqMonitor never looks at `blocked', and nothing calls                  *)
(* PacketQueue::retry: the cache's Next loses that action here.            *)
(***************************************************************************)
EXTENDS NoncoherentCache

CONSTANTS Port,         \* load0, load1, store
          fifoCapacity  \* port -> slots of its fifo

ASSUME PortAssumption == fifoCapacity \in [Port -> Nat \ {0}]

VARIABLES fifo,  \* port -> packets written and not yet read
          from   \* request -> the port it was written to

l0Vars == <<vars, fifo, from>>

L0Init ==
    /\ Init
    /\ fifo = [m \in Port |-> << >>]
    /\ from = << >>

HasRoom(m) == Len(fifo[m]) < fifoCapacity[m]

\* A CPU process writes a packet; sc_fifo::write waits while the fifo is full.
CpuWrite(m, c, b) ==
    /\ abort = "none"
    /\ Len(from) < maxRequests
    /\ HasRoom(m)
    /\ fifo' = [fifo EXCEPT ![m] = Append(@, [id |-> Len(from) + 1, cmd |-> c, blk |-> b])]
    /\ from' = Append(from, m)
    /\ UNCHANGED vars

\* Mutant: the port waits for the retry of the packet queue.
ReqMonitorStalls(m) ==
    /\ fifo[m] # << >> /\ ~waitingOnRetry
    /\ recvTimingReq(Head(fifo[m]))
    /\ fifo' = [fifo EXCEPT ![m] = Tail(@)]
    /\ UNCHANGED from

\* ReqMonitor of port m: read the next packet and hand it to the cache.
ReqMonitor(m) ==
    /\ fifo[m] # << >>
    /\ recvTimingReq(Head(fifo[m]))
    /\ fifo' = [fifo EXCEPT ![m] = Tail(@)]
    /\ UNCHANGED from

PktQueueProcess == processSendEvent /\ UNCHANGED <<fifo, from>>

L0Next ==
    \/ \E m \in Port, c \in Cmds, b \in Addr : CpuWrite(m, c, b)
    \/ \E m \in Port : ReqMonitor(m)
    \/ PktQueueProcess

\* The SystemC scheduler runs every runnable process before time advances.
L0Fairness == (\A m \in Port : WF_l0Vars(ReqMonitor(m))) /\ WF_l0Vars(PktQueueProcess)

L0Spec == L0Init /\ [][L0Next]_l0Vars /\ L0Fairness

(***************************************************************************)
(* Properties                                                              *)
(***************************************************************************)

Ledger == INSTANCE RequestLedger
            WITH submitted <- 1 .. Len(from), answers <- answered

\* The assembled cache keeps the requestors' ledger: whatever the interleaving
\* of the ports, a request is answered at most once and only after it was
\* written to a port.
ImplementsLedger == Ledger!LedgerSpec

\* The requests of one port to one block are answered in program order, unless a
\* cache above writes the block back in between.
PortOrder ==
    \A p, r \in received :
        (/\ p.blk = r.blk /\ p.id < r.id /\ from[p.id] = from[r.id]
         /\ needsResponse(p.cmd) /\ r.cmd # "StoreCondReq"
         /\ answered[r.id] > 0) => answered[p.id] > 0 \/ WrittenBack(p.blk)

\* Every packet written is taken by its ReqMonitor, unless an assert fails: no
\* port waits for another or for the cache to unblock.
EveryRequestTaken ==
    \A r \in Request :
        r <= Len(from) ~> (\E p \in received : p.id = r) \/ abort # "none"

\* As long as the packet queue does not wait for a retry, a miss that is ready
\* is sent and its requests are answered, unless an assert fails: the one
\* notification per allocation is enough.
ReadyMissServed ==
    \A r \in Request :
        (/\ ~waitingOnRetry /\ getNext(q) # Null
         /\ \E i \in 1 .. Len(targets[getNext(q)]) : targets[getNext(q)][i].id = r)
            ~> answered[r] = 1 \/ abort # "none"

=============================================================================
