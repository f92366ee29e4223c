---------------------------- MODULE PacketQueue ----------------------------
(***************************************************************************)
(* PacketQueue: the transmit list of a port, its thread pktQueueProcess,   *)
(* and the peer's retry.  The base class is modelled with every answer     *)
(* sendTiming may give; ReqPacketQueue and RespPacketQueue always answer   *)
(* true.  CacheReqPacketQueue overrides sendDeferredPacket and is part of  *)
(* NoncoherentCache.                                                       *)
(*                                                                         *)
(* sendEvent.notify() is an immediate notification: it makes the thread    *)
(* runnable when the thread waits for the event and is otherwise without   *)
(* effect.  One given by the thread itself, inside processSendEvent, is    *)
(* lost, because the thread reaches wait(sendEvent) only afterwards.       *)
(***************************************************************************)
EXTENDS Lists

CONSTANTS Addrs, Ticks,
          sanityLimit,   \* 128 in the code
          maxPackets     \* bound: packets handed to schedSendTiming

ASSUME LimitAssumption ==
  sanityLimit \in Nat /\ maxPackets \in Nat /\ Ticks \subseteq Nat

VARIABLES transmitList,    \* of packets [id, addr, tick]
          waitingOnRetry,
          forceOrder,      \* set by the constructor
          thread,          \* "waiting" at wait(sendEvent), or "runnable"
          sent,            \* packets sendTiming accepted, in order
          next,            \* id of the next packet
          refused,         \* has sendTiming ever answered false?
          overtaken,       \* was a refused packet put back ahead of one
                           \* enqueued while it was being sent?
          failed           \* the assertion that ended the program, or "none"

vars == <<transmitList, waitingOnRetry, forceOrder, thread, sent, next, refused,
          overtaken, failed>>

Packet == [id : 1 .. maxPackets, addr : Addrs, tick : Ticks]

-----------------------------------------------------------------------------

\* Mutant: a packet goes ahead of one that is due at the same tick.
goesBehindStrict(dp, pkt) == (forceOrder /\ dp.addr = pkt.addr) \/ dp.tick < pkt.tick

\* Mutant: forceOrder is ignored.
goesBehindByTick(dp, pkt) == dp.tick <= pkt.tick

\* The search from the end stops at the first dp for which this holds.
goesBehind(dp, pkt) == (forceOrder /\ dp.addr = pkt.addr) \/ dp.tick <= pkt.tick

\* How many packets of the list stay ahead of pkt.
ahead(list, pkt) ==
  LET behind == {i \in DOMAIN list : goesBehind(list[i], pkt)}
  IN  IF behind = {} THEN 0 ELSE CHOOSE i \in behind : \A j \in behind : j <= i

inserted(list, pkt) == insertAt(list, ahead(list, pkt) + 1, pkt)

tooLong(list) == Len(list) > sanityLimit

\* Mutant: a notification that outlives the handler that gives it.
schedSendEventKept(caller) == "runnable"

\* The thread after caller has notified sendEvent and, if it is the thread
\* itself, gone back to wait for it.
schedSendEvent(caller) == IF caller = "thread" THEN "waiting" ELSE "runnable"

\* schedSendTiming schedules a send only for a packet that becomes the head.
wakes(list, pkt) == ahead(list, pkt) = 0

\* Mutant: a refused packet is not put back.
putBackForgotten(dp, list) == list

putBack(dp, list) == <<dp>> \o list

Init ==
  /\ transmitList = <<>> /\ waitingOnRetry = FALSE
  /\ forceOrder \in BOOLEAN
  /\ thread = "waiting"
  /\ sent = <<>> /\ next = 1
  /\ refused = FALSE /\ overtaken = FALSE
  /\ failed = "none"

Fail(assertion) ==
  /\ failed' = assertion
  /\ UNCHANGED <<transmitList, waitingOnRetry, forceOrder, thread, sent, next, refused,
                 overtaken>>

\* A call from another process.
schedSendTiming(pkt) ==
  IF tooLong(transmitList) THEN Fail("grown beyond the limit")
  ELSE /\ transmitList' = inserted(transmitList, pkt)
       /\ thread' = IF wakes(transmitList, pkt) THEN schedSendEvent("other") ELSE thread
       /\ next' = next + 1
       /\ UNCHANGED <<waitingOnRetry, forceOrder, sent, refused, overtaken, failed>>

\* sendTiming may call schedSendTiming again (nested, at most one packet) and
\* answers accepted or not.
Send(caller, nested, accepted) ==
  LET dp   == Head(transmitList)
      rest == Tail(transmitList)
      list == IF nested = <<>> THEN rest ELSE inserted(rest, nested[1])
  IN  IF nested # <<>> /\ tooLong(rest) THEN Fail("grown beyond the limit")
      ELSE /\ transmitList' = IF accepted THEN list ELSE putBack(dp, list)
           /\ sent' = IF accepted THEN Append(sent, dp) ELSE sent
           /\ waitingOnRetry' = ~accepted
           /\ thread' = IF accepted \/ (nested # <<>> /\ wakes(rest, nested[1]))
                        THEN schedSendEvent(caller)
                        ELSE IF caller = "thread" THEN "waiting" ELSE thread
           /\ next' = next + Len(nested)
           /\ refused' = (refused \/ ~accepted)
           /\ overtaken' = (overtaken \/ (nested # <<>> /\ ~accepted))
           /\ UNCHANGED <<forceOrder, failed>>

NewPacket == {p \in Packet : p.id = next}

sendDeferredPacket(caller) ==
  IF transmitList = <<>> THEN Fail("deferredPacketReady()")
  ELSE \E nested \in {<<>>} \union {<<p>> : p \in NewPacket}, accepted \in BOOLEAN :
         Send(caller, nested, accepted)

-----------------------------------------------------------------------------

Enqueue == failed = "none" /\ \E p \in NewPacket : schedSendTiming(p)

\* One round of the thread.
processSendEvent ==
  /\ failed = "none" /\ thread = "runnable"
  /\ IF waitingOnRetry THEN Fail("!waitingOnRetry") ELSE sendDeferredPacket("thread")

\* The peer that refused a packet calls back, in its own process.
retry ==
  /\ failed = "none" /\ waitingOnRetry
  /\ sendDeferredPacket("other")

Next == Enqueue \/ processSendEvent \/ retry

Spec == Init /\ [][Next]_vars

-----------------------------------------------------------------------------

\* Every packet handed to schedSendTiming is exactly once either on the list or
\* accepted by sendTiming, however sends, refusals and enqueues made during a
\* send interleave.  The list grows past its limit by two packets at most: one
\* is let in at the limit, and one enqueued during a send that is refused.
PacketsConserved ==
  LET all == sent \o transmitList
  IN  /\ Len(all) = next - 1
      /\ \A i, j \in DOMAIN all : all[i].id = all[j].id => i = j
      /\ Len(transmitList) <= sanityLimit + 2

\* With forceOrder, packets of one address leave in the order they were handed
\* over, also those put back after a refusal and those enqueued meanwhile.
SameAddressInOrder ==
  LET all == sent \o transmitList
  IN  forceOrder => \A i, j \in DOMAIN all :
                      i < j /\ all[i].addr = all[j].addr => all[i].id < all[j].id

\* Without forceOrder the list is in order of ticks and, for one tick, of
\* arrival.  The put-back of sendDeferredPacket is the one exception: it
\* ignores ticks, so a packet enqueued during the refused send is overtaken.
ListByTick ==
  ~forceOrder /\ ~overtaken =>
    \A i, j \in DOMAIN transmitList :
      LET p == transmitList[i] q == transmitList[j]
      IN  i < j => p.tick < q.tick \/ (p.tick = q.tick /\ p.id < q.id)

\* As long as sendTiming accepts everything (as both subclasses do) the two
\* assertions about waiting and readiness cannot fail: the notification that
\* schedSendEvent gives unconditionally, also for an empty list, is lost when
\* the thread gives it, and only retry() gives it from another process.
AbortsNeedRefusal ==
  failed \in {"deferredPacketReady()", "!waitingOnRetry"} => refused

=============================================================================
