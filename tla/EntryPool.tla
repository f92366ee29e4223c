------------------------------ MODULE EntryPool ------------------------------
(***************************************************************************)
(* What a miss queue promises its user, without lists, counters or order:  *)
(* a fixed set of entries, each of which is free, waiting to be sent, or   *)
(* sent and waiting for its response, and moves between these one at a     *)
(* time.                                                                   *)
(***************************************************************************)
CONSTANT Pool       \* the entries

VARIABLES pending,  \* allocated, not sent downstream
          inflight  \* sent downstream

poolVars == <<pending, inflight>>

PoolInit == pending = {} /\ inflight = {}

Take(e) ==
    /\ e \notin pending \cup inflight
    /\ pending' = pending \cup {e}
    /\ UNCHANGED inflight

Issue(e) ==
    /\ e \in pending
    /\ pending' = pending \ {e}
    /\ inflight' = inflight \cup {e}

Reissue(e) ==
    /\ e \in inflight
    /\ inflight' = inflight \ {e}
    /\ pending' = pending \cup {e}

Release(e) ==
    /\ e \in pending \cup inflight
    /\ pending' = pending \ {e}
    /\ inflight' = inflight \ {e}

PoolNext == \E e \in Pool : Take(e) \/ Issue(e) \/ Reissue(e) \/ Release(e)

PoolSpec == PoolInit /\ [][PoolNext]_poolVars

=============================================================================
