---------------------------- MODULE MCPrefetch ----------------------------
(* Two pages of three lines.  The first configuration is the one sim.cpp   *)
(* gives the tagged prefetcher, but for the percentage; the others vary    *)
(* the filters, the accesses observed and the throttle.                    *)
EXTENDS Prefetch

MCConfig(filter, squash, snoop, onmiss, inst, onaccess, onpfhit, pct) ==
  [queueFilter |-> filter, queueSquash |-> squash, cacheSnoop |-> snoop,
   onMiss |-> onmiss, onInst |-> inst, onData |-> TRUE, onRead |-> TRUE,
   onWrite |-> ~inst, prefetchOnAccess |-> onaccess,
   prefetchOnPfHit |-> onpfhit, throttleControlPct |-> pct]

MCConfigs ==
  {MCConfig(FALSE, FALSE, FALSE, TRUE, FALSE, TRUE, FALSE, 10),
   MCConfig(TRUE, FALSE, FALSE, FALSE, TRUE, TRUE, FALSE, 100),
   MCConfig(TRUE, TRUE, TRUE, FALSE, FALSE, TRUE, FALSE, 50),
   MCConfig(FALSE, TRUE, TRUE, TRUE, FALSE, FALSE, TRUE, 0)}
=============================================================================
