------------------------------ MODULE MCMissPath ------------------------------
(***************************************************************************)
(* Three blocks of two bytes: every kind of packet for block 0, and writes *)
(* that continue a stream for blocks 1 and 2.                              *)
(***************************************************************************)
EXTENDS MissPath

Pkt(cmd, bytes, special, blk) ==
    [cmd |-> cmd, bytes |-> bytes, special |-> special, masked |-> FALSE, blk |-> blk]

MCKind ==
    {Pkt(c, {}, FALSE, 0) : c \in {"ReadReq", "ReadSharedReq", "HardPFReq",
                                   "CleanSharedReq", "CleanInvalidReq"}}
    \cup {Pkt("WriteReq", {0}, FALSE, 0), Pkt("WriteReq", {1}, FALSE, 0),
          Pkt("WriteReq", {0, 1}, TRUE, 0), Pkt("StoreCondReq", {1}, TRUE, 0)}
    \cup {Pkt("WriteReq", {0, 1}, FALSE, b) : b \in {0, 1, 2}}
    \cup {Pkt("WriteReq", {0}, FALSE, 2)}
    \cup {[Pkt("WriteReq", {0, 1}, FALSE, 0) EXCEPT !.masked = TRUE]}

=============================================================================
