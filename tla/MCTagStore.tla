----------------------------- MODULE MCTagStore -----------------------------
(* Two sets of two ways over blocks of two bytes.  Set 0 is contended by three *)
(* lines, two of them the secure and the non-secure copy of one address; two   *)
(* contexts access single bytes and the whole of a block.                      *)
EXTENDS TagStore

CONSTANTS c1, c2

MCLines == [addr : {0}, secure : BOOLEAN] \union [addr : {2, 4}, secure : {FALSE}]

MCRequests ==
  [ctx : {c1, c2}, addr : {0, 1}, size : {1}, secure : {FALSE}]
  \union [ctx : {c1, c2}, addr : {0}, size : {2}, secure : {FALSE}]
  \union [ctx : {c1}, addr : {4}, size : {2}, secure : {FALSE}]
  \union [ctx : {c2}, addr : {0}, size : {1}, secure : {TRUE}]
=============================================================================
