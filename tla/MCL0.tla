--------------------------------- MODULE MCL0 ---------------------------------
(***************************************************************************)
(* L0 with two ports whose fifos differ in size, so that one fills up.     *)
(***************************************************************************)
EXTENDS L0

CONSTANTS load0, store

MCfifoCapacity == [m \in Port |-> IF m = store THEN 1 ELSE 2]

=============================================================================
