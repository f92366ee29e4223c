-------------------------------- MODULE Lists --------------------------------
(***************************************************************************)
(* std::list as a sequence: the two operations at a place (an iterator)    *)
(* that the queues of the cache are built on.                              *)
(***************************************************************************)
EXTENDS Integers, Sequences

\* std::list::erase
eraseAt(list, i) == SubSeq(list, 1, i - 1) \o SubSeq(list, i + 1, Len(list))

\* std::list::insert
insertAt(list, i, e) == SubSeq(list, 1, i - 1) \o <<e>> \o SubSeq(list, i, Len(list))

===============================================================================
