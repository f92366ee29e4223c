----------------------------- MODULE LineStore -----------------------------
(***************************************************************************)
(* What the tag store and its blocks promise to the cache above them,      *)
(* without sets, ways, tags or victims.  A line is present or absent, and  *)
(* dirty or clean.  A context holds a reservation on the bytes it has      *)
(* load-locked; a reservation may be lost at any time, but a store of      *)
(* another context to one of its bytes ends it, a store conditional        *)
(* succeeds only on bytes still reserved, and a success uses them up.      *)
(***************************************************************************)
EXTENDS FiniteSets, Integers

CONSTANTS Lines,     \* the lines a cache may hold
          Requests,  \* the accesses of the contexts that reach a present line
          bytesOf(_) \* the bytes an access covers

VARIABLES lines,     \* the lines present
          dirty,     \* those of them that memory has no current copy of
          reserved,  \* the pairs of a context and a byte it has reserved
          last       \* the last access and whether it was granted

lvars == <<lines, dirty, reserved, last>>

None == [op |-> "none"]

\* What the contexts hold of the bytes of request r.
On(r) == {p \in reserved : p[2] \in bytesOf(r)}

Mine(r) == {r.ctx} \X bytesOf(r)

Init == lines = {} /\ dirty = {} /\ reserved = {} /\ last = None

\* A line is brought in clean, or leaves with its reservations.
Fill(l) == /\ l \notin lines
           /\ lines' = lines \union {l}
           /\ UNCHANGED <<dirty, reserved, last>>

Drop(l) == /\ l \in lines
           /\ lines' = lines \ {l}
           /\ dirty' = dirty \ {l}
           /\ reserved' \subseteq reserved
           /\ UNCHANGED last

SetDirty(l) == l \in lines /\ dirty' = dirty \union {l} /\ UNCHANGED <<lines, reserved, last>>

Clean(l) == l \in dirty /\ dirty' = dirty \ {l} /\ UNCHANGED <<lines, reserved, last>>

LoadLocked(r) == /\ Mine(r) \subseteq reserved'
                 /\ reserved' \subseteq reserved \union Mine(r)
                 /\ last' = [op |-> "LoadLocked", req |-> r, granted |-> TRUE]
                 /\ UNCHANGED <<lines, dirty>>

Store(r) == /\ reserved' \subseteq reserved \ {p \in On(r) : p[1] # r.ctx}
            /\ last' = [op |-> "Store", req |-> r, granted |-> TRUE]
            /\ UNCHANGED <<lines, dirty>>

StoreConditional(r) ==
  \E granted \in BOOLEAN :
    /\ granted => Mine(r) \subseteq reserved
    /\ reserved' \subseteq (IF granted THEN reserved \ On(r) ELSE reserved)
    /\ last' = [op |-> "StoreConditional", req |-> r, granted |-> granted]
    /\ UNCHANGED <<lines, dirty>>

Next == \/ \E l \in Lines : Fill(l) \/ Drop(l) \/ SetDirty(l) \/ Clean(l)
        \/ \E r \in Requests : LoadLocked(r) \/ Store(r) \/ StoreConditional(r)

Spec == Init /\ [][Next]_lvars
=============================================================================
