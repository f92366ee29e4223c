---------------------------- MODULE RequestLedger ----------------------------
(***************************************************************************)
(* What a requestor may rely on, whatever the cache does inside: a request *)
(* that was submitted is answered at most once, and nothing else is ever   *)
(* answered.  One step of the cache may answer several requests (a fill    *)
(* answers all the targets of its MSHR), or one in the step that takes it. *)
(***************************************************************************)
EXTENDS Integers

CONSTANT Request

VARIABLES submitted,  \* requests handed to the cache
          answers     \* request -> number of answers

LedgerInit ==
    /\ submitted = {}
    /\ answers = [r \in Request |-> 0]

Submit(r) ==
    /\ r \notin submitted
    /\ submitted' = submitted \cup {r}
    /\ UNCHANGED answers

Answer(S) ==
    /\ \A r \in S : answers[r] = 0
    /\ answers' = [r \in Request |-> IF r \in S THEN 1 ELSE answers[r]]
    /\ UNCHANGED submitted

LedgerNext ==
    \/ \E r \in Request : Submit(r)
    \/ \E S \in SUBSET submitted : Answer(S)

LedgerSpec == LedgerInit /\ [][LedgerNext]_<<submitted, answers>>

=============================================================================
