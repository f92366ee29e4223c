----------------------------- MODULE BoundedFifo -----------------------------
(***************************************************************************)
(* What a channel between a CPU process and its ReqMonitor promises: the   *)
(* values put in come out once each and in order, and never more than      *)
(* capacity of them are inside.                                            *)
(***************************************************************************)
EXTENDS Naturals, Sequences

CONSTANTS Value, capacity

VARIABLES contents,  \* values inside, oldest first
          output     \* values that came out, in order

fifoVars == <<contents, output>>

FifoInit == contents = << >> /\ output = << >>

Put(v) ==
    /\ Len(contents) < capacity
    /\ contents' = Append(contents, v)
    /\ UNCHANGED output

Get ==
    /\ contents # << >>
    /\ output' = Append(output, Head(contents))
    /\ contents' = Tail(contents)

FifoNext == (\E v \in Value : Put(v)) \/ Get

FifoSpec == FifoInit /\ [][FifoNext]_fifoVars

=============================================================================
