-------------------------------- MODULE ScFifo --------------------------------
(***************************************************************************)
(* sc_fifo (lib/systemc/include/sysc/communication/sc_fifo.h), the channel *)
(* in front of every CPU-side port: a ring buffer whose counters change    *)
(* during a delta cycle and are settled by update() at its end.            *)
(*                                                                         *)
(* Processes are cooperative: one runs until it waits.  A reader is a      *)
(* ReqMonitor, which waits nowhere else; a writer (Top::Load0Thread) also  *)
(* waits for time to pass, and is then "idle".                             *)
(***************************************************************************)
EXTENDS Integers, Sequences, FiniteSets

CONSTANTS m_size,         \* slots of the buffer
          Reader, Writer, \* processes on the two sides
          T0,             \* T(), the value a slot is cleared to
          maxWrites       \* bound: packets written in a behaviour

ASSUME SizeAssumption == m_size \in Nat \ {0}
ASSUME ProcessAssumption == Reader \cap Writer = {} /\ maxWrites \in Nat
ASSUME T0Assumption == T0 \notin Nat

VARIABLES m_buf, m_free, m_ri, m_wi,                  \* the ring buffer
          m_num_readable, m_num_read, m_num_written,  \* counters of the delta cycle
          state,   \* process -> "ready", "wait" (for an event of the fifo) or "idle"
          written, \* packets written so far; the next one is number written + 1
          output,  \* packets read, in order
          assertFailed \* an sc_assert failed

bufVars == <<m_buf, m_free, m_ri, m_wi>>
deltaVars == <<m_num_readable, m_num_read, m_num_written>>
fifoVars == <<bufVars, deltaVars, state, written, output, assertFailed>>

Slot == 0 .. m_size - 1
Process == Reader \cup Writer
FifoPacket == 1 .. maxWrites

FifoInit ==
    /\ m_buf = [i \in Slot |-> T0] /\ m_free = m_size /\ m_ri = 0 /\ m_wi = 0
    /\ m_num_readable = 0 /\ m_num_read = 0 /\ m_num_written = 0
    /\ state = [p \in Process |-> "ready"]
    /\ written = 0 /\ output = << >> /\ assertFailed = FALSE

num_available == m_num_readable - m_num_read

num_free == m_size - m_num_readable - m_num_written

wait(p) ==
    /\ state' = [state EXCEPT ![p] = "wait"]
    /\ UNCHANGED <<bufVars, deltaVars, written, output, assertFailed>>

\* sc_assert(read_success), sc_assert(write_success): the program ends.
assertFails == assertFailed' = TRUE /\ UNCHANGED <<bufVars, deltaVars, state, written, output>>

buf_read ==
    /\ m_buf' = [m_buf EXCEPT ![m_ri] = T0]
    /\ m_ri' = (m_ri + 1) % m_size
    /\ m_free' = m_free + 1
    /\ UNCHANGED m_wi

\* Mutant: the index is not wrapped where the buffer ends.
buf_writeNoWrap(v) ==
    /\ m_buf' = [m_buf EXCEPT ![m_wi] = v]
    /\ m_wi' = m_wi + 1
    /\ m_free' = m_free - 1
    /\ UNCHANGED m_ri

buf_write(v) ==
    /\ m_buf' = [m_buf EXCEPT ![m_wi] = v]
    /\ m_wi' = (m_wi + 1) % m_size
    /\ m_free' = m_free - 1
    /\ UNCHANGED m_ri

\* read() of a ReqMonitor up to its next wait or its return.
read(r) ==
    /\ ~assertFailed /\ state[r] = "ready"
    /\ IF num_available = 0 THEN wait(r)
       ELSE IF m_free = m_size THEN assertFails
       ELSE /\ buf_read
            /\ m_num_read' = m_num_read + 1
            /\ output' = Append(output, m_buf[m_ri])
            /\ UNCHANGED <<m_num_readable, m_num_written, state, written, assertFailed>>

\* write() of a CPU process up to its next wait or its return.
write(w) ==
    /\ ~assertFailed /\ state[w] = "ready" /\ written < maxWrites
    /\ IF num_free = 0 THEN wait(w)
       ELSE IF m_free = 0 THEN assertFails
       ELSE /\ buf_write(written + 1)
            /\ m_num_written' = m_num_written + 1
            /\ written' = written + 1
            /\ UNCHANGED <<m_num_readable, m_num_read, state, output, assertFailed>>

\* A CPU process waits for time to pass.
pause(w) ==
    /\ ~assertFailed /\ state[w] = "ready"
    /\ state' = [state EXCEPT ![w] = "idle"]
    /\ UNCHANGED <<bufVars, deltaVars, written, output, assertFailed>>

settle ==
    /\ m_num_readable' = m_size - m_free
    /\ m_num_read' = 0 /\ m_num_written' = 0

\* Mutant: readers are woken only by the first value in an empty buffer.
notifiedOnFirst ==
    {r \in Reader : state[r] = "wait" /\ m_num_written > 0 /\ m_num_readable = 0}
    \cup {w \in Writer : state[w] = "wait" /\ m_num_read > 0}

\* Mutant: an event wakes one process only.
notifiedOne ==
    LET One(S) == IF S = {} THEN {} ELSE {CHOOSE p \in S : TRUE}
    IN  One({r \in Reader : state[r] = "wait" /\ m_num_written > 0})
        \cup One({w \in Writer : state[w] = "wait" /\ m_num_read > 0})

\* Processes that wait for an event update() notifies.
notified ==
    {r \in Reader : state[r] = "wait" /\ m_num_written > 0}
    \cup {w \in Writer : state[w] = "wait" /\ m_num_read > 0}

\* The evaluation phase is over: update() runs if it was requested, and the
\* next phase runs the notified processes and those whose time has come.
update(timeouts) ==
    /\ ~assertFailed /\ \A p \in Process : state[p] # "ready"
    /\ timeouts \subseteq {w \in Writer : state[w] = "idle"}
    /\ m_num_read + m_num_written > 0 \/ timeouts # {}
    /\ settle
    /\ state' = [p \in Process |-> IF p \in notified \cup timeouts THEN "ready" ELSE state[p]]
    /\ UNCHANGED <<bufVars, written, output, assertFailed>>

FifoNext ==
    \/ \E r \in Reader : read(r)
    \/ \E w \in Writer : write(w) \/ pause(w)
    \/ \E timeouts \in SUBSET Writer : update(timeouts)

\* The kernel runs every runnable process and then ends the delta cycle.
FifoFairness ==
    /\ \A r \in Reader : WF_fifoVars(read(r))
    /\ \A w \in Writer : WF_fifoVars(write(w) \/ pause(w))
    /\ WF_fifoVars(\E timeouts \in SUBSET Writer : update(timeouts))

FifoSpec == FifoInit /\ [][FifoNext]_fifoVars /\ FifoFairness

(***************************************************************************)
(* Properties                                                              *)
(***************************************************************************)

FifoTypeOK ==
    /\ m_buf \in [Slot -> FifoPacket \cup {T0}]
    /\ m_free \in 0 .. m_size /\ m_ri \in Slot /\ m_wi \in Slot
    /\ m_num_readable \in 0 .. m_size /\ m_num_read \in Nat /\ m_num_written \in Nat
    /\ state \in [Process -> {"ready", "wait", "idle"}]
    /\ written \in 0 .. maxWrites /\ output \in Seq(FifoPacket) /\ assertFailed \in BOOLEAN

\* The counters of the delta cycle account for every slot: what was readable
\* at its start, less what was read, plus what was written since.
SlotsAccounted ==
    /\ m_size - m_free = m_num_readable - m_num_read + m_num_written
    /\ m_num_read <= m_num_readable
    /\ m_num_readable + m_num_written <= m_size

\* No wake-up is lost: a ReqMonitor waits only while nothing can be read, and a
\* CPU process only while no slot is free, although update() gives one event to
\* many processes and a woken process may find the fifo empty or full again.
NoLostWakeup ==
    /\ (\E r \in Reader : state[r] = "wait") => num_available = 0
    /\ (\E w \in Writer : state[w] = "wait") => num_free = 0

\* After the test of read() and write(), the buffer never refuses: their
\* sc_asserts cannot fail.
AssertsHold == ~assertFailed

\* The fifo as its users see it.
contents == [i \in 1 .. m_size - m_free |-> m_buf[(m_ri + i - 1) % m_size]]

Abstract == INSTANCE BoundedFifo WITH Value <- FifoPacket, capacity <- m_size

\* The ring buffer with its delayed counters is a bounded fifo: no packet is
\* lost, duplicated or reordered on its way to ReqMonitor.
ImplementsFifo == Abstract!FifoSpec

\* A CPU process that waits for a free slot gets to run again.
WriterResumed == \A w \in Writer : state[w] = "wait" ~> state[w] = "ready"

=============================================================================
