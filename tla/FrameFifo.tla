----------------------------- MODULE FrameFifo -----------------------------
(***************************************************************************)
(* What the PTP receive queue promises to its two users: a bounded FIFO of *)
(* frames between the DMA receive thread and the time-sync main loop.      *)
(* Pushing onto a full queue ends the process (exit(EXIT_FAILURE)).        *)
(***************************************************************************)
EXTENDS Naturals, Sequences

CONSTANTS
    Frame,      \* the frames that can be queued
    FIFO_SIZE,  \* the number of slots
    NoFrame     \* nothing handed over yet

VARIABLES
    fifo,       \* the queued frames, oldest first
    popped,     \* the frame last handed to the main loop (RxBufferPtr)
    halted      \* the process has called exit()

fifoVars == <<fifo, popped, halted>>

FifoInit ==
    /\ fifo = << >>
    /\ popped = NoFrame
    /\ halted = FALSE

Push(f) ==
    /\ ~halted
    /\ Len(fifo) < FIFO_SIZE
    /\ fifo' = Append(fifo, f)
    /\ UNCHANGED <<popped, halted>>

\* push_queue on a full queue.
Overflow ==
    /\ ~halted
    /\ Len(fifo) = FIFO_SIZE
    /\ halted' = TRUE
    /\ UNCHANGED <<fifo, popped>>

\* The frame is first copied out of the queue, then its slot is released.
CopyFront ==
    /\ ~halted
    /\ fifo # << >>
    /\ popped' = Head(fifo)
    /\ UNCHANGED <<fifo, halted>>

ReleaseFront ==
    /\ ~halted
    /\ fifo # << >>
    /\ popped = Head(fifo)
    /\ fifo' = Tail(fifo)
    /\ UNCHANGED <<popped, halted>>

FifoNext ==
    \/ \E f \in Frame : Push(f)
    \/ Overflow
    \/ CopyFront
    \/ ReleaseFront

FifoSpec == FifoInit /\ [][FifoNext]_fifoVars
=============================================================================
