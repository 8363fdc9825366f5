------------------------------- MODULE RxPath -------------------------------
(***************************************************************************)
(* The receive path of the switch's time-synchronization process:          *)
(*                                                                         *)
(*   port --> TSU receive FIFO of the port  (timestamp of the frame)       *)
(*        --> DMA receive buffer --> DMA_rx_thread --> buffer_queue        *)
(*                                         --> recv_ptp_frame (main loop)  *)
(*                                                                         *)
(* buffer_queue.c is a ring of FIFO_SIZE slots under one mutex.  The       *)
(* critical sections are split where C reads and writes shared fields, so  *)
(* that the mutex matters: "size += 1" is a load and a later store.        *)
(* recv_ptp_frame reads the timestamp of an event frame from the port's    *)
(* TSU FIFO, discarding entries until message type and sequence id match,  *)
(* and busy-waits while that FIFO is empty.                                *)
(***************************************************************************)
EXTENDS Naturals, Sequences, FiniteSets

CONSTANTS
    Ports,          \* external switch ports
    EventTypes,     \* PTP messages with a hardware timestamp
    GeneralTypes,   \* PTP messages without one
    OtherTypes,     \* frames whose destination is not the PTP MAC address
    Seqs,           \* sequence ids
    FIFO_SIZE,      \* slots of buffer_queue
    MAX_PKT_LEN,    \* the length every push records
    MaxInFlight,    \* bound: frames of a port between PHY and DMA buffer
    MaxFrames,      \* bound: frames that arrive in all
    TsuMayLose,     \* may the TSU fail to record a timestamp?
    NoFrame         \* "no frame"

ASSUME FifoSizeAssumption == FIFO_SIZE \in Nat \ {0}
ASSUME PktLenAssumption == MAX_PKT_LEN \in Nat \ {0}

Frame == [port : Ports, type : EventTypes \cup GeneralTypes \cup OtherTypes, seq : Seqs]
PtpFrame == {f \in Frame : f.type \notin OtherTypes}
Slot == 0 .. FIFO_SIZE - 1

ASSUME NoFrameAssumption == NoFrame \notin Frame

VARIABLES
    \* struct buffer_queue
    front, rear, size, bufArray, lenArray,
    \* buf_queue_lock: the thread that holds it, or "free"
    lock,
    \* DMA_rx_thread: control point, DMA receive buffer, size it has loaded
    rxPc, dmaBuf, rxSize,
    \* main loop in recv_ptp_frame: control point, RxBufferPtr, length, size it
    \* has loaded
    mainPc, rxBuffer, length, mainSize,
    \* hardware: TSU receive FIFOs, frames on their way to the DMA buffer
    tsuRx, inFlight,
    \* the process has called exit()
    halted,
    \* history: frames that arrived, frames handed to the state machines
    arrived, handled

queueVars == <<front, rear, size, bufArray, lenArray>>
rxVars == <<rxPc, dmaBuf, rxSize>>
mainVars == <<mainPc, rxBuffer, length, mainSize>>
hwVars == <<tsuRx, inFlight, arrived>>
vars == <<queueVars, lock, rxVars, mainVars, hwVars, halted, handled>>

\* init_queue: empty ring, every recorded length 0.  The first transfer is
\* started before the receive loop is entered.
Init ==
    /\ front = 0 /\ rear = 0 /\ size = 0
    /\ bufArray = [s \in Slot |-> NoFrame]
    /\ lenArray = [s \in Slot |-> 0]
    /\ lock = "free"
    /\ rxPc = "poll" /\ dmaBuf = NoFrame /\ rxSize = 0
    /\ mainPc = "loop" /\ rxBuffer = NoFrame /\ length = 0 /\ mainSize = 0
    /\ tsuRx = [p \in Ports |-> << >>]
    /\ inFlight = [p \in Ports |-> << >>]
    /\ halted = FALSE
    /\ arrived = {} /\ handled = {}

-----------------------------------------------------------------------------
(* Hardware (external).  The TSU stamps a frame on arrival; PL forwards the *)
(* frames of one port in order.  A sequence id is not reused by a message   *)
(* type while an older frame with it can still be queued (ids are 16 bit).  *)

Arrive(f) ==
    /\ f \notin arrived /\ Cardinality(arrived) < MaxFrames
    /\ Len(inFlight[f.port]) < MaxInFlight
    /\ arrived' = arrived \cup {f}
    /\ inFlight' = [inFlight EXCEPT ![f.port] = Append(@, f)]
    /\ \/ /\ f.type \in EventTypes
          /\ tsuRx' = [tsuRx EXCEPT ![f.port] = Append(@, [type |-> f.type, seq |-> f.seq])]
       \/ /\ f.type \notin EventTypes \/ TsuMayLose
          /\ UNCHANGED tsuRx
    /\ UNCHANGED <<queueVars, lock, rxVars, mainVars, halted, handled>>

\* The frame is dropped between the port and the DMA buffer.
Drop(p) ==
    /\ inFlight[p] # << >>
    /\ inFlight' = [inFlight EXCEPT ![p] = Tail(@)]
    /\ UNCHANGED <<queueVars, lock, rxVars, mainVars, tsuRx, arrived, halted, handled>>

\* A transfer into the armed DMA buffer completes.
DmaComplete(p) ==
    /\ inFlight[p] # << >>
    /\ rxPc = "poll" /\ dmaBuf = NoFrame
    /\ dmaBuf' = Head(inFlight[p])
    /\ inFlight' = [inFlight EXCEPT ![p] = Tail(@)]
    /\ UNCHANGED <<queueVars, lock, rxPc, rxSize, mainVars, tsuRx, arrived, halted, handled>>

-----------------------------------------------------------------------------
(* DMA_rx_thread                                                           *)

is_ptp_frame(f) == f.type \notin OtherTypes

\* POLL_XFER reports a finished transfer whose frame is not PTP: process_packet
\* drops it and the transfer is started again.
RxSkip ==
    /\ ~halted
    /\ rxPc = "poll" /\ dmaBuf # NoFrame /\ ~is_ptp_frame(dmaBuf)
    /\ dmaBuf' = NoFrame
    /\ UNCHANGED <<queueVars, lock, rxPc, rxSize, mainVars, hwVars, halted, handled>>

\* Mutant: process_packet forgets to take buf_queue_lock.
RxLock_Unlocked ==
    /\ ~halted
    /\ rxPc = "poll" /\ dmaBuf # NoFrame /\ is_ptp_frame(dmaBuf)
    /\ rxPc' = "push"
    /\ UNCHANGED <<queueVars, lock, dmaBuf, rxSize, mainVars, hwVars, halted, handled>>

\* process_packet: pthread_mutex_lock.
RxLock ==
    /\ ~halted
    /\ rxPc = "poll" /\ dmaBuf # NoFrame /\ is_ptp_frame(dmaBuf)
    /\ lock = "free"
    /\ lock' = "rx"
    /\ rxPc' = "push"
    /\ UNCHANGED <<queueVars, dmaBuf, rxSize, mainVars, hwVars, halted, handled>>

\* push_queue on a full queue: exit(EXIT_FAILURE).
PushFull ==
    /\ ~halted
    /\ rxPc = "push" /\ size >= FIFO_SIZE
    /\ halted' = TRUE
    /\ UNCHANGED <<queueVars, lock, rxVars, mainVars, hwVars, handled>>

\* push_queue: copy the frame and its length to the rear slot; load size.
PushCopy ==
    /\ ~halted
    /\ rxPc = "push" /\ size < FIFO_SIZE
    /\ bufArray' = [bufArray EXCEPT ![rear] = dmaBuf]
    /\ lenArray' = [lenArray EXCEPT ![rear] = MAX_PKT_LEN]
    /\ rxSize' = size
    /\ rxPc' = "store"
    /\ UNCHANGED <<front, rear, size, lock, dmaBuf, mainVars, hwVars, halted, handled>>

\* push_queue: advance rear, store size; unlock; START_XFER arms the buffer.
PushStore ==
    /\ ~halted
    /\ rxPc = "store"
    /\ rear' = (rear + 1) % FIFO_SIZE
    /\ size' = rxSize + 1
    /\ lock' = "free"
    /\ dmaBuf' = NoFrame
    /\ rxPc' = "poll"
    /\ UNCHANGED <<front, bufArray, lenArray, rxSize, mainVars, hwVars, halted, handled>>

-----------------------------------------------------------------------------
(* The main loop's recv_ptp_frame                                          *)

MainLock ==
    /\ ~halted
    /\ mainPc = "loop" /\ lock = "free"
    /\ lock' = "main"
    /\ mainPc' = "pop"
    /\ UNCHANGED <<queueVars, rxVars, rxBuffer, length, mainSize, hwVars, halted, handled>>

\* RECV_NOTHING: unlock and return NO_FRAME.
PopNothing ==
    /\ ~halted
    /\ mainPc = "pop" /\ size = 0
    /\ lock' = "free"
    /\ mainPc' = "loop"
    /\ UNCHANGED <<queueVars, rxVars, rxBuffer, length, mainSize, hwVars, halted, handled>>

\* pop_queue: copy the front slot into RxBufferPtr; load size.
PopCopy ==
    /\ ~halted
    /\ mainPc = "pop" /\ size > 0
    /\ rxBuffer' = bufArray[front]
    /\ mainSize' = size
    /\ mainPc' = "store"
    /\ UNCHANGED <<queueVars, lock, rxVars, length, hwVars, halted, handled>>

\* pop_queue: advance front, store size, read the length at the NEW front; unlock.
PopStore ==
    /\ ~halted
    /\ mainPc = "store"
    /\ front' = (front + 1) % FIFO_SIZE
    /\ size' = mainSize - 1
    /\ length' = lenArray[(front + 1) % FIFO_SIZE]
    /\ lock' = "free"
    /\ mainPc' = "parse"
    /\ UNCHANGED <<rear, bufArray, lenArray, rxVars, rxBuffer, mainSize, hwVars, halted, handled>>

\* Mutant: the general messages fetch a timestamp too.
DeliverGeneral_Fetches ==
    /\ ~halted
    /\ mainPc = "parse" /\ rxBuffer.type \notin EventTypes
    /\ tsuRx[rxBuffer.port] # << >>
    /\ tsuRx' = [tsuRx EXCEPT ![rxBuffer.port] = Tail(@)]
    /\ handled' = handled \cup {rxBuffer}
    /\ mainPc' = "loop"
    /\ UNCHANGED <<queueVars, lock, rxVars, rxBuffer, length, mainSize, inFlight, arrived, halted>>

\* A message type without timestamp goes straight to its state machine.
DeliverGeneral ==
    /\ ~halted
    /\ mainPc = "parse" /\ rxBuffer.type \notin EventTypes
    /\ handled' = handled \cup {rxBuffer}
    /\ mainPc' = "loop"
    /\ UNCHANGED <<queueVars, lock, rxVars, rxBuffer, length, mainSize, hwVars, halted>>

\* Mutant: the commented-out version of the code: on a mismatch the frame is given
\* up (returnType = NO_FRAME) instead of fetching the next timestamp.
FetchTimestamp_GiveUp ==
    LET p == rxBuffer.port
        ts == Head(tsuRx[p])
        match == ts.type = rxBuffer.type /\ ts.seq = rxBuffer.seq
    IN /\ ~halted
       /\ mainPc = "parse" /\ rxBuffer.type \in EventTypes
       /\ tsuRx[p] # << >>
       /\ tsuRx' = [tsuRx EXCEPT ![p] = Tail(@)]
       /\ mainPc' = "loop"
       /\ handled' = IF match THEN handled \cup {rxBuffer} ELSE handled
       /\ UNCHANGED <<queueVars, lock, rxVars, rxBuffer, length, mainSize, inFlight, arrived, halted>>

\* tsu_rx_get_timestamp: blocks (busy-waits) while the TSU FIFO is empty.  An
\* entry that does not match is discarded and the next one fetched.
FetchTimestamp ==
    LET p == rxBuffer.port
        ts == Head(tsuRx[p])
        match == ts.type = rxBuffer.type /\ ts.seq = rxBuffer.seq
    IN /\ ~halted
       /\ mainPc = "parse" /\ rxBuffer.type \in EventTypes
       /\ tsuRx[p] # << >>
       /\ tsuRx' = [tsuRx EXCEPT ![p] = Tail(@)]
       /\ mainPc' = IF match THEN "loop" ELSE "parse"
       /\ handled' = IF match THEN handled \cup {rxBuffer} ELSE handled
       /\ UNCHANGED <<queueVars, lock, rxVars, rxBuffer, length, mainSize, inFlight, arrived, halted>>

-----------------------------------------------------------------------------
Hardware ==
    \/ \E f \in Frame : Arrive(f)
    \/ \E p \in Ports : Drop(p)
    \/ \E p \in Ports : DmaComplete(p)

RxThread == RxSkip \/ RxLock \/ PushFull \/ PushCopy \/ PushStore

MainThread == MainLock \/ PopNothing \/ PopCopy \/ PopStore \/ DeliverGeneral \/ FetchTimestamp

Next == Hardware \/ RxThread \/ MainThread

Spec == Init /\ [][Next]_vars

\* Both threads keep running (two cores, both poll without sleeping); a thread
\* that spins on the mutex gets it in the end.
Fairness ==
    /\ SF_vars(RxLock)
    /\ WF_vars(RxThread)
    /\ SF_vars(MainLock)
    /\ WF_vars(MainThread)

FairSpec == Spec /\ Fairness

-----------------------------------------------------------------------------
(* Properties                                                              *)

\* Every variable has its type; the DMA buffer only holds frames.
TypeOK ==
    /\ front \in Slot /\ rear \in Slot /\ size \in 0 .. FIFO_SIZE
    /\ bufArray \in [Slot -> PtpFrame \cup {NoFrame}]
    /\ lenArray \in [Slot -> {0, MAX_PKT_LEN}]
    /\ lock \in {"free", "rx", "main"}
    /\ rxPc \in {"poll", "push", "store"}
    /\ dmaBuf \in Frame \cup {NoFrame}
    /\ rxSize \in 0 .. FIFO_SIZE
    /\ mainPc \in {"loop", "pop", "store", "parse"}
    /\ rxBuffer \in PtpFrame \cup {NoFrame}
    /\ length \in {0, MAX_PKT_LEN}
    /\ mainSize \in 0 .. FIFO_SIZE
    /\ tsuRx \in [Ports -> Seq([type : EventTypes, seq : Seqs])]
    /\ inFlight \in [Ports -> Seq(Frame)]
    /\ halted \in BOOLEAN
    /\ arrived \subseteq Frame
    /\ handled \subseteq PtpFrame

\* The mutex makes the split critical sections of push_queue and pop_queue safe:
\* who is inside holds the lock; the size a thread has loaded is still the size
\* when it stores its result; rear is where front and size say; every live slot
\* holds a PTP frame; and the slot a thread has just filled or copied is the one
\* it is about to publish or release.
RingSound ==
    /\ lock = "rx" <=> rxPc # "poll"
    /\ lock = "main" <=> mainPc \in {"pop", "store"}
    /\ rxPc # "poll" => dmaBuf \in PtpFrame
    /\ rxPc = "store" => rxSize = size /\ size < FIFO_SIZE /\ bufArray[rear] = dmaBuf
    /\ mainPc = "store" => mainSize = size /\ size > 0 /\ rxBuffer = bufArray[front]
    /\ mainPc = "parse" => rxBuffer \in PtpFrame
    /\ rear = (front + size) % FIFO_SIZE
    /\ \A i \in 1 .. size : bufArray[(front + i - 1) % FIFO_SIZE] \in PtpFrame

\* The frames the ring holds, oldest first: buffer_queue.c never tells slots of
\* the live region from stale ones except through front and size.
QueueContents == [i \in 1 .. size |-> bufArray[(front + i - 1) % FIFO_SIZE]]

\* The ring under its mutex implements the bounded FIFO: no frame is lost,
\* duplicated, reordered or overwritten by the two threads of buffer_queue.
Fifo == INSTANCE FrameFifo WITH
            Frame <- PtpFrame, fifo <- QueueContents, popped <- rxBuffer, halted <- halted

ImplementsFifo == Fifo!FifoSpec

\* The frames that recv_ptp_frame has not dispatched yet, by their place on the way
\* of port p to it: 0 while one is matched, then the ring, the DMA buffer, and the
\* frames before it.
Path(p) ==
    [i \in (IF mainPc = "parse" THEN {0} ELSE {}) \cup 1 .. size
             \cup (IF dmaBuf = NoFrame THEN {} ELSE {size + 1})
             \cup {size + 1 + j : j \in DOMAIN inFlight[p]} |->
        IF i = 0 THEN rxBuffer
        ELSE IF i <= size THEN bufArray[(front + i - 1) % FIFO_SIZE]
        ELSE IF i = size + 1 THEN dmaBuf
        ELSE inFlight[p][i - size - 1]]

IsEventOf(p, f) == f.port = p /\ f.type \in EventTypes
Stamp(f) == [type |-> f.type, seq |-> f.seq]

\* Each event frame of p on the path has one stamp, in the order of the frames.
Follows(path, stamps, p) ==
    \A i \in DOMAIN path : IsEventOf(p, path[i]) =>
        /\ \E m \in DOMAIN stamps : stamps[m] = Stamp(path[i])
        /\ \A j \in DOMAIN path, m, n \in DOMAIN stamps :
              /\ IsEventOf(p, path[j])
              /\ stamps[m] = Stamp(path[i]) /\ stamps[n] = Stamp(path[j])
              => (i < j => m < n) /\ (i = j => m = n)

\* recv_ptp_frame's discarding loop never throws away the timestamp of a frame
\* that is still on its way: as long as the TSU records every event frame, the
\* port's TSU FIFO holds the stamps of all these frames, in their order, with
\* only stamps of dropped frames in between.
TimestampsFollowFrames == \A p \in Ports : Follows(Path(p), tsuRx[p], p)

\* A PTP frame that reached buffer_queue is handed to its state machine (unless
\* an overflow ends the process): the wait in tsu_rx_get_timestamp and the
\* discarding loop of recv_ptp_frame come to an end.
QueuedIsHandled ==
    \A f \in PtpFrame :
        (\E i \in DOMAIN QueueContents : QueueContents[i] = f) ~> (f \in handled \/ halted)
=============================================================================
