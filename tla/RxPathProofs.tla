---------------------------- MODULE RxPathProofs ----------------------------
(***************************************************************************)
(* Proofs about RxPath, for every set of ports, messages and sequence ids, *)
(* every number of slots and every bound.  RingSound (with TypeOK) is      *)
(* inductive; it is what makes the ring of buffer_queue.c a FIFO.  That    *)
(* stamps follow their frames rests on it: frames move along the path of   *)
(* their port in order, and only the stamp in front is ever taken.         *)
(***************************************************************************)
EXTENDS RxPath, SequenceTheorems, TLAPS

-----------------------------------------------------------------------------
(* Ring indices: an index is at most one turn ahead of a slot              *)

\* Below the modulus, % changes nothing.
LEMMA SmallMod ==
    ASSUME NEW n \in Nat \ {0}, NEW x \in 0 .. n - 1
    PROVE  x % n = x
  BY SMT

\* In the second turn, % subtracts the modulus once.
LEMMA WrappedMod ==
    ASSUME NEW n \in Nat \ {0}, NEW x \in n .. 2 * n - 1
    PROVE  x % n = x - n
  BY SMT

\* The index k slots behind slot a, as buffer_queue.c computes it.
LEMMA SlotMod ==
    ASSUME NEW a \in Slot, NEW k \in 0 .. FIFO_SIZE
    PROVE  /\ (a + k) % FIFO_SIZE \in Slot
           /\ (a + k) % FIFO_SIZE = IF a + k < FIFO_SIZE THEN a + k ELSE a + k - FIFO_SIZE
<1>1. CASE a + k < FIFO_SIZE
  BY <1>1, FifoSizeAssumption, SmallMod DEF Slot
<1>2. CASE a + k >= FIFO_SIZE
  BY <1>2, FifoSizeAssumption, WrappedMod DEF Slot
<1>3. QED
  BY <1>1, <1>2, FifoSizeAssumption DEF Slot

\* Slots fewer than FIFO_SIZE apart are different: push_queue's rear slot is none
\* of the live ones.
LEMMA SlotsDiffer ==
    ASSUME NEW a \in Slot, NEW j \in 0 .. FIFO_SIZE - 1, NEW k \in 0 .. FIFO_SIZE - 1, j # k
    PROVE  (a + j) % FIFO_SIZE # (a + k) % FIFO_SIZE
<1>1. /\ (a + j) % FIFO_SIZE = IF a + j < FIFO_SIZE THEN a + j ELSE a + j - FIFO_SIZE
      /\ (a + k) % FIFO_SIZE = IF a + k < FIFO_SIZE THEN a + k ELSE a + k - FIFO_SIZE
  BY SlotMod, FifoSizeAssumption
<1>2. QED
  BY <1>1, FifoSizeAssumption DEF Slot

\* Advancing the front by one slot and then k is advancing it by k + 1.
LEMMA NextSlot ==
    ASSUME NEW a \in Slot, NEW k \in 0 .. FIFO_SIZE - 1
    PROVE  (((a + 1) % FIFO_SIZE) + k) % FIFO_SIZE = (a + (k + 1)) % FIFO_SIZE
<1> DEFINE b == (a + 1) % FIFO_SIZE
<1>1. b \in Slot /\ b = IF a + 1 < FIFO_SIZE THEN a + 1 ELSE a + 1 - FIFO_SIZE
  BY SlotMod, FifoSizeAssumption
<1>2. (b + k) % FIFO_SIZE = IF b + k < FIFO_SIZE THEN b + k ELSE b + k - FIFO_SIZE
  <2> HIDE DEF b
  <2> QED BY <1>1, SlotMod, FifoSizeAssumption
<1>3. (a + (k + 1)) % FIFO_SIZE =
        IF a + (k + 1) < FIFO_SIZE THEN a + (k + 1) ELSE a + (k + 1) - FIFO_SIZE
  BY SlotMod, FifoSizeAssumption
<1> HIDE DEF b
<1>4. (b + k) % FIFO_SIZE = (a + (k + 1)) % FIFO_SIZE
  BY <1>1, <1>2, <1>3, FifoSizeAssumption DEF Slot
<1>5. QED
  BY <1>4 DEF b

\* Advancing rear after a push: rear is again size slots behind front.
LEMMA NextRear ==
    ASSUME NEW a \in Slot, NEW k \in 0 .. FIFO_SIZE - 1
    PROVE  (((a + k) % FIFO_SIZE) + 1) % FIFO_SIZE = (a + (k + 1)) % FIFO_SIZE
<1> DEFINE b == (a + k) % FIFO_SIZE
<1>1. b \in Slot /\ b = IF a + k < FIFO_SIZE THEN a + k ELSE a + k - FIFO_SIZE
  BY SlotMod, FifoSizeAssumption
<1>2. (b + 1) % FIFO_SIZE = IF b + 1 < FIFO_SIZE THEN b + 1 ELSE b + 1 - FIFO_SIZE
  <2> HIDE DEF b
  <2> QED BY <1>1, SlotMod, FifoSizeAssumption
<1>3. (a + (k + 1)) % FIFO_SIZE =
        IF a + (k + 1) < FIFO_SIZE THEN a + (k + 1) ELSE a + (k + 1) - FIFO_SIZE
  BY SlotMod, FifoSizeAssumption
<1> HIDE DEF b
<1>4. (b + 1) % FIFO_SIZE = (a + (k + 1)) % FIFO_SIZE
  BY <1>1, <1>2, <1>3, FifoSizeAssumption DEF Slot
<1>5. QED
  BY <1>4 DEF b

-----------------------------------------------------------------------------
(* The inductive invariant                                                 *)

IInv == TypeOK /\ RingSound

\* Appending to one of a family of sequences.
LEMMA AppendChannel ==
    ASSUME NEW P, NEW S, NEW q \in [P -> Seq(S)], NEW p \in P, NEW x \in S
    PROVE  [q EXCEPT ![p] = Append(@, x)] \in [P -> Seq(S)]
<1>1. Append(q[p], x) \in Seq(S)
  OBVIOUS
<1>2. QED
  BY <1>1

\* Taking the head off a nonempty one of them.
LEMMA TailChannel ==
    ASSUME NEW P, NEW S, NEW q \in [P -> Seq(S)], NEW p \in P, q[p] # << >>
    PROVE  [q EXCEPT ![p] = Tail(@)] \in [P -> Seq(S)]
<1>1. Tail(q[p]) \in Seq(S)
  OBVIOUS
<1>2. QED
  BY <1>1

\* The ring is empty at the start and both threads are outside.
LEMMA InitIInv == Init => IInv
<1> SUFFICES ASSUME Init PROVE IInv
  OBVIOUS
<1>1. TypeOK
  <2>1. 0 \in Slot /\ 0 \in 0 .. FIFO_SIZE
    BY FifoSizeAssumption DEF Slot
  <2>2. tsuRx \in [Ports -> Seq([type : EventTypes, seq : Seqs])] /\ inFlight \in [Ports -> Seq(Frame)]
    BY DEF Init
  <2>3. QED
    BY <2>1, <2>2 DEF Init, TypeOK
<1>2. RingSound
  BY FifoSizeAssumption, SmallMod DEF Init, RingSound
<1>3. QED
  BY <1>1, <1>2 DEF IInv

\* Steps of the hardware touch neither the ring nor the control points.
LEMMA HardwareStep == IInv /\ Hardware => IInv'
<1> SUFFICES ASSUME IInv, Hardware PROVE IInv'
  OBVIOUS
<1> USE DEF IInv
<1>1. ASSUME NEW f \in Frame, Arrive(f) PROVE IInv'
  <2>1. TypeOK'
    <3>1. inFlight' \in [Ports -> Seq(Frame)]
      <4>1. f.port \in Ports /\ inFlight \in [Ports -> Seq(Frame)]
        BY DEF Frame, TypeOK
      <4>2. QED
        BY <1>1, <4>1, AppendChannel DEF Arrive
    <3>2. tsuRx' \in [Ports -> Seq([type : EventTypes, seq : Seqs])]
      <4>1. CASE f.type \in EventTypes /\ ~UNCHANGED tsuRx
        <5>1. f.port \in Ports /\ Stamp(f) \in [type : EventTypes, seq : Seqs]
          BY <4>1 DEF Frame, Stamp
        <5>2. tsuRx' = [tsuRx EXCEPT ![f.port] = Append(@, Stamp(f))]
          BY <1>1, <4>1 DEF Arrive, Stamp
        <5>3. QED
          BY <5>1, <5>2, AppendChannel DEF TypeOK
      <4>2. CASE UNCHANGED tsuRx
        BY <4>2 DEF TypeOK
      <4>3. QED
        BY <1>1, <4>1, <4>2 DEF Arrive
    <3>3. QED
      BY <1>1, <3>1, <3>2 DEF Arrive, TypeOK, queueVars, rxVars, mainVars
  <2>2. RingSound'
    BY <1>1 DEF Arrive, RingSound, queueVars, rxVars, mainVars
  <2>3. QED
    BY <2>1, <2>2
<1>2. ASSUME NEW p \in Ports, Drop(p) PROVE IInv'
  <2>1. TypeOK'
    <3>1. inFlight' \in [Ports -> Seq(Frame)]
      BY <1>2 DEF Drop, TypeOK
    <3>2. QED
      BY <1>2, <3>1 DEF Drop, TypeOK, queueVars, rxVars, mainVars
  <2>2. RingSound'
    BY <1>2 DEF Drop, RingSound, queueVars, rxVars, mainVars
  <2>3. QED
    BY <2>1, <2>2
<1>3. ASSUME NEW p \in Ports, DmaComplete(p) PROVE IInv'
  <2>1. TypeOK'
    <3>1. inFlight' \in [Ports -> Seq(Frame)] /\ dmaBuf' \in Frame
      BY <1>3 DEF DmaComplete, TypeOK
    <3>2. QED
      BY <1>3, <3>1 DEF DmaComplete, TypeOK, queueVars, mainVars
  <2>2. RingSound'
    BY <1>3 DEF DmaComplete, RingSound, queueVars, mainVars
  <2>3. QED
    BY <2>1, <2>2
<1>4. QED
  BY <1>1, <1>2, <1>3 DEF Hardware

\* Steps of the DMA receive thread.
LEMMA RxThreadStep == IInv /\ RxThread => IInv'
<1> SUFFICES ASSUME IInv, RxThread PROVE IInv'
  OBVIOUS
<1> USE DEF IInv
<1>1. CASE RxSkip
  BY <1>1 DEF RxSkip, TypeOK, RingSound, queueVars, mainVars, hwVars
<1>2. CASE RxLock
  <2>1. TypeOK'
    BY <1>2 DEF RxLock, TypeOK, queueVars, mainVars, hwVars
  <2>2. dmaBuf \in PtpFrame
    BY <1>2, NoFrameAssumption DEF RxLock, TypeOK, is_ptp_frame, PtpFrame
  <2>3. RingSound'
    BY <1>2, <2>2 DEF RxLock, TypeOK, RingSound, queueVars, mainVars, hwVars
  <2>4. QED
    BY <2>1, <2>3
<1>3. CASE PushFull
  BY <1>3 DEF PushFull, TypeOK, RingSound, queueVars, rxVars, mainVars, hwVars
<1>4. CASE PushCopy
  <2>1. dmaBuf \in PtpFrame /\ size \in 0 .. FIFO_SIZE - 1 /\ lock = "rx"
    BY <1>4, FifoSizeAssumption DEF PushCopy, RingSound, TypeOK
  <2>2. TypeOK'
    BY <1>4, <2>1 DEF PushCopy, TypeOK, mainVars, hwVars
  <2>3. bufArray'[rear] = dmaBuf
    BY <1>4 DEF PushCopy, TypeOK
  <2>4. ASSUME NEW i \in 1 .. size PROVE bufArray'[(front + i - 1) % FIFO_SIZE] \in PtpFrame
    <3>1. bufArray[(front + i - 1) % FIFO_SIZE] \in PtpFrame
      BY <2>4 DEF RingSound
    <3>2. QED
      BY <1>4, <2>1, <3>1 DEF PushCopy, TypeOK
  <2>5. RingSound'
    BY <1>4, <2>1, <2>3, <2>4 DEF PushCopy, RingSound, mainVars
  <2>6. QED
    BY <2>2, <2>5
<1>5. CASE PushStore
  <2>1. /\ dmaBuf \in PtpFrame /\ rxSize = size /\ size \in 0 .. FIFO_SIZE - 1
        /\ lock = "rx" /\ bufArray[rear] = dmaBuf /\ rear = (front + size) % FIFO_SIZE
        /\ front \in Slot /\ rear \in Slot
    BY <1>5, FifoSizeAssumption DEF PushStore, RingSound, TypeOK
  <2>2. size' = size + 1 /\ size' \in 1 .. FIFO_SIZE
    BY <1>5, <2>1, FifoSizeAssumption DEF PushStore
  <2>3. rear' = (front + (size + 1)) % FIFO_SIZE
    BY <1>5, <2>1, NextRear DEF PushStore
  <2>4. rear' \in Slot
    BY <2>1, <2>2, <2>3, SlotMod
  <2>5. TypeOK'
    <3>1. size' \in 0 .. FIFO_SIZE
      BY <2>2
    <3>2. QED
      BY <1>5, <2>4, <3>1 DEF PushStore, TypeOK, mainVars, hwVars
  <2>6. ASSUME NEW i \in 1 .. size + 1 PROVE bufArray[(front + i - 1) % FIFO_SIZE] \in PtpFrame
    <3>1. CASE i = size + 1
      <4>1. front + i - 1 = front + size
        BY <2>1, <3>1, FifoSizeAssumption DEF Slot
      <4>2. QED
        BY <2>1, <4>1
    <3>2. CASE i # size + 1
      BY <2>1, <2>6, <3>2 DEF RingSound
    <3>3. QED
      BY <3>1, <3>2
  <2>7. RingSound'
    BY <1>5, <2>1, <2>2, <2>3, <2>6 DEF PushStore, RingSound, mainVars
  <2>8. QED
    BY <2>5, <2>7
<1>6. QED
  BY <1>1, <1>2, <1>3, <1>4, <1>5 DEF RxThread

\* Steps of the main loop in recv_ptp_frame.
LEMMA MainThreadStep == IInv /\ MainThread => IInv'
<1> SUFFICES ASSUME IInv, MainThread PROVE IInv'
  OBVIOUS
<1> USE DEF IInv
<1>1. CASE MainLock
  BY <1>1 DEF MainLock, TypeOK, RingSound, queueVars, rxVars, hwVars
<1>2. CASE PopNothing
  BY <1>2 DEF PopNothing, TypeOK, RingSound, queueVars, rxVars, hwVars
<1>3. CASE PopCopy
  <2>1. bufArray[front] \in PtpFrame
    <3>1. size \in 1 .. FIFO_SIZE /\ front \in Slot
      BY <1>3, FifoSizeAssumption DEF PopCopy, TypeOK
    <3>2. 1 \in 1 .. size /\ front + 1 - 1 = front /\ front % FIFO_SIZE = front
      BY <3>1, SmallMod, FifoSizeAssumption DEF Slot
    <3>3. QED
      BY <3>2 DEF RingSound
  <2>2. TypeOK'
    BY <1>3, <2>1 DEF PopCopy, TypeOK, queueVars, rxVars, hwVars
  <2>3. RingSound'
    BY <1>3, <2>1 DEF PopCopy, RingSound, queueVars, rxVars, hwVars
  <2>4. QED
    BY <2>2, <2>3
<1>4. CASE PopStore
  <2>1. /\ mainSize = size /\ size \in 1 .. FIFO_SIZE /\ rxBuffer = bufArray[front]
        /\ lock = "main" /\ rxPc = "poll" /\ front \in Slot
        /\ rear = (front + size) % FIFO_SIZE
    BY <1>4, FifoSizeAssumption DEF PopStore, RingSound, TypeOK
  <2>2. size' = size - 1 /\ size' \in 0 .. FIFO_SIZE - 1
    BY <1>4, <2>1, FifoSizeAssumption DEF PopStore
  <2>3. front' = (front + 1) % FIFO_SIZE /\ front' \in Slot
    BY <1>4, <2>1, SlotMod, FifoSizeAssumption DEF PopStore
  <2>4. length' \in {0, MAX_PKT_LEN}
    BY <1>4, <2>3 DEF PopStore, TypeOK
  <2>5. TypeOK'
    <3>1. size' \in 0 .. FIFO_SIZE
      BY <2>2, FifoSizeAssumption
    <3>2. QED
      BY <1>4, <2>3, <2>4, <3>1 DEF PopStore, TypeOK, rxVars, hwVars
  <2>6. ASSUME NEW i \in 1 .. size - 1
        PROVE  (front' + i - 1) % FIFO_SIZE = (front + (i + 1) - 1) % FIFO_SIZE
    <3>1. i - 1 \in 0 .. FIFO_SIZE - 1
      BY <2>1, FifoSizeAssumption
    <3>2. (front' + (i - 1)) % FIFO_SIZE = (front + ((i - 1) + 1)) % FIFO_SIZE
      BY <2>1, <2>3, <3>1, NextSlot
    <3>3. front' + i - 1 = front' + (i - 1) /\ front + (i + 1) - 1 = front + ((i - 1) + 1)
      BY <2>1, <2>3, <2>6, FifoSizeAssumption DEF Slot
    <3>4. QED
      BY <3>2, <3>3
  <2>7. ASSUME NEW i \in 1 .. size' PROVE bufArray[(front' + i - 1) % FIFO_SIZE] \in PtpFrame
    <3>1. i + 1 \in 1 .. size /\ i \in 1 .. size - 1
      BY <2>1, <2>2, <2>7
    <3>2. bufArray[(front + (i + 1) - 1) % FIFO_SIZE] \in PtpFrame
      BY <3>1 DEF RingSound
    <3>3. QED
      BY <2>6, <3>1, <3>2
  <2>8. rear = (front' + size') % FIFO_SIZE
    <3>1. (((front + 1) % FIFO_SIZE) + (size - 1)) % FIFO_SIZE = (front + ((size - 1) + 1)) % FIFO_SIZE
      BY <2>1, NextSlot, FifoSizeAssumption
    <3>2. (size - 1) + 1 = size
      BY <2>1
    <3>3. QED
      BY <2>1, <2>2, <2>3, <3>1, <3>2
  <2>9. rxBuffer \in PtpFrame
    <3>1. 1 \in 1 .. size /\ front + 1 - 1 = front /\ front % FIFO_SIZE = front
      BY <2>1, SmallMod, FifoSizeAssumption DEF Slot
    <3>2. QED
      BY <2>1, <3>1 DEF RingSound
  <2>10. RingSound'
    BY <1>4, <2>1, <2>7, <2>8, <2>9 DEF PopStore, RingSound, rxVars
  <2>11. QED
    BY <2>5, <2>10
<1>5. CASE DeliverGeneral
  <2>1. rxBuffer \in PtpFrame
    BY <1>5 DEF DeliverGeneral, RingSound
  <2>2. QED
    BY <1>5, <2>1 DEF DeliverGeneral, TypeOK, RingSound, queueVars, rxVars, hwVars
<1>6. CASE FetchTimestamp
  <2>1. rxBuffer \in PtpFrame
    BY <1>6 DEF FetchTimestamp, RingSound
  <2>2. tsuRx' \in [Ports -> Seq([type : EventTypes, seq : Seqs])]
    <3>1. rxBuffer.port \in Ports
      BY <2>1 DEF PtpFrame, Frame
    <3>2. tsuRx' = [tsuRx EXCEPT ![rxBuffer.port] = Tail(@)] /\ tsuRx[rxBuffer.port] # << >>
      BY <1>6 DEF FetchTimestamp
    <3>3. QED
      BY <3>1, <3>2, TailChannel DEF TypeOK
  <2>3. TypeOK'
    BY <1>6, <2>1, <2>2 DEF FetchTimestamp, TypeOK, queueVars, rxVars
  <2>4. RingSound'
    BY <1>6, <2>1 DEF FetchTimestamp, RingSound, queueVars, rxVars
  <2>5. QED
    BY <2>3, <2>4
<1>7. QED
  BY <1>1, <1>2, <1>3, <1>4, <1>5, <1>6 DEF MainThread

\* No step of the process or of its hardware breaks the invariant.
LEMMA StepIInv == IInv /\ [Next]_vars => IInv'
<1>1. IInv /\ Next => IInv'
  BY HardwareStep, RxThreadStep, MainThreadStep DEF Next
<1>2. IInv /\ UNCHANGED vars => IInv'
  BY DEF IInv, TypeOK, RingSound, vars, queueVars, rxVars, mainVars, hwVars
<1>3. QED
  BY <1>1, <1>2

\* buffer_queue.c, DMA_rx_thread and recv_ptp_frame keep every variable in its type:
\* front and rear index the arrays, size is never negative and never above FIFO_SIZE.
THEOREM TypeCorrect == Spec => []TypeOK
<1>1. IInv => TypeOK
  BY DEF IInv
<1>2. QED
  BY <1>1, InitIInv, StepIInv, PTL DEF Spec

\* With buf_queue_lock held around push_queue and pop_queue the ring is sound in
\* every interleaving of the two threads.
THEOREM RingIsSound == Spec => []RingSound
<1>1. IInv => RingSound
  BY DEF IInv
<1>2. QED
  BY <1>1, InitIInv, StepIInv, PTL DEF Spec

-----------------------------------------------------------------------------
(* The ring implements the FIFO                                            *)

\* The queued frames form a sequence of length size.
LEMMA ContentsIsSeq ==
    ASSUME IInv
    PROVE  /\ QueueContents \in Seq(PtpFrame) /\ Len(QueueContents) = size
           /\ \A i \in 1 .. size : QueueContents[i] = bufArray[(front + i - 1) % FIFO_SIZE]
<1>1. size \in Nat
  BY FifoSizeAssumption DEF IInv, TypeOK
<1>2. \A i \in 1 .. size : bufArray[(front + i - 1) % FIFO_SIZE] \in PtpFrame
  BY DEF IInv, RingSound
<1>3. QED
  BY <1>1, <1>2 DEF QueueContents

\* At the start the abstract FIFO is empty.
LEMMA RefinesInit == Init => Fifo!FifoInit
<1> SUFFICES ASSUME Init PROVE Fifo!FifoInit
  OBVIOUS
<1>1. QueueContents = << >>
  BY DEF Init, QueueContents
<1>2. QED
  BY <1>1 DEF Init, Fifo!FifoInit

\* What no action but PushCopy, PushStore, PopCopy and PopStore touches.
LEMMA ContentsUnchanged ==
    ASSUME UNCHANGED queueVars
    PROVE  UNCHANGED QueueContents
  BY DEF queueVars, QueueContents

\* push_queue's copy goes to a slot outside the live region: nobody sees it yet.
LEMMA PushCopyStutters ==
    ASSUME IInv, PushCopy
    PROVE  UNCHANGED Fifo!fifoVars
<1>1. /\ size \in 0 .. FIFO_SIZE - 1 /\ front \in Slot
      /\ rear = (front + size) % FIFO_SIZE
  BY FifoSizeAssumption DEF IInv, TypeOK, RingSound, PushCopy
<1>2. ASSUME NEW i \in 1 .. size
      PROVE  bufArray'[(front + i - 1) % FIFO_SIZE] = bufArray[(front + i - 1) % FIFO_SIZE]
  <2>1. (front + (i - 1)) % FIFO_SIZE # (front + size) % FIFO_SIZE
    BY <1>1, <1>2, SlotsDiffer, FifoSizeAssumption
  <2>2. front + i - 1 = front + (i - 1)
    BY <1>1, <1>2, FifoSizeAssumption DEF Slot
  <2>3. (front + i - 1) % FIFO_SIZE # rear
    BY <1>1, <2>1, <2>2
  <2>4. QED
    <3>1. bufArray' = [bufArray EXCEPT ![rear] = dmaBuf]
      BY DEF PushCopy
    <3>2. (front + (i - 1)) % FIFO_SIZE \in Slot
      BY <1>1, <1>2, SlotMod, FifoSizeAssumption
    <3>3. QED
      BY <2>2, <2>3, <3>1, <3>2 DEF IInv, TypeOK
<1>3. size' = size /\ front' = front /\ rxBuffer' = rxBuffer /\ halted' = halted
  BY DEF PushCopy, mainVars
<1>4. UNCHANGED QueueContents
  BY <1>2, <1>3 DEF QueueContents
<1>5. QED
  BY <1>3, <1>4 DEF Fifo!fifoVars

\* push_queue publishes the slot: the frame is appended.
LEMMA PushStoreAppends ==
    ASSUME IInv, IInv', PushStore
    PROVE  Fifo!Push(dmaBuf) /\ dmaBuf \in PtpFrame
<1>1. /\ size \in 0 .. FIFO_SIZE - 1 /\ front \in Slot /\ dmaBuf \in PtpFrame
      /\ size' = size + 1 /\ front' = front /\ bufArray' = bufArray
      /\ bufArray[(front + size) % FIFO_SIZE] = dmaBuf
  BY FifoSizeAssumption DEF IInv, TypeOK, RingSound, PushStore
<1>2. /\ QueueContents \in Seq(PtpFrame) /\ Len(QueueContents) = size
      /\ \A i \in 1 .. size : QueueContents[i] = bufArray[(front + i - 1) % FIFO_SIZE]
  BY ContentsIsSeq
<1>3. QueueContents' = [i \in 1 .. size + 1 |-> bufArray[(front + i - 1) % FIFO_SIZE]]
  BY <1>1 DEF QueueContents
<1>4. front + (size + 1) - 1 = front + size
  BY <1>1, FifoSizeAssumption DEF Slot
<1>5. QueueContents' = Append(QueueContents, dmaBuf)
  <2>1. \A i \in 1 .. size + 1 : bufArray[(front + i - 1) % FIFO_SIZE] \in PtpFrame
    BY <1>1, <1>4 DEF IInv, RingSound
  <2>2. QueueContents' \in Seq(PtpFrame) /\ Len(QueueContents') = size + 1
    BY <1>1, <1>3, <2>1
  <2>3. /\ Append(QueueContents, dmaBuf) \in Seq(PtpFrame)
        /\ Len(Append(QueueContents, dmaBuf)) = size + 1
    BY <1>1, <1>2
  <2>4. ASSUME NEW i \in 1 .. size + 1
        PROVE  QueueContents'[i] = Append(QueueContents, dmaBuf)[i]
    <3>1. CASE i = size + 1
      <4>1. Append(QueueContents, dmaBuf)[size + 1] = dmaBuf
        BY <1>1, <1>2
      <4>2. QueueContents'[size + 1] = bufArray[(front + (size + 1) - 1) % FIFO_SIZE]
        BY <1>1, <1>3
      <4>3. QED
        BY <1>1, <1>4, <3>1, <4>1, <4>2
    <3>2. CASE i \in 1 .. size
      BY <1>1, <1>2, <1>3, <3>2
    <3>3. i = size + 1 \/ i \in 1 .. size
      BY <1>1
    <3>4. QED
      BY <3>1, <3>2, <3>3
  <2>5. QED
    BY <2>2, <2>3, <2>4, SeqEqual
<1>6. ~halted /\ UNCHANGED <<rxBuffer, halted>>
  BY DEF PushStore, mainVars
<1>7. QED
  BY <1>1, <1>2, <1>5, <1>6, FifoSizeAssumption DEF Fifo!Push

\* push_queue on a full ring: the FIFO overflows.
LEMMA PushFullOverflows ==
    ASSUME IInv, PushFull
    PROVE  Fifo!Overflow
<1>1. size = FIFO_SIZE
  BY FifoSizeAssumption DEF IInv, TypeOK, PushFull
<1>2. Len(QueueContents) = FIFO_SIZE
  BY <1>1, ContentsIsSeq
<1>3. UNCHANGED QueueContents
  BY ContentsUnchanged DEF PushFull
<1>4. QED
  BY <1>2, <1>3 DEF Fifo!Overflow, PushFull, mainVars

\* pop_queue's copy takes the oldest frame.
LEMMA PopCopyCopiesFront ==
    ASSUME IInv, PopCopy
    PROVE  Fifo!CopyFront
<1>1. size \in 1 .. FIFO_SIZE /\ front \in Slot
  BY FifoSizeAssumption DEF IInv, TypeOK, PopCopy
<1>2. 1 \in 1 .. size /\ front + 1 - 1 = front /\ front % FIFO_SIZE = front
  BY <1>1, SmallMod, FifoSizeAssumption DEF Slot
<1>3. QueueContents \in Seq(PtpFrame) /\ Len(QueueContents) = size /\ QueueContents[1] = bufArray[front]
  BY <1>2, ContentsIsSeq
<1>4. QueueContents # << >> /\ Head(QueueContents) = bufArray[front]
  BY <1>1, <1>3
<1>5. UNCHANGED QueueContents
  BY ContentsUnchanged DEF PopCopy
<1>6. QED
  BY <1>4, <1>5 DEF Fifo!CopyFront, PopCopy

\* pop_queue releases the slot it has copied.
LEMMA PopStoreReleasesFront ==
    ASSUME IInv, IInv', PopStore
    PROVE  Fifo!ReleaseFront
<1>1. /\ size \in 1 .. FIFO_SIZE /\ front \in Slot /\ rxBuffer = bufArray[front]
      /\ size' = size - 1 /\ front' = (front + 1) % FIFO_SIZE /\ bufArray' = bufArray
  BY FifoSizeAssumption DEF IInv, TypeOK, RingSound, PopStore
<1>2. 1 \in 1 .. size /\ front + 1 - 1 = front /\ front % FIFO_SIZE = front
  BY <1>1, SmallMod, FifoSizeAssumption DEF Slot
<1>3. /\ QueueContents \in Seq(PtpFrame) /\ Len(QueueContents) = size
      /\ \A i \in 1 .. size : QueueContents[i] = bufArray[(front + i - 1) % FIFO_SIZE]
  BY ContentsIsSeq
<1>4. QueueContents # << >> /\ Head(QueueContents) = rxBuffer
  BY <1>1, <1>2, <1>3
<1>5. ASSUME NEW i \in 1 .. size - 1
      PROVE  bufArray[(front' + i - 1) % FIFO_SIZE] = QueueContents[i + 1]
  <2>1. i - 1 \in 0 .. FIFO_SIZE - 1
    BY <1>1, FifoSizeAssumption
  <2>2. (((front + 1) % FIFO_SIZE) + (i - 1)) % FIFO_SIZE = (front + ((i - 1) + 1)) % FIFO_SIZE
    BY <1>1, <2>1, NextSlot
  <2>3. front' \in Slot
    BY <1>1, SlotMod, FifoSizeAssumption
  <2>4. /\ front' + i - 1 = front' + (i - 1)
        /\ front + ((i - 1) + 1) = front + (i + 1) - 1 /\ i + 1 \in 1 .. size
    BY <1>1, <1>5, <2>3, FifoSizeAssumption DEF Slot
  <2>5. (front' + i - 1) % FIFO_SIZE = (front + (i + 1) - 1) % FIFO_SIZE
    BY <1>1, <2>2, <2>4
  <2>6. QED
    BY <1>3, <2>4, <2>5
<1>6. QueueContents' = [i \in 1 .. size - 1 |-> QueueContents[i + 1]]
  BY <1>1, <1>5 DEF QueueContents
<1>7. QueueContents' = Tail(QueueContents)
  <2>1. \A i \in 1 .. size - 1 : QueueContents[i + 1] \in PtpFrame
    BY <1>1, <1>3
  <2>2. QueueContents' \in Seq(PtpFrame) /\ Len(QueueContents') = size - 1
    BY <1>1, <1>6, <2>1
  <2>3. /\ Tail(QueueContents) \in Seq(PtpFrame) /\ Len(Tail(QueueContents)) = size - 1
        /\ \A i \in 1 .. size - 1 : Tail(QueueContents)[i] = QueueContents[i + 1]
    BY <1>3, <1>4, HeadTailProperties
  <2>4. QED
    BY <1>6, <2>2, <2>3, SeqEqual
<1>8. QED
  BY <1>4, <1>7 DEF Fifo!ReleaseFront, PopStore

\* Every step is a step of the FIFO or leaves it alone.
LEMMA RefinesNext == IInv /\ IInv' /\ [Next]_vars => [Fifo!FifoNext]_Fifo!fifoVars
<1> SUFFICES ASSUME IInv, IInv', [Next]_vars PROVE [Fifo!FifoNext]_Fifo!fifoVars
  OBVIOUS
<1>1. CASE PushFull
  BY <1>1, PushFullOverflows DEF Fifo!FifoNext
<1>2. CASE PushCopy
  BY <1>2, PushCopyStutters
<1>3. CASE PushStore
  BY <1>3, PushStoreAppends DEF Fifo!FifoNext
<1>4. CASE PopCopy
  BY <1>4, PopCopyCopiesFront DEF Fifo!FifoNext
<1>5. CASE PopStore
  BY <1>5, PopStoreReleasesFront DEF Fifo!FifoNext
<1>6. CASE UNCHANGED <<queueVars, rxBuffer, halted>>
  BY <1>6, ContentsUnchanged DEF Fifo!fifoVars
<1>7. Hardware => UNCHANGED <<queueVars, rxBuffer, halted>>
  BY DEF Hardware, Arrive, Drop, DmaComplete, mainVars
<1>8. RxSkip \/ RxLock => UNCHANGED <<queueVars, rxBuffer, halted>>
  BY DEF RxSkip, RxLock, mainVars
<1>9. MainLock \/ PopNothing \/ DeliverGeneral \/ FetchTimestamp
        => UNCHANGED <<queueVars, rxBuffer, halted>>
  BY DEF MainLock, PopNothing, DeliverGeneral, FetchTimestamp
<1>10. UNCHANGED vars => UNCHANGED <<queueVars, rxBuffer, halted>>
  BY DEF vars, mainVars
<1>11. QED
  BY <1>1, <1>2, <1>3, <1>4, <1>5, <1>6, <1>7, <1>8, <1>9, <1>10
     DEF Next, RxThread, MainThread

\* buffer_queue under buf_queue_lock is a bounded FIFO of PTP frames: what
\* recv_ptp_frame pops is what process_packet pushed, in that order, each frame once.
THEOREM RingImplementsFifo == Spec => ImplementsFifo
<1>1. Spec => []IInv
  BY InitIInv, StepIInv, PTL DEF Spec
<1>2. QED
  BY <1>1, RefinesInit, RefinesNext, PTL DEF Spec, ImplementsFifo, Fifo!FifoSpec

-----------------------------------------------------------------------------
(* Timestamps and frames.  Path(p) is a function of the queued frames and   *)
(* of what lies before and behind them.                                     *)

PathOf(pc, buf, q, dma, flight) ==
    [i \in (IF pc = "parse" THEN {0} ELSE {}) \cup 1 .. Len(q)
             \cup (IF dma = NoFrame THEN {} ELSE {Len(q) + 1})
             \cup {Len(q) + 1 + j : j \in DOMAIN flight} |->
        IF i = 0 THEN buf
        ELSE IF i <= Len(q) THEN q[i]
        ELSE IF i = Len(q) + 1 THEN dma
        ELSE flight[i - Len(q) - 1]]

\* Which places are taken, and by which frames.
IsPath(path, pc, buf, q, dma, flight) ==
    /\ \A i \in DOMAIN path :
         /\ i \in Nat
         /\ \/ i = 0 /\ pc = "parse" /\ path[i] = buf
            \/ i \in 1 .. Len(q) /\ path[i] = q[i]
            \/ i = Len(q) + 1 /\ dma # NoFrame /\ path[i] = dma
            \/ \E j \in 1 .. Len(flight) : i = Len(q) + 1 + j /\ path[i] = flight[j]
    /\ pc = "parse" => 0 \in DOMAIN path /\ path[0] = buf
    /\ \A i \in 1 .. Len(q) : i \in DOMAIN path /\ path[i] = q[i]
    /\ dma # NoFrame => Len(q) + 1 \in DOMAIN path /\ path[Len(q) + 1] = dma
    /\ \A j \in 1 .. Len(flight) :
         Len(q) + 1 + j \in DOMAIN path /\ path[Len(q) + 1 + j] = flight[j]

LEMMA PathOfIsPath ==
    ASSUME NEW pc, NEW buf, NEW q \in Seq(PtpFrame), NEW dma, NEW flight \in Seq(Frame)
    PROVE  IsPath(PathOf(pc, buf, q, dma, flight), pc, buf, q, dma, flight)
<1> DEFINE path == PathOf(pc, buf, q, dma, flight)
<1>1. Len(q) \in Nat /\ Len(flight) \in Nat /\ DOMAIN flight = 1 .. Len(flight)
  OBVIOUS
<1>2. ASSUME NEW j \in 1 .. Len(flight)
      PROVE  Len(q) + 1 + j \in DOMAIN path /\ path[Len(q) + 1 + j] = flight[j]
  <2> DEFINE k == Len(q) + 1 + j
  <2>1. k - Len(q) - 1 = j /\ k # 0 /\ ~(k <= Len(q)) /\ k # Len(q) + 1
    BY <1>1
  <2>2. k \in {Len(q) + 1 + n : n \in DOMAIN flight}
    BY <1>1
  <2> HIDE DEF k
  <2>3. k \in DOMAIN path
    BY <2>2 DEF PathOf
  <2>4. path[k] = flight[j]
    BY <2>1, <2>3 DEF PathOf
  <2>5. QED
    BY <2>3, <2>4 DEF k
<1>3. pc = "parse" => 0 \in DOMAIN path /\ path[0] = buf
  BY DEF PathOf
<1>4. \A i \in 1 .. Len(q) : i \in DOMAIN path /\ path[i] = q[i]
  BY <1>1 DEF PathOf
<1>5. dma # NoFrame => Len(q) + 1 \in DOMAIN path /\ path[Len(q) + 1] = dma
  BY <1>1 DEF PathOf
<1>6. ASSUME NEW i \in DOMAIN path
      PROVE  /\ i \in Nat
             /\ \/ i = 0 /\ pc = "parse"
                \/ i \in 1 .. Len(q)
                \/ i = Len(q) + 1 /\ dma # NoFrame
                \/ \E j \in 1 .. Len(flight) : i = Len(q) + 1 + j
  BY <1>1, <1>6 DEF PathOf
<1> HIDE DEF path
<1>7. ASSUME NEW i \in DOMAIN path
      PROVE  \/ i = 0 /\ pc = "parse" /\ path[i] = buf
             \/ i \in 1 .. Len(q) /\ path[i] = q[i]
             \/ i = Len(q) + 1 /\ dma # NoFrame /\ path[i] = dma
             \/ \E j \in 1 .. Len(flight) : i = Len(q) + 1 + j /\ path[i] = flight[j]
  BY <1>2, <1>3, <1>4, <1>5, <1>6, <1>7
<1>8. IsPath(path, pc, buf, q, dma, flight)
  BY <1>2, <1>3, <1>4, <1>5, <1>6, <1>7 DEF IsPath
<1>9. QED
  BY <1>8 DEF path

\* The path of the model is the path of the queued frames.
LEMMA PathIsPathOf ==
    ASSUME IInv, NEW p \in Ports
    PROVE  Path(p) = PathOf(mainPc, rxBuffer, QueueContents, dmaBuf, inFlight[p])
<1>1. /\ Len(QueueContents) = size
      /\ \A i \in 1 .. size : QueueContents[i] = bufArray[(front + i - 1) % FIFO_SIZE]
  BY ContentsIsSeq
<1>2. size \in Nat /\ DOMAIN inFlight[p] = 1 .. Len(inFlight[p]) /\ Len(inFlight[p]) \in Nat
  BY FifoSizeAssumption DEF IInv, TypeOK
<1> DEFINE D == (IF mainPc = "parse" THEN {0} ELSE {}) \cup 1 .. size
                  \cup (IF dmaBuf = NoFrame THEN {} ELSE {size + 1})
                  \cup {size + 1 + j : j \in DOMAIN inFlight[p]}
<1>3. \A i \in D : i \in Nat
  BY <1>2
<1>4. /\ Path(p) = [i \in D |-> IF i = 0 THEN rxBuffer
                               ELSE IF i <= size THEN bufArray[(front + i - 1) % FIFO_SIZE]
                               ELSE IF i = size + 1 THEN dmaBuf
                               ELSE inFlight[p][i - size - 1]]
      /\ PathOf(mainPc, rxBuffer, QueueContents, dmaBuf, inFlight[p])
           = [i \in D |-> IF i = 0 THEN rxBuffer
                          ELSE IF i <= size THEN QueueContents[i]
                          ELSE IF i = size + 1 THEN dmaBuf
                          ELSE inFlight[p][i - size - 1]]
  BY <1>1 DEF Path, PathOf
<1> HIDE DEF D
<1>5. \A i \in D : i # 0 /\ i <= size => QueueContents[i] = bufArray[(front + i - 1) % FIFO_SIZE]
  BY <1>1, <1>2, <1>3
<1>6. QED
  BY <1>4, <1>5

\* Frames keep their stamps while they move along the path in order: no event
\* frame of the new path is new, and none overtakes another.
LEMMA MovesKeepStamps ==
    ASSUME NEW path, NEW new, NEW stamps, NEW p, NEW h,
           Follows(path, stamps, p),
           \A i \in DOMAIN new : IsEventOf(p, new[i]) => h[i] \in DOMAIN path /\ path[h[i]] = new[i],
           \A i, j \in DOMAIN new : IsEventOf(p, new[i]) /\ IsEventOf(p, new[j]) /\ i < j => h[i] < h[j]
    PROVE  Follows(new, stamps, p)
BY DEF Follows

\* Follows, put together from its two parts.
LEMMA FollowsParts ==
    ASSUME NEW path, NEW stamps, NEW p,
           \A i \in DOMAIN path :
               IsEventOf(p, path[i]) => \E m \in DOMAIN stamps : stamps[m] = Stamp(path[i]),
           \A i, j \in DOMAIN path, m, n \in DOMAIN stamps :
               IsEventOf(p, path[i]) /\ IsEventOf(p, path[j])
               /\ stamps[m] = Stamp(path[i]) /\ stamps[n] = Stamp(path[j])
               => (i < j => m < n) /\ (i = j => m = n)
    PROVE  Follows(path, stamps, p)
BY DEF Follows

\* tsu_rx_get_timestamp returns an entry that is not the frame's: it belongs to
\* no frame of the path.
LEMMA DiscardKeepsStamps ==
    ASSUME NEW path, NEW S, NEW stamps \in Seq(S), NEW p,
           stamps # << >>, DOMAIN path \subseteq Nat,
           Follows(path, stamps, p),
           0 \in DOMAIN path, IsEventOf(p, path[0]), Head(stamps) # Stamp(path[0])
    PROVE  Follows(path, Tail(stamps), p)
<1>1. /\ Len(stamps) \in Nat \ {0} /\ DOMAIN stamps = 1 .. Len(stamps) /\ Head(stamps) = stamps[1]
      /\ DOMAIN Tail(stamps) = 1 .. Len(stamps) - 1
      /\ \A m \in 1 .. Len(stamps) - 1 : Tail(stamps)[m] = stamps[m + 1]
  BY HeadTailProperties
<1>2. ASSUME NEW i \in DOMAIN path, IsEventOf(p, path[i]), NEW m \in DOMAIN stamps,
             stamps[m] = Stamp(path[i])
      PROVE  m - 1 \in DOMAIN Tail(stamps) /\ Tail(stamps)[m - 1] = Stamp(path[i])
  <2>1. m # 1
    <3>1. PICK k \in DOMAIN stamps : stamps[k] = Stamp(path[0])
      BY DEF Follows
    <3>2. CASE i = 0
      BY <1>1, <1>2, <3>2
    <3>3. CASE i # 0
      <4>1. 0 < i
        BY <3>3
      <4>2. k < m
        BY <1>2, <3>1, <4>1 DEF Follows
      <4>3. QED
        BY <1>1, <4>2
    <3>4. QED
      BY <3>2, <3>3
  <2>2. m - 1 \in 1 .. Len(stamps) - 1 /\ (m - 1) + 1 = m
    BY <1>1, <2>1
  <2>3. QED
    BY <1>1, <1>2, <2>2
<1>3. ASSUME NEW i \in DOMAIN path, IsEventOf(p, path[i])
      PROVE  \E m \in DOMAIN Tail(stamps) : Tail(stamps)[m] = Stamp(path[i])
  <2>1. PICK m \in DOMAIN stamps : stamps[m] = Stamp(path[i])
    BY <1>3 DEF Follows
  <2>2. QED
    BY <1>2, <1>3, <2>1
<1>4. ASSUME NEW i \in DOMAIN path, IsEventOf(p, path[i]), NEW j \in DOMAIN path,
             NEW m \in DOMAIN Tail(stamps), NEW n \in DOMAIN Tail(stamps), IsEventOf(p, path[j]),
             Tail(stamps)[m] = Stamp(path[i]), Tail(stamps)[n] = Stamp(path[j])
      PROVE  (i < j => m < n) /\ (i = j => m = n)
  <2>1. /\ m + 1 \in DOMAIN stamps /\ stamps[m + 1] = Stamp(path[i])
        /\ n + 1 \in DOMAIN stamps /\ stamps[n + 1] = Stamp(path[j])
    BY <1>1, <1>4
  <2>2. (i < j => m + 1 < n + 1) /\ (i = j => m + 1 = n + 1)
    BY <1>4, <2>1 DEF Follows
  <2>3. QED
    BY <1>1, <2>2
<1>5. QED
  BY <1>3, <1>4, FollowsParts

\* The entry is the frame's: the frame leaves the path and the entry the FIFO.
LEMMA MatchKeepsStamps ==
    ASSUME NEW path, NEW new, NEW S, NEW stamps \in Seq(S), NEW p,
           stamps # << >>, DOMAIN path \subseteq Nat,
           Follows(path, stamps, p),
           0 \in DOMAIN path, IsEventOf(p, path[0]), Head(stamps) = Stamp(path[0]),
           \A i \in DOMAIN new : i # 0 /\ i \in DOMAIN path /\ path[i] = new[i]
    PROVE  Follows(new, Tail(stamps), p)
<1>1. /\ Len(stamps) \in Nat \ {0} /\ DOMAIN stamps = 1 .. Len(stamps) /\ Head(stamps) = stamps[1]
      /\ DOMAIN Tail(stamps) = 1 .. Len(stamps) - 1
      /\ \A m \in 1 .. Len(stamps) - 1 : Tail(stamps)[m] = stamps[m + 1]
  BY HeadTailProperties
<1>2. ASSUME NEW i \in DOMAIN new, IsEventOf(p, new[i])
      PROVE  \E m \in DOMAIN Tail(stamps) : Tail(stamps)[m] = Stamp(new[i])
  <2>1. i \in DOMAIN path /\ path[i] = new[i] /\ 0 < i
    BY <1>2
  <2>2. PICK m \in DOMAIN stamps : stamps[m] = Stamp(path[i])
    BY <1>2, <2>1 DEF Follows
  <2>3. 1 < m
    BY <1>1, <1>2, <2>1, <2>2 DEF Follows
  <2>4. m - 1 \in 1 .. Len(stamps) - 1 /\ (m - 1) + 1 = m
    BY <1>1, <2>3
  <2>5. QED
    BY <1>1, <2>1, <2>2, <2>4
<1>3. ASSUME NEW i \in DOMAIN new, IsEventOf(p, new[i]), NEW j \in DOMAIN new,
             NEW m \in DOMAIN Tail(stamps), NEW n \in DOMAIN Tail(stamps), IsEventOf(p, new[j]),
             Tail(stamps)[m] = Stamp(new[i]), Tail(stamps)[n] = Stamp(new[j])
      PROVE  (i < j => m < n) /\ (i = j => m = n)
  <2>1. /\ m + 1 \in DOMAIN stamps /\ stamps[m + 1] = Stamp(path[i])
        /\ n + 1 \in DOMAIN stamps /\ stamps[n + 1] = Stamp(path[j])
        /\ i \in DOMAIN path /\ path[i] = new[i] /\ j \in DOMAIN path /\ path[j] = new[j]
    BY <1>1, <1>3
  <2>2. (i < j => m + 1 < n + 1) /\ (i = j => m + 1 = n + 1)
    BY <1>3, <2>1 DEF Follows
  <2>3. QED
    BY <1>1, <2>2
<1>4. QED
  BY <1>2, <1>3, FollowsParts

\* The TSU stamps the frame that arrives last.
LEMMA ArrivalKeepsStamps ==
    ASSUME NEW path, NEW new, NEW S, NEW stamps \in Seq(S), NEW p, NEW k, NEW f,
           Follows(path, stamps, p), DOMAIN path \subseteq Nat, k \in Nat, Stamp(f) \in S,
           \A i \in DOMAIN new : \/ i = k /\ new[i] = f
                                 \/ i \in DOMAIN path /\ i < k /\ new[i] = path[i],
           \A m \in DOMAIN stamps : stamps[m] # Stamp(f)
    PROVE  Follows(new, Append(stamps, Stamp(f)), p)
<1> DEFINE s == Append(stamps, Stamp(f))
           L == Len(stamps)
<1>1. /\ L \in Nat /\ DOMAIN stamps = 1 .. L /\ DOMAIN s = 1 .. L + 1
      /\ \A m \in 1 .. L : s[m] = stamps[m]
      /\ s[L + 1] = Stamp(f)
  BY AppendProperties
<1> HIDE DEF s, L
<1>2. ASSUME NEW i \in DOMAIN new, IsEventOf(p, new[i]), i # k
      PROVE  /\ i \in DOMAIN path /\ i < k /\ new[i] = path[i]
             /\ \E m \in 1 .. L : stamps[m] = Stamp(new[i])
             /\ \A m \in DOMAIN s : s[m] = Stamp(new[i]) => m \in 1 .. L /\ stamps[m] = Stamp(path[i])
  <2>1. i \in DOMAIN path /\ i < k /\ new[i] = path[i]
    BY <1>2
  <2>2. PICK m \in DOMAIN stamps : stamps[m] = Stamp(path[i])
    BY <1>2, <2>1 DEF Follows
  <2>3. Stamp(new[i]) # Stamp(f)
    BY <2>1, <2>2
  <2>4. ASSUME NEW n \in DOMAIN s, s[n] = Stamp(new[i]) PROVE n \in 1 .. L /\ stamps[n] = Stamp(path[i])
    <3>1. n # L + 1
      BY <1>1, <2>3, <2>4
    <3>2. n \in 1 .. L
      BY <1>1, <3>1
    <3>3. QED
      BY <1>1, <2>1, <2>4, <3>2
  <2>5. QED
    BY <1>1, <2>1, <2>2, <2>4
<1>3. ASSUME NEW i \in DOMAIN new, i = k, NEW m \in DOMAIN s, s[m] = Stamp(new[i])
      PROVE  m = L + 1
  <2>1. new[i] = f
    BY <1>3
  <2>2. m \notin 1 .. L
    BY <1>1, <1>3, <2>1
  <2>3. QED
    BY <1>1, <2>2
<1>4. ASSUME NEW i \in DOMAIN new, IsEventOf(p, new[i])
      PROVE  \E m \in DOMAIN s : s[m] = Stamp(new[i])
  <2>1. CASE i = k
    BY <1>1, <2>1
  <2>2. CASE i # k
    <3>1. PICK m \in 1 .. L : stamps[m] = Stamp(new[i])
      BY <1>2, <1>4, <2>2
    <3>2. m \in DOMAIN s /\ s[m] = Stamp(new[i])
      BY <1>1, <3>1
    <3>3. QED
      BY <3>2
  <2>3. QED
    BY <2>1, <2>2
<1>5. ASSUME NEW i \in DOMAIN new, IsEventOf(p, new[i]), NEW j \in DOMAIN new, IsEventOf(p, new[j]),
             NEW m \in DOMAIN s, NEW n \in DOMAIN s, s[m] = Stamp(new[i]), s[n] = Stamp(new[j])
      PROVE  (i < j => m < n) /\ (i = j => m = n)
  <2>1. CASE i # k /\ j # k
    <3>1. /\ i \in DOMAIN path /\ new[i] = path[i] /\ m \in 1 .. L /\ stamps[m] = Stamp(path[i])
          /\ j \in DOMAIN path /\ new[j] = path[j] /\ n \in 1 .. L /\ stamps[n] = Stamp(path[j])
      BY <1>2, <1>5, <2>1
    <3>2. QED
      BY <1>1, <1>5, <3>1 DEF Follows
  <2>2. CASE i # k /\ j = k
    <3>1. m \in 1 .. L /\ i < k
      BY <1>2, <1>5, <2>2
    <3>2. n = L + 1
      BY <1>3, <1>5, <2>2
    <3>3. QED
      BY <1>1, <2>2, <3>1, <3>2
  <2>3. CASE i = k /\ j # k
    <3>1. j < k /\ j \in Nat
      BY <1>2, <1>5, <2>3
    <3>2. QED
      BY <2>3, <3>1
  <2>4. CASE i = k /\ j = k
    <3>1. m = L + 1 /\ n = L + 1
      BY <1>3, <1>5, <2>4
    <3>2. QED
      BY <2>4, <3>1
  <2>5. QED
    BY <2>1, <2>2, <2>3, <2>4
<1>6. Follows(new, s, p)
  BY <1>4, <1>5, FollowsParts
<1>7. QED
  BY <1>6 DEF s

\* recv_ptp_frame is not, or no longer, matching a frame.
LEMMA DispatchPlaces ==
    ASSUME NEW path, NEW new, NEW pc, NEW newPc, newPc # "parse", NEW buf, NEW newBuf,
           NEW q \in Seq(PtpFrame), NEW dma, NEW flight \in Seq(Frame),
           IsPath(path, pc, buf, q, dma, flight), IsPath(new, newPc, newBuf, q, dma, flight)
    PROVE  \A i \in DOMAIN new : i \in Nat \ {0} /\ i \in DOMAIN path /\ path[i] = new[i]
<1>1. Len(q) \in Nat /\ Len(flight) \in Nat
  OBVIOUS
<1>2. QED
  BY <1>1 DEF IsPath

\* The receive buffer is given up.
LEMMA SkipMoves ==
    ASSUME NEW path, NEW new, NEW pc, NEW buf, NEW q \in Seq(PtpFrame), NEW dma,
           NEW flight \in Seq(Frame), NEW p, NEW stamps,
           IsPath(path, pc, buf, q, dma, flight), IsPath(new, pc, buf, q, NoFrame, flight),
           Follows(path, stamps, p)
    PROVE  Follows(new, stamps, p)
<1> DEFINE h == [i \in Nat |-> i]
<1>1. Len(q) \in Nat /\ Len(flight) \in Nat
  OBVIOUS
<1>2. \A i \in DOMAIN new : i \in Nat /\ i \in DOMAIN path /\ path[i] = new[i]
  BY <1>1 DEF IsPath
<1>3. /\ \A i \in DOMAIN new : h[i] \in DOMAIN path /\ path[h[i]] = new[i]
      /\ \A i, j \in DOMAIN new : i < j => h[i] < h[j]
  BY <1>2
<1> HIDE DEF h
<1>4. QED
  BY <1>3, MovesKeepStamps

\* PL drops the oldest frame of a port.
LEMMA DropMoves ==
    ASSUME NEW path, NEW new, NEW pc, NEW buf, NEW q \in Seq(PtpFrame), NEW dma,
           NEW flight \in Seq(Frame), flight # << >>, NEW p, NEW stamps,
           IsPath(path, pc, buf, q, dma, flight), IsPath(new, pc, buf, q, dma, Tail(flight)),
           Follows(path, stamps, p)
    PROVE  Follows(new, stamps, p)
<1> DEFINE h == [i \in Nat |-> IF i <= Len(q) + 1 THEN i ELSE i + 1]
<1>1. /\ Len(q) \in Nat /\ Len(flight) \in Nat /\ Len(Tail(flight)) = Len(flight) - 1
      /\ \A j \in 1 .. Len(flight) - 1 : Tail(flight)[j] = flight[j + 1]
  BY HeadTailProperties
<1>2. ASSUME NEW i \in DOMAIN new PROVE i \in Nat /\ h[i] \in DOMAIN path /\ path[h[i]] = new[i]
  <2>1. i \in Nat
    BY DEF IsPath
  <2>2. CASE i <= Len(q) + 1
    <3>1. h[i] = i /\ ~ \E j \in 1 .. Len(Tail(flight)) : i = Len(q) + 1 + j
      BY <1>1, <2>1, <2>2
    <3>2. QED
      BY <3>1, <2>1 DEF IsPath
  <2>3. CASE ~ (i <= Len(q) + 1)
    <3>1. PICK j \in 1 .. Len(Tail(flight)) : i = Len(q) + 1 + j /\ new[i] = Tail(flight)[j]
      BY <1>1, <2>1, <2>3 DEF IsPath
    <3>2. h[i] = Len(q) + 1 + (j + 1) /\ j + 1 \in 1 .. Len(flight) /\ new[i] = flight[j + 1]
      BY <1>1, <2>1, <2>3, <3>1
    <3>3. QED
      BY <2>1, <3>2 DEF IsPath
  <2>4. QED
    BY <2>2, <2>3
<1>3. \A i, j \in DOMAIN new : i < j => h[i] < h[j]
  BY <1>1, <1>2
<1> HIDE DEF h
<1>4. QED
  BY <1>2, <1>3, MovesKeepStamps

\* A transfer completes: the oldest frame of the port is in the receive buffer.
LEMMA TransferMoves ==
    ASSUME NEW path, NEW new, NEW pc, NEW buf, NEW q \in Seq(PtpFrame),
           NEW flight \in Seq(Frame), flight # << >>, NEW p, NEW stamps,
           IsPath(path, pc, buf, q, NoFrame, flight),
           IsPath(new, pc, buf, q, Head(flight), Tail(flight)),
           Follows(path, stamps, p)
    PROVE  Follows(new, stamps, p)
<1> DEFINE h == [i \in Nat |-> IF i <= Len(q) THEN i ELSE i + 1]
<1>1. /\ Len(q) \in Nat /\ Len(flight) \in Nat \ {0} /\ Len(Tail(flight)) = Len(flight) - 1
      /\ \A j \in 1 .. Len(flight) - 1 : Tail(flight)[j] = flight[j + 1]
      /\ Head(flight) = flight[1]
  BY HeadTailProperties
<1>2. ASSUME NEW i \in DOMAIN new PROVE i \in Nat /\ h[i] \in DOMAIN path /\ path[h[i]] = new[i]
  <2>1. i \in Nat
    BY DEF IsPath
  <2>2. CASE i <= Len(q)
    <3>1. h[i] = i /\ i # Len(q) + 1 /\ ~ \E j \in 1 .. Len(Tail(flight)) : i = Len(q) + 1 + j
      BY <1>1, <2>1, <2>2
    <3>2. QED
      BY <3>1, <2>1 DEF IsPath
  <2>3. CASE i = Len(q) + 1
    <3>1. new[i] = flight[1]
      BY <1>1, <2>3 DEF IsPath
    <3>2. h[i] = Len(q) + 1 + 1 /\ 1 \in 1 .. Len(flight)
      BY <1>1, <2>1, <2>3
    <3>3. QED
      BY <2>1, <3>1, <3>2 DEF IsPath
  <2>4. CASE ~ (i <= Len(q) + 1)
    <3>1. PICK j \in 1 .. Len(Tail(flight)) : i = Len(q) + 1 + j /\ new[i] = Tail(flight)[j]
      BY <1>1, <2>1, <2>4 DEF IsPath
    <3>2. h[i] = Len(q) + 1 + (j + 1) /\ j + 1 \in 1 .. Len(flight) /\ new[i] = flight[j + 1]
      BY <1>1, <2>1, <2>4, <3>1
    <3>3. QED
      BY <2>1, <3>2 DEF IsPath
  <2>5. i <= Len(q) \/ i = Len(q) + 1 \/ ~ (i <= Len(q) + 1)
    BY <1>1, <2>1
  <2>6. QED
    BY <2>2, <2>3, <2>4, <2>5
<1>3. \A i, j \in DOMAIN new : i < j => h[i] < h[j]
  BY <1>1, <1>2
<1> HIDE DEF h
<1>4. QED
  BY <1>2, <1>3, MovesKeepStamps

\* A transfer of another port's frame completes.
LEMMA OtherTransferMoves ==
    ASSUME NEW path, NEW new, NEW pc, NEW buf, NEW q \in Seq(PtpFrame), NEW f,
           NEW flight \in Seq(Frame), NEW p, NEW stamps, ~IsEventOf(p, f),
           IsPath(path, pc, buf, q, NoFrame, flight), IsPath(new, pc, buf, q, f, flight),
           Follows(path, stamps, p)
    PROVE  Follows(new, stamps, p)
<1> DEFINE h == [i \in Nat |-> i]
<1>1. Len(q) \in Nat /\ Len(flight) \in Nat
  OBVIOUS
<1>2. \A i \in DOMAIN new : /\ i \in Nat
                            /\ new[i] = f \/ (i \in DOMAIN path /\ path[i] = new[i])
  BY <1>1 DEF IsPath
<1>3. /\ \A i \in DOMAIN new : IsEventOf(p, new[i]) => h[i] \in DOMAIN path /\ path[h[i]] = new[i]
      /\ \A i, j \in DOMAIN new : i < j => h[i] < h[j]
  BY <1>2
<1> HIDE DEF h
<1>4. QED
  BY <1>3, MovesKeepStamps

\* push_queue moves the frame from the receive buffer to the end of the ring.
LEMMA PushMoves ==
    ASSUME NEW path, NEW new, NEW pc, NEW buf, NEW q \in Seq(PtpFrame), NEW f \in PtpFrame,
           NEW flight \in Seq(Frame), NEW p, NEW stamps, f # NoFrame,
           IsPath(path, pc, buf, q, f, flight),
           IsPath(new, pc, buf, Append(q, f), NoFrame, flight),
           Follows(path, stamps, p)
    PROVE  Follows(new, stamps, p)
<1> DEFINE h == [i \in Nat |-> IF i <= Len(q) + 1 THEN i ELSE i - 1]
<1>1. /\ Len(q) \in Nat /\ Len(flight) \in Nat /\ Len(Append(q, f)) = Len(q) + 1
      /\ \A i \in 1 .. Len(q) : Append(q, f)[i] = q[i]
      /\ Append(q, f)[Len(q) + 1] = f
  BY AppendProperties
<1>2. ASSUME NEW i \in DOMAIN new
      PROVE  /\ i \in Nat /\ i # Len(q) + 2
             /\ h[i] \in DOMAIN path /\ path[h[i]] = new[i]
  <2>1. i \in Nat
    BY DEF IsPath
  <2>2. CASE i = 0
    <3>1. h[i] = 0 /\ pc = "parse" /\ new[i] = buf
      BY <1>1, <2>2 DEF IsPath
    <3>2. QED
      BY <1>1, <2>2, <3>1 DEF IsPath
  <2>3. CASE i \in 1 .. Len(q)
    <3>1. h[i] = i /\ i \in 1 .. Len(Append(q, f))
      BY <1>1, <2>1, <2>3
    <3>2. i # Len(q) + 2
      BY <1>1, <2>3
    <3>3. new[i] = q[i]
      BY <1>1, <2>3, <3>1 DEF IsPath
    <3>4. QED
      BY <2>1, <2>3, <3>1, <3>2, <3>3 DEF IsPath
  <2>4. CASE i = Len(q) + 1
    <3>1. h[i] = i /\ i \in 1 .. Len(Append(q, f)) /\ i # Len(q) + 2
      BY <1>1, <2>1, <2>4
    <3>2. new[i] = f
      BY <1>1, <2>4, <3>1 DEF IsPath
    <3>3. QED
      BY <2>1, <2>4, <3>1, <3>2 DEF IsPath
  <2>5. CASE i > Len(q) + 1
    <3>1. PICK j \in 1 .. Len(flight) : i = (Len(q) + 1) + 1 + j /\ new[i] = flight[j]
      <4>1. /\ i # 0 /\ i \notin 1 .. Len(Append(q, f))
        BY <1>1, <2>1, <2>5
      <4>2. PICK j \in 1 .. Len(flight) : i = Len(Append(q, f)) + 1 + j /\ new[i] = flight[j]
        BY <4>1 DEF IsPath
      <4>3. QED
        BY <1>1, <4>2
    <3>2. h[i] = Len(q) + 1 + j /\ i # Len(q) + 2
      BY <1>1, <2>1, <2>5, <3>1
    <3>3. QED
      BY <2>1, <3>1, <3>2 DEF IsPath
  <2>6. i = 0 \/ i \in 1 .. Len(q) \/ i = Len(q) + 1 \/ i > Len(q) + 1
    BY <1>1, <2>1
  <2>7. QED
    BY <2>2, <2>3, <2>4, <2>5, <2>6
<1>3. ASSUME NEW i \in DOMAIN new, NEW j \in DOMAIN new, i < j PROVE h[i] < h[j]
  <2>1. i \in Nat /\ i # Len(q) + 2 /\ j \in Nat /\ j # Len(q) + 2
    BY <1>2
  <2>2. QED
    BY <1>1, <1>3, <2>1
<1> HIDE DEF h
<1>4. QED
  BY <1>2, <1>3, MovesKeepStamps

\* pop_queue has taken the oldest frame, and recv_ptp_frame starts to match it.
LEMMA PopMoves ==
    ASSUME NEW path, NEW new, NEW pc, pc # "parse", NEW buf, NEW q \in Seq(PtpFrame), q # << >>, NEW dma,
           NEW flight \in Seq(Frame), NEW p, NEW stamps,
           IsPath(path, pc, buf, q, dma, flight),
           IsPath(new, "parse", Head(q), Tail(q), dma, flight),
           Follows(path, stamps, p)
    PROVE  Follows(new, stamps, p)
<1> DEFINE h == [i \in Nat |-> i + 1]
<1>1. /\ Len(q) \in Nat \ {0} /\ Len(flight) \in Nat /\ Len(Tail(q)) = Len(q) - 1
      /\ \A i \in 1 .. Len(q) - 1 : Tail(q)[i] = q[i + 1]
      /\ Head(q) = q[1]
  BY HeadTailProperties
<1>2. ASSUME NEW i \in DOMAIN new PROVE i \in Nat /\ h[i] \in DOMAIN path /\ path[h[i]] = new[i]
  <2>1. i \in Nat /\ h[i] = i + 1
    BY DEF IsPath
  <2>2. CASE i = 0
    <3>1. new[i] = q[1] /\ 1 \in 1 .. Len(q) /\ h[i] = 1
      BY <1>1, <2>1, <2>2 DEF IsPath
    <3>2. QED
      BY <2>1, <3>1 DEF IsPath
  <2>3. CASE i \in 1 .. Len(q) - 1
    <3>1. new[i] = Tail(q)[i]
      BY <1>1, <2>3 DEF IsPath
    <3>2. i + 1 \in 1 .. Len(q) /\ new[i] = q[i + 1]
      BY <1>1, <2>3, <3>1
    <3>3. QED
      BY <2>1, <3>2 DEF IsPath
  <2>4. CASE i = Len(q)
    <3>1. dma # NoFrame /\ new[i] = dma /\ i + 1 = Len(q) + 1
      <4>1. i # 0 /\ i \notin 1 .. Len(Tail(q)) /\ i = Len(Tail(q)) + 1
        BY <1>1, <2>4
      <4>2. ASSUME NEW j \in 1 .. Len(flight) PROVE i # Len(Tail(q)) + 1 + j
        <5>1. j \in Nat \ {0} /\ i = Len(q) /\ i \in Nat /\ Len(Tail(q)) + 1 = Len(q)
          BY <1>1, <2>1, <2>4
        <5>2. Len(Tail(q)) + 1 + j = Len(q) + j
          BY <5>1
        <5>3. QED
          BY <5>1, <5>2
      <4>3. dma # NoFrame /\ new[i] = dma
        BY <4>1, <4>2 DEF IsPath
      <4>4. QED
        BY <2>4, <4>3
    <3>2. QED
      BY <2>1, <3>1 DEF IsPath
  <2>5. CASE i > Len(q)
    <3>1. PICK j \in 1 .. Len(flight) : i = Len(q) + j /\ new[i] = flight[j]
      <4>1. i # 0 /\ i \notin 1 .. Len(Tail(q)) /\ i # Len(Tail(q)) + 1
        BY <1>1, <2>1, <2>5
      <4>2. PICK j \in 1 .. Len(flight) : i = Len(Tail(q)) + 1 + j /\ new[i] = flight[j]
        BY <4>1 DEF IsPath
      <4>3. QED
        BY <1>1, <4>2
    <3>2. i + 1 = Len(q) + 1 + j
      BY <1>1, <3>1
    <3>3. QED
      BY <2>1, <3>1, <3>2 DEF IsPath
  <2>6. i = 0 \/ i \in 1 .. Len(q) - 1 \/ i = Len(q) \/ i > Len(q)
    BY <1>1, <2>1
  <2>7. QED
    BY <2>2, <2>3, <2>4, <2>5, <2>6
<1>3. \A i, j \in DOMAIN new : i < j => h[i] < h[j]
  BY <1>2
<1> HIDE DEF h
<1>4. QED
  BY <1>2, <1>3, MovesKeepStamps

\* A frame arrives behind all the others.
LEMMA ArrivalPlaces ==
    ASSUME NEW path, NEW new, NEW pc, NEW buf, NEW q \in Seq(PtpFrame), NEW dma,
           NEW flight \in Seq(Frame), NEW f \in Frame,
           IsPath(path, pc, buf, q, dma, flight),
           IsPath(new, pc, buf, q, dma, Append(flight, f))
    PROVE  \E k \in Nat : \A i \in DOMAIN new :
               \/ i = k /\ new[i] = f
               \/ i \in DOMAIN path /\ i < k /\ new[i] = path[i]
<1> DEFINE k == Len(q) + 1 + (Len(flight) + 1)
<1>1. /\ Len(q) \in Nat /\ Len(flight) \in Nat /\ Len(Append(flight, f)) = Len(flight) + 1
      /\ \A j \in 1 .. Len(flight) : Append(flight, f)[j] = flight[j]
      /\ Append(flight, f)[Len(flight) + 1] = f
  BY AppendProperties
<1>2. ASSUME NEW i \in DOMAIN new
      PROVE  (i = k /\ new[i] = f) \/ (i \in DOMAIN path /\ i < k /\ new[i] = path[i])
  <2>1. CASE i = 0 /\ pc = "parse" /\ new[i] = buf
    BY <1>1, <2>1 DEF IsPath
  <2>2. CASE i \in 1 .. Len(q) /\ new[i] = q[i]
    BY <1>1, <2>2 DEF IsPath
  <2>3. CASE i = Len(q) + 1 /\ dma # NoFrame /\ new[i] = dma
    BY <1>1, <2>3 DEF IsPath
  <2>4. ASSUME NEW j \in 1 .. Len(flight) + 1, i = Len(q) + 1 + j, new[i] = Append(flight, f)[j]
        PROVE  (i = k /\ new[i] = f) \/ (i \in DOMAIN path /\ i < k /\ new[i] = path[i])
    <3>1. CASE j = Len(flight) + 1
      BY <1>1, <2>4, <3>1
    <3>2. CASE j \in 1 .. Len(flight)
      <4>1. new[i] = flight[j] /\ i < k
        BY <1>1, <2>4, <3>2
      <4>2. QED
        BY <2>4, <3>2, <4>1 DEF IsPath
    <3>3. QED
      BY <1>1, <3>1, <3>2
  <2>5. QED
    BY <1>1, <2>1, <2>2, <2>3, <2>4 DEF IsPath
<1>3. k \in Nat
  BY <1>1
<1>4. QED
  BY <1>2, <1>3

\* The frames of every port, in every reachable state, are a path.
PathsFit ==
    \A p \in Ports :
        /\ IsPath(Path(p), mainPc, rxBuffer, QueueContents, dmaBuf, inFlight[p])
        /\ QueueContents \in Seq(PtpFrame) /\ inFlight[p] \in Seq(Frame)

LEMMA PathsArePaths == IInv => PathsFit
<1> SUFFICES ASSUME IInv, NEW p \in Ports
             PROVE  /\ IsPath(Path(p), mainPc, rxBuffer, QueueContents, dmaBuf, inFlight[p])
                    /\ QueueContents \in Seq(PtpFrame) /\ inFlight[p] \in Seq(Frame)
  BY DEF PathsFit
<1>1. QueueContents \in Seq(PtpFrame) /\ inFlight[p] \in Seq(Frame)
  BY ContentsIsSeq DEF IInv, TypeOK
<1>2. Path(p) = PathOf(mainPc, rxBuffer, QueueContents, dmaBuf, inFlight[p])
  BY PathIsPathOf
<1>3. QED
  BY <1>1, <1>2, PathOfIsPath

\* A step that leaves a port's stamps alone and moves its frames in order.
LEMMA DispatchMoves ==
    ASSUME NEW path, NEW new, NEW pc, NEW newPc, newPc # "parse", NEW buf, NEW newBuf,
           NEW q \in Seq(PtpFrame), NEW dma, NEW flight \in Seq(Frame), NEW p, NEW stamps,
           IsPath(path, pc, buf, q, dma, flight), IsPath(new, newPc, newBuf, q, dma, flight),
           Follows(path, stamps, p)
    PROVE  Follows(new, stamps, p)
<1> DEFINE h == [i \in Nat |-> i]
<1>1. \A i \in DOMAIN new : i \in Nat /\ i \in DOMAIN path /\ path[i] = new[i]
  BY DispatchPlaces
<1>2. /\ \A i \in DOMAIN new : h[i] \in DOMAIN path /\ path[h[i]] = new[i]
      /\ \A i, j \in DOMAIN new : i < j => h[i] < h[j]
  BY <1>1
<1> HIDE DEF h
<1>3. QED
  BY <1>2, MovesKeepStamps

\* Nothing on the path of the port moves.
LEMMA SameMoves ==
    ASSUME NEW path, NEW new, NEW pc, NEW buf, NEW q \in Seq(PtpFrame), NEW dma,
           NEW flight \in Seq(Frame), NEW p, NEW stamps,
           IsPath(path, pc, buf, q, dma, flight), IsPath(new, pc, buf, q, dma, flight),
           Follows(path, stamps, p)
    PROVE  Follows(new, stamps, p)
<1> DEFINE h == [i \in Nat |-> i]
<1>1. Len(q) \in Nat /\ Len(flight) \in Nat
  OBVIOUS
<1>2. \A i \in DOMAIN new : i \in Nat /\ i \in DOMAIN path /\ path[i] = new[i]
  BY <1>1 DEF IsPath
<1>3. /\ \A i \in DOMAIN new : h[i] \in DOMAIN path /\ path[h[i]] = new[i]
      /\ \A i, j \in DOMAIN new : i < j => h[i] < h[j]
  BY <1>2
<1> HIDE DEF h
<1>4. QED
  BY <1>3, MovesKeepStamps

\* Every frame in flight to a port came in at that port, and every stamp is of a
\* frame that arrived there.
Origin ==
    /\ \A p \in Ports : \A i \in DOMAIN inFlight[p] : inFlight[p][i].port = p
    /\ \A p \in Ports : \A m \in DOMAIN tsuRx[p] :
         \E f \in arrived : f.port = p /\ Stamp(f) = tsuRx[p][m]

\* The inductive invariant of TimestampsFollowFrames.
SInv == IInv /\ Origin /\ TimestampsFollowFrames

\* Nothing has arrived, nothing is stamped.
LEMMA InitSInv == Init => SInv
<1> SUFFICES ASSUME Init PROVE SInv
  OBVIOUS
<1>1. IInv
  BY InitIInv
<1>2. Origin
  BY DEF Init, Origin
<1>3. ASSUME NEW p \in Ports PROVE Follows(Path(p), tsuRx[p], p)
  <2>1. QueueContents = << >>
    BY DEF Init, QueueContents
  <2>2. /\ IsPath(Path(p), mainPc, rxBuffer, << >>, dmaBuf, inFlight[p])
        /\ mainPc # "parse" /\ dmaBuf = NoFrame /\ inFlight[p] = << >>
    BY <1>1, <2>1, PathsArePaths DEF Init, PathsFit
  <2>3. 1 .. Len(<< >>) = {}
    OBVIOUS
  <2>4. ASSUME NEW i \in DOMAIN Path(p) PROVE FALSE
    BY <2>2, <2>3, <2>4 DEF IsPath
  <2>5. QED
    BY <2>4 DEF Follows
<1>4. QED
  BY <1>1, <1>2, <1>3 DEF SInv, TimestampsFollowFrames

\* Steps keep the origin of frames and stamps.
LEMMA StepOrigin == IInv /\ Origin /\ [Next]_vars => Origin'
<1> SUFFICES ASSUME IInv, Origin, [Next]_vars PROVE Origin'
  OBVIOUS
<1>1. /\ tsuRx \in [Ports -> Seq([type : EventTypes, seq : Seqs])]
      /\ inFlight \in [Ports -> Seq(Frame)]
  BY DEF IInv, TypeOK
<1>2. ASSUME NEW f \in Frame, Arrive(f) PROVE Origin'
  <2>1. f.port \in Ports /\ arrived' = arrived \cup {f}
        /\ inFlight' = [inFlight EXCEPT ![f.port] = Append(@, f)]
    BY <1>2 DEF Arrive, Frame
  <2>2. ASSUME NEW p \in Ports, NEW i \in DOMAIN inFlight'[p] PROVE inFlight'[p][i].port = p
    <3>1. CASE p = f.port
      <4>1. inFlight'[p] = Append(inFlight[p], f)
        BY <1>1, <2>1, <3>1
      <4>2. \/ i \in 1 .. Len(inFlight[p]) /\ inFlight'[p][i] = inFlight[p][i]
            \/ inFlight'[p][i] = f
        BY <1>1, <2>2, <4>1, AppendProperties
      <4>3. QED
        BY <1>1, <3>1, <4>2 DEF Origin
    <3>2. CASE p # f.port
      BY <1>1, <2>1, <2>2, <3>2 DEF Origin
    <3>3. QED
      BY <3>1, <3>2
  <2>3. ASSUME NEW p \in Ports, NEW m \in DOMAIN tsuRx'[p]
        PROVE  \E g \in arrived' : g.port = p /\ Stamp(g) = tsuRx'[p][m]
    <3>1. CASE m \in DOMAIN tsuRx[p] /\ tsuRx'[p][m] = tsuRx[p][m]
      BY <2>1, <3>1 DEF Origin
    <3>2. CASE p = f.port /\ f.type \in EventTypes
               /\ tsuRx' = [tsuRx EXCEPT ![f.port] = Append(@, [type |-> f.type, seq |-> f.seq])]
      <4>1. Stamp(f) \in [type : EventTypes, seq : Seqs] /\ tsuRx'[p] = Append(tsuRx[p], Stamp(f))
        BY <1>1, <3>2 DEF Stamp, Frame
      <4>2. (m \in DOMAIN tsuRx[p] /\ tsuRx'[p][m] = tsuRx[p][m]) \/ tsuRx'[p][m] = Stamp(f)
        BY <1>1, <2>3, <4>1, AppendProperties
      <4>3. QED
        BY <2>1, <3>1, <3>2, <4>2
    <3>3. CASE ~ (p = f.port /\ f.type \in EventTypes
               /\ tsuRx' = [tsuRx EXCEPT ![f.port] = Append(@, [type |-> f.type, seq |-> f.seq])])
      <4>1. tsuRx'[p] = tsuRx[p]
        BY <1>1, <1>2, <2>1, <3>3 DEF Arrive
      <4>2. QED
        BY <2>3, <3>1, <4>1
    <3>4. QED
      BY <3>2, <3>3
  <2>4. QED
    BY <2>2, <2>3 DEF Origin
<1>3. ASSUME NEW p \in Ports, inFlight[p] # << >>, inFlight' = [inFlight EXCEPT ![p] = Tail(@)],
             UNCHANGED <<tsuRx, arrived>>
      PROVE  Origin'
  <2>1. ASSUME NEW r \in Ports, NEW i \in DOMAIN inFlight'[r] PROVE inFlight'[r][i].port = r
    <3>1. CASE r = p
      <4>1. inFlight'[r] = Tail(inFlight[r]) /\ inFlight[r] \in Seq(Frame) /\ inFlight[r] # << >>
        BY <1>1, <1>3, <3>1
      <4>2. i + 1 \in DOMAIN inFlight[r] /\ inFlight'[r][i] = inFlight[r][i + 1]
        BY <2>1, <4>1, HeadTailProperties
      <4>3. QED
        BY <4>2 DEF Origin
    <3>2. CASE r # p
      BY <1>1, <1>3, <2>1, <3>2 DEF Origin
    <3>3. QED
      BY <3>1, <3>2
  <2>2. QED
    BY <1>3, <2>1 DEF Origin
<1>4. CASE FetchTimestamp
  <2>1. rxBuffer \in PtpFrame
    BY <1>4 DEF FetchTimestamp, IInv, RingSound
  <2>2. /\ rxBuffer.port \in Ports /\ tsuRx[rxBuffer.port] # << >>
        /\ tsuRx' = [tsuRx EXCEPT ![rxBuffer.port] = Tail(@)]
        /\ UNCHANGED <<inFlight, arrived>>
    BY <1>4, <2>1 DEF FetchTimestamp, PtpFrame, Frame
  <2>3. ASSUME NEW p \in Ports, NEW m \in DOMAIN tsuRx'[p]
        PROVE  \E g \in arrived : g.port = p /\ Stamp(g) = tsuRx'[p][m]
    <3>1. CASE p = rxBuffer.port
      <4>1. /\ tsuRx'[p] = Tail(tsuRx[p]) /\ tsuRx[p] # << >>
            /\ tsuRx[p] \in Seq([type : EventTypes, seq : Seqs])
        BY <1>1, <2>2, <3>1
      <4>2. m + 1 \in DOMAIN tsuRx[p] /\ tsuRx'[p][m] = tsuRx[p][m + 1]
        BY <2>3, <4>1, HeadTailProperties
      <4>3. QED
        BY <4>2 DEF Origin
    <3>2. CASE p # rxBuffer.port
      BY <1>1, <2>2, <2>3, <3>2 DEF Origin
    <3>3. QED
      BY <3>1, <3>2
  <2>4. QED
    BY <2>2, <2>3 DEF Origin
<1>5. CASE UNCHANGED <<tsuRx, inFlight, arrived>>
  BY <1>5 DEF Origin
<1>6. ASSUME NEW p \in Ports, Drop(p) \/ DmaComplete(p) PROVE Origin'
  BY <1>3, <1>6 DEF Drop, DmaComplete
<1>7. CASE RxThread
  BY <1>5, <1>7 DEF RxThread, RxSkip, RxLock, PushFull, PushCopy, PushStore, hwVars
<1>8. CASE MainLock \/ PopNothing \/ PopCopy \/ PopStore \/ DeliverGeneral
  BY <1>5, <1>8 DEF MainLock, PopNothing, PopCopy, PopStore, DeliverGeneral, hwVars
<1>9. CASE UNCHANGED vars
  BY <1>5, <1>9 DEF vars, hwVars
<1>10. QED
  BY <1>2, <1>4, <1>6, <1>7, <1>8, <1>9 DEF Next, Hardware, MainThread

\* Steps of the hardware: arrivals queue up behind, drops and transfers keep the order.
LEMMA HardwareKeepsStamps ==
    ASSUME ~TsuMayLose, SInv, IInv', Hardware
    PROVE  TimestampsFollowFrames'
<1>1. /\ tsuRx \in [Ports -> Seq([type : EventTypes, seq : Seqs])]
      /\ inFlight \in [Ports -> Seq(Frame)]
  BY DEF SInv, IInv, TypeOK
<1>2. UNCHANGED <<QueueContents, mainPc, rxBuffer>>
  BY ContentsUnchanged DEF Hardware, Arrive, Drop, DmaComplete, mainVars
<1>3. ASSUME NEW p \in Ports
      PROVE  /\ Follows(Path(p), tsuRx[p], p)
             /\ IsPath(Path(p), mainPc, rxBuffer, QueueContents, dmaBuf, inFlight[p])
             /\ IsPath(Path(p)', mainPc, rxBuffer, QueueContents, dmaBuf', inFlight'[p])
             /\ QueueContents \in Seq(PtpFrame) /\ inFlight[p] \in Seq(Frame)
  <2>1. PathsFit'
    BY PathsArePaths, PTL
  <2>2. IsPath(Path(p)', mainPc', rxBuffer', QueueContents', dmaBuf', inFlight'[p])
    BY <2>1 DEF PathsFit
  <2>3. QED
    BY <1>2, <2>2, PathsArePaths DEF SInv, TimestampsFollowFrames, PathsFit
<1>4. ASSUME NEW f \in Frame, Arrive(f), NEW p \in Ports PROVE Follows(Path(p)', tsuRx'[p], p)
  <2>1. f.port \in Ports /\ f \notin arrived /\ dmaBuf' = dmaBuf
        /\ inFlight' = [inFlight EXCEPT ![f.port] = Append(@, f)]
    BY <1>4 DEF Arrive, Frame, rxVars
  <2>2. CASE p # f.port
    <3>1. inFlight'[p] = inFlight[p] /\ tsuRx'[p] = tsuRx[p]
      BY <1>1, <1>4, <2>1, <2>2 DEF Arrive
    <3>2. QED
      BY <1>3, <2>1, <3>1, SameMoves
  <2>3. CASE p = f.port
    <3>1. inFlight'[p] = Append(inFlight[p], f)
      BY <1>1, <2>1, <2>3
    <3>2. PICK k \in Nat : \A i \in DOMAIN Path(p)' :
               \/ i = k /\ Path(p)'[i] = f
               \/ i \in DOMAIN Path(p) /\ i < k /\ Path(p)'[i] = Path(p)[i]
      <4>1. /\ IsPath(Path(p), mainPc, rxBuffer, QueueContents, dmaBuf, inFlight[p])
            /\ IsPath(Path(p)', mainPc, rxBuffer, QueueContents, dmaBuf, Append(inFlight[p], f))
            /\ QueueContents \in Seq(PtpFrame) /\ inFlight[p] \in Seq(Frame)
        BY <1>3, <2>1, <3>1
      <4>2. QED
        BY <4>1, ArrivalPlaces
    <3>3. DOMAIN Path(p) \subseteq Nat
      BY <1>3 DEF IsPath
    <3>4. CASE f.type \in EventTypes
      <4>1. tsuRx'[p] = Append(tsuRx[p], Stamp(f)) /\ Stamp(f) \in [type : EventTypes, seq : Seqs]
        BY <1>1, <1>4, <2>1, <2>3, <3>4 DEF Arrive, Stamp, Frame
      <4>2. ASSUME NEW m \in DOMAIN tsuRx[p], tsuRx[p][m] = Stamp(f) PROVE FALSE
        <5>1. PICK g \in arrived : g.port = p /\ Stamp(g) = Stamp(f)
          BY <4>2 DEF SInv, Origin
        <5>2. g \in Frame /\ g.type = f.type /\ g.seq = f.seq /\ g.port = f.port
          BY <2>3, <5>1 DEF Stamp, SInv, IInv, TypeOK
        <5>3. g = f
          BY <5>2 DEF Frame
        <5>4. QED
          BY <2>1, <5>1, <5>3
      <4>3. tsuRx[p] \in Seq([type : EventTypes, seq : Seqs]) /\ Follows(Path(p), tsuRx[p], p)
        BY <1>1, <1>3
      <4>4. Follows(Path(p)', Append(tsuRx[p], Stamp(f)), p)
        BY <3>2, <3>3, <4>1, <4>2, <4>3, ArrivalKeepsStamps
      <4>5. QED
        BY <4>1, <4>4
    <3>5. CASE f.type \notin EventTypes
      <4>1. tsuRx'[p] = tsuRx[p] /\ ~IsEventOf(p, f)
        BY <1>4, <3>5 DEF Arrive, IsEventOf
      <4> DEFINE h == [i \in Nat |-> i]
      <4>2. /\ \A i \in DOMAIN Path(p)' : IsEventOf(p, Path(p)'[i]) =>
                  h[i] \in DOMAIN Path(p) /\ Path(p)[h[i]] = Path(p)'[i]
            /\ \A i, j \in DOMAIN Path(p)' : i < j => h[i] < h[j]
        BY <3>2, <3>3, <4>1
      <4> HIDE DEF h
      <4>3. QED
        BY <1>3, <4>1, <4>2, MovesKeepStamps
    <3>6. QED
      BY <3>4, <3>5
  <2>4. QED
    BY <2>2, <2>3
<1>5. ASSUME NEW r \in Ports, Drop(r), NEW p \in Ports PROVE Follows(Path(p)', tsuRx'[p], p)
  <2>1. inFlight[r] # << >> /\ inFlight' = [inFlight EXCEPT ![r] = Tail(@)]
        /\ tsuRx' = tsuRx /\ dmaBuf' = dmaBuf
    BY <1>5 DEF Drop, rxVars
  <2>2. CASE p = r
    <3>1. inFlight'[p] = Tail(inFlight[p]) /\ inFlight[p] # << >>
      BY <1>1, <2>1, <2>2
    <3>2. QED
      BY <1>3, <2>1, <3>1, DropMoves
  <2>3. CASE p # r
    <3>1. inFlight'[p] = inFlight[p]
      BY <1>1, <2>1, <2>3
    <3>2. QED
      BY <1>3, <2>1, <3>1, SameMoves
  <2>4. QED
    BY <2>2, <2>3
<1>6. ASSUME NEW r \in Ports, DmaComplete(r), NEW p \in Ports PROVE Follows(Path(p)', tsuRx'[p], p)
  <2>1. /\ inFlight[r] # << >> /\ inFlight' = [inFlight EXCEPT ![r] = Tail(@)]
        /\ tsuRx' = tsuRx /\ dmaBuf = NoFrame /\ dmaBuf' = Head(inFlight[r])
    BY <1>6 DEF DmaComplete
  <2>2. CASE p = r
    <3>1. inFlight'[p] = Tail(inFlight[p]) /\ inFlight[p] # << >>
      BY <1>1, <2>1, <2>2
    <3>2. QED
      BY <1>3, <2>1, <2>2, <3>1, TransferMoves
  <2>3. CASE p # r
    <3>1. inFlight'[p] = inFlight[p]
      BY <1>1, <2>1, <2>3
    <3>2. ~IsEventOf(p, dmaBuf')
      <4>1. 1 \in DOMAIN inFlight[r] /\ dmaBuf' = inFlight[r][1]
        BY <1>1, <2>1
      <4>2. dmaBuf'.port = r
        BY <4>1 DEF SInv, Origin
      <4>3. QED
        BY <2>3, <4>2 DEF IsEventOf
    <3>3. QED
      BY <1>3, <2>1, <3>1, <3>2, OtherTransferMoves
  <2>4. QED
    BY <2>2, <2>3
<1>7. QED
  BY <1>4, <1>5, <1>6 DEF Hardware, TimestampsFollowFrames

\* The receive thread moves frames from the receive buffer into the ring.
LEMMA RxThreadKeepsStamps ==
    ASSUME SInv, IInv', RxThread
    PROVE  TimestampsFollowFrames'
<1>1. UNCHANGED <<mainPc, rxBuffer, tsuRx, inFlight>>
  BY DEF RxThread, RxSkip, RxLock, PushFull, PushCopy, PushStore, mainVars, hwVars
<1>2. PathsFit /\ PathsFit' /\ IInv
  BY PathsArePaths, PTL DEF SInv
<1> SUFFICES ASSUME NEW p \in Ports PROVE Follows(Path(p)', tsuRx'[p], p)
  BY DEF TimestampsFollowFrames
<1>3. /\ Follows(Path(p), tsuRx[p], p) /\ tsuRx' = tsuRx
      /\ IsPath(Path(p), mainPc, rxBuffer, QueueContents, dmaBuf, inFlight[p])
      /\ IsPath(Path(p)', mainPc, rxBuffer, QueueContents', dmaBuf', inFlight[p])
      /\ QueueContents \in Seq(PtpFrame) /\ inFlight[p] \in Seq(Frame)
  BY <1>1, <1>2 DEF SInv, TimestampsFollowFrames, PathsFit
<1>4. CASE RxSkip
  <2>1. QueueContents' = QueueContents /\ dmaBuf' = NoFrame
    BY <1>4, ContentsUnchanged DEF RxSkip
  <2>2. QED
    BY <1>3, <2>1, SkipMoves
<1>5. CASE RxLock \/ PushFull
  <2>1. QueueContents' = QueueContents /\ dmaBuf' = dmaBuf
    BY <1>5, ContentsUnchanged DEF RxLock, PushFull, rxVars
  <2>2. QED
    BY <1>3, <2>1, SameMoves
<1>6. CASE PushCopy
  <2>1. QueueContents' = QueueContents /\ dmaBuf' = dmaBuf
    BY <1>2, <1>6, PushCopyStutters DEF PushCopy, Fifo!fifoVars
  <2>2. QED
    BY <1>3, <2>1, SameMoves
<1>7. CASE PushStore
  <2>1. QueueContents' = Append(QueueContents, dmaBuf) /\ dmaBuf \in PtpFrame /\ dmaBuf' = NoFrame
    BY <1>2, <1>7, PushStoreAppends DEF PushStore, Fifo!Push
  <2>2. dmaBuf # NoFrame
    BY <2>1, NoFrameAssumption DEF PtpFrame
  <2>3. QED
    BY <1>3, <2>1, <2>2, PushMoves
<1>8. QED
  BY <1>4, <1>5, <1>6, <1>7 DEF RxThread

\* The main loop takes the oldest frame, and takes from the TSU FIFO only stamps of
\* that frame or of no frame at all.
LEMMA MainThreadKeepsStamps ==
    ASSUME SInv, IInv', MainThread
    PROVE  TimestampsFollowFrames'
<1>1. UNCHANGED <<dmaBuf, inFlight>>
  BY DEF MainThread, MainLock, PopNothing, PopCopy, PopStore, DeliverGeneral, FetchTimestamp,
         rxVars, hwVars
<1>2. PathsFit /\ PathsFit' /\ IInv
  BY PathsArePaths, PTL DEF SInv
<1>3. tsuRx \in [Ports -> Seq([type : EventTypes, seq : Seqs])]
  BY <1>2 DEF IInv, TypeOK
<1> SUFFICES ASSUME NEW p \in Ports PROVE Follows(Path(p)', tsuRx'[p], p)
  BY DEF TimestampsFollowFrames
<1>4. /\ Follows(Path(p), tsuRx[p], p)
      /\ IsPath(Path(p), mainPc, rxBuffer, QueueContents, dmaBuf, inFlight[p])
      /\ IsPath(Path(p)', mainPc', rxBuffer', QueueContents', dmaBuf, inFlight[p])
      /\ QueueContents \in Seq(PtpFrame) /\ inFlight[p] \in Seq(Frame)
  BY <1>1, <1>2 DEF SInv, TimestampsFollowFrames, PathsFit
<1>5. CASE MainLock \/ PopNothing \/ PopCopy \/ DeliverGeneral
  <2>1. QueueContents' = QueueContents /\ mainPc' # "parse" /\ tsuRx' = tsuRx
    BY <1>5, ContentsUnchanged DEF MainLock, PopNothing, PopCopy, DeliverGeneral, hwVars
  <2>2. QED
    BY <1>4, <2>1, DispatchMoves
<1>6. CASE PopStore
  <2>1. /\ QueueContents # << >> /\ QueueContents' = Tail(QueueContents)
        /\ rxBuffer' = Head(QueueContents)
        /\ mainPc # "parse" /\ mainPc' = "parse" /\ tsuRx' = tsuRx
    BY <1>2, <1>6, PopStoreReleasesFront DEF PopStore, Fifo!ReleaseFront, hwVars
  <2>2. IsPath(Path(p)', "parse", Head(QueueContents), Tail(QueueContents), dmaBuf, inFlight[p])
    BY <1>4, <2>1
  <2>3. QED
    BY <1>4, <2>1, <2>2, PopMoves
<1>7. CASE FetchTimestamp
  <2>1. /\ rxBuffer' = rxBuffer /\ QueueContents' = QueueContents /\ mainPc = "parse"
        /\ rxBuffer.type \in EventTypes /\ tsuRx[rxBuffer.port] # << >>
        /\ tsuRx' = [tsuRx EXCEPT ![rxBuffer.port] = Tail(@)]
    BY <1>7, ContentsUnchanged DEF FetchTimestamp
  <2>2. rxBuffer \in PtpFrame /\ rxBuffer.port \in Ports
    BY <1>2, <2>1 DEF IInv, RingSound, PtpFrame, Frame
  <2>3. /\ DOMAIN Path(p) \subseteq Nat /\ 0 \in DOMAIN Path(p) /\ Path(p)[0] = rxBuffer
    BY <1>4, <2>1 DEF IsPath
  <2>4. CASE p # rxBuffer.port
    <3>1. tsuRx'[p] = tsuRx[p]
      BY <1>3, <2>1, <2>4
    <3>2. mainPc' = mainPc \/ mainPc' # "parse"
      BY <2>1
    <3>3. QED
      BY <1>4, <2>1, <3>1, <3>2, SameMoves, DispatchMoves
  <2>5. CASE p = rxBuffer.port
    <3>1. /\ tsuRx'[p] = Tail(tsuRx[p]) /\ tsuRx[p] # << >>
          /\ tsuRx[p] \in Seq([type : EventTypes, seq : Seqs])
          /\ IsEventOf(p, Path(p)[0])
      BY <1>3, <2>1, <2>2, <2>3, <2>5 DEF IsEventOf
    <3>2. Head(tsuRx[p]) \in [type : EventTypes, seq : Seqs]
      BY <3>1, HeadTailProperties
    <3>3. CASE Head(tsuRx[p]) = Stamp(rxBuffer)
      <4>1. mainPc' = "loop"
        <5>1. Head(tsuRx[p]).type = rxBuffer.type /\ Head(tsuRx[p]).seq = rxBuffer.seq
          BY <3>3 DEF Stamp
        <5>2. QED
          BY <1>7, <2>5, <5>1 DEF FetchTimestamp
      <4>2. \A i \in DOMAIN Path(p)' : i \in Nat \ {0} /\ i \in DOMAIN Path(p) /\ Path(p)[i] = Path(p)'[i]
        BY <1>4, <2>1, <4>1, DispatchPlaces
      <4>3. Follows(Path(p)', Tail(tsuRx[p]), p)
        BY <1>4, <2>3, <3>1, <3>3, <4>2, MatchKeepsStamps
      <4>4. QED
        BY <3>1, <4>3
    <3>4. CASE Head(tsuRx[p]) # Stamp(rxBuffer)
      <4>1. mainPc' = mainPc
        <5>1. ~ (Head(tsuRx[p]).type = rxBuffer.type /\ Head(tsuRx[p]).seq = rxBuffer.seq)
          BY <3>2, <3>4 DEF Stamp
        <5>2. QED
          BY <1>7, <2>1, <2>5, <5>1 DEF FetchTimestamp
      <4>2. Follows(Path(p), Tail(tsuRx[p]), p)
        BY <1>4, <2>3, <3>1, <3>4, DiscardKeepsStamps
      <4>3. QED
        BY <1>4, <2>1, <3>1, <4>1, <4>2, SameMoves
    <3>5. QED
      BY <3>3, <3>4
  <2>6. QED
    BY <2>4, <2>5
<1>8. QED
  BY <1>5, <1>6, <1>7 DEF MainThread

\* No step breaks the order of stamps and frames while the TSU records every frame.
LEMMA StepSInv == ~TsuMayLose /\ SInv /\ [Next]_vars => SInv'
<1> SUFFICES ASSUME ~TsuMayLose, SInv, [Next]_vars PROVE SInv'
  OBVIOUS
<1>1. IInv' /\ Origin'
  BY StepIInv, StepOrigin DEF SInv
<1>2. CASE UNCHANGED vars
  <2>1. \A p \in Ports : UNCHANGED Path(p) /\ UNCHANGED tsuRx
    BY <1>2 DEF vars, queueVars, rxVars, mainVars, hwVars, Path
  <2>2. TimestampsFollowFrames'
    BY <2>1 DEF SInv, TimestampsFollowFrames
  <2>3. QED
    BY <1>1, <2>2 DEF SInv
<1>3. QED
  BY <1>1, <1>2, HardwareKeepsStamps, RxThreadKeepsStamps, MainThreadKeepsStamps DEF Next, SInv

\* recv_ptp_frame's loop over tsu_rx_get_timestamp never throws away the timestamp
\* of a frame that is still on its way, whatever PL drops, for any number of ports,
\* of slots and of frames in flight, as long as the TSU records every event frame.
THEOREM StampsFollowFrames == ~TsuMayLose => (Spec => []TimestampsFollowFrames)
<1> SUFFICES ASSUME ~TsuMayLose PROVE Spec => []TimestampsFollowFrames
  OBVIOUS
<1>1. SInv /\ [Next]_vars => SInv'
  BY StepSInv
<1>2. SInv => TimestampsFollowFrames
  BY DEF SInv
<1>3. QED
  BY <1>1, <1>2, InitSInv, PTL DEF Spec
===============================================================================
