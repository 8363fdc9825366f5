--------------------------- MODULE PlcInputProofs ---------------------------
(***************************************************************************)
(* Proofs about PlcInput, for any streams, cycle, offsets and times: the   *)
(* types, and, if devices and scans are in time, that a scan computes on   *)
(* the packets of one cycle, that outputs only move forward, and what a    *)
(* lost packet costs.                                                      *)
(***************************************************************************)
EXTENDS PlcInput, SequenceTheorems, FiniteSetTheorems, WellFoundedInduction, TLAPS

Compute(k) == InCycle(k, COMPUTE_OFFSET)

\* A stream sent at offset has packets q in flight at time t, one per cycle, all of
\* them later than the packet (of time ts and with this id) taken last.
Stream(q, ts, id, t, offset) ==
  /\ ts = 0 \/ (CYCLE_TIME <= ts /\ ts % CYCLE_TIME = offset /\ ts < t /\ id = Cycle(ts))
  /\ \A i \in DOMAIN q :
       /\ q[i] % CYCLE_TIME = offset
       /\ CYCLE_TIME <= q[i] /\ q[i] < t /\ ts + CYCLE_TIME <= q[i]
       /\ \A j \in DOMAIN q : i < j => q[i] + CYCLE_TIME <= q[j]

Packets ==
  /\ CYCLE_TIME <= now
  /\ \A s \in Streams : Stream(inFlight[s], input_timestamp[s], input_pkt_id[s], now, SendOffset[s])

\* Ids are those of cycles that have begun, or what malloc returned.
Bounded == \A s \in Streams : input_pkt_id[s] <= now + JunkId

\* bufferLock is lost where main is not receiving.
Locked == bufferLock = "lost" => pc \in {"input", "program", "output"}

\* What waits for the next cycle is not late.
Fresh ==
  bufferLock # "lost" => \A s \in Streams : COMPUTE_OFFSET <= SendOffset[s] =>
    \A i \in DOMAIN inFlight[s] :
      now + SendOffset[s] <= inFlight[s][i] + COMPUTE_OFFSET + CYCLE_TIME

\* All that was sent before compute time b has been output.
SentBefore(b) ==
  /\ output.ts < b
  /\ output.id = 0 \/ \E s \in Streams : InCycle(output.id, SendOffset[s]) < b

\* Packets for a scan after compute time k are still to come.
Between ==
  pc \in {"input", "receive"} => \E k \in Nat :
    /\ Compute(k) <= now /\ SentBefore(Compute(k))
    /\ \A s \in Streams : \A i \in DOMAIN inFlight[s] : Compute(k) <= inFlight[s][i]

Scanning ==
  /\ pc \in {"wait", "program", "output", "send"} =>
       /\ \E k \in Nat : next_compute_ts = Compute(k)
       /\ CYCLE_TIME < next_compute_ts /\ SentBefore(next_compute_ts - CYCLE_TIME)
       /\ \A s \in Streams : /\ next_compute_ts <= input_timestamp[s] + CYCLE_TIME
                             /\ input_timestamp[s] < next_compute_ts
  /\ pc = "wait" => now <= next_compute_ts
  /\ pc \in {"program", "output", "send"} =>
       /\ next_compute_ts <= now /\ scanEnd = next_compute_ts + ScanTime
       /\ bufferLock # "lost" => now <= scanEnd

TInv == TypeOK /\ Packets /\ Bounded /\ Locked

IInv == TInv /\ Fresh /\ Between /\ Scanning

-----------------------------------------------------------------------------
(***************************************************************************)
(* Cycles                                                                  *)
(***************************************************************************)
LEMMA Division ==
  ASSUME NEW n \in Nat
  PROVE  /\ Cycle(n) \in Nat /\ n % CYCLE_TIME \in 0 .. CYCLE_TIME - 1
         /\ n = Cycle(n) * CYCLE_TIME + (n % CYCLE_TIME)
<1>1. CYCLE_TIME \in Nat /\ CYCLE_TIME > 0
  BY TimesAssumption
<1>2. n % CYCLE_TIME \in 0 .. CYCLE_TIME - 1
  BY <1>1
<1>3. n \div CYCLE_TIME \in Int /\ n = CYCLE_TIME * (n \div CYCLE_TIME) + (n % CYCLE_TIME)
  BY <1>1
<1>4. n \div CYCLE_TIME \in Nat
  <2> DEFINE q == n \div CYCLE_TIME
  <2>1. q \in Int /\ CYCLE_TIME * q > -CYCLE_TIME
    <3>1. n % CYCLE_TIME < CYCLE_TIME /\ n % CYCLE_TIME \in Nat /\ CYCLE_TIME * q \in Int
      BY <1>1, <1>2, <1>3
    <3>2. QED
      BY <1>1, <1>3, <3>1
  <2> HIDE DEF q
  <2>2. q >= 0
    BY <1>1, <2>1
  <2>3. QED
    BY <2>1, <2>2 DEF q
<1>5. CYCLE_TIME * (n \div CYCLE_TIME) = (n \div CYCLE_TIME) * CYCLE_TIME
  BY <1>1, <1>3
<1>6. QED
  BY <1>2, <1>3, <1>4, <1>5 DEF Cycle

LEMMA Product == \A i \in Nat : i * CYCLE_TIME \in Nat /\ (i + 1) * CYCLE_TIME = i * CYCLE_TIME + CYCLE_TIME
  BY TimesAssumption

LEMMA CycleIsSmaller ==
  ASSUME NEW n \in Nat
  PROVE  Cycle(n) \in Nat /\ Cycle(n) <= n
<1> DEFINE q == Cycle(n)
<1>1. CYCLE_TIME \in Nat /\ CYCLE_TIME > 0
  BY TimesAssumption
<1>2. q \in Nat /\ n % CYCLE_TIME \in 0 .. CYCLE_TIME - 1 /\ n = q * CYCLE_TIME + (n % CYCLE_TIME)
  BY Division, Zenon
<1> HIDE DEF q
<1>3. q <= q * CYCLE_TIME /\ q * CYCLE_TIME \in Nat
  BY <1>1, <1>2
<1>4. q <= n
  BY <1>1, <1>2, <1>3
<1>5. QED
  BY <1>2, <1>4 DEF q

\* The next multiple of CYCLE_TIME is a cycle away.
LEMMA Multiples ==
  ASSUME NEW i \in Nat, NEW j \in Nat, i * CYCLE_TIME < j * CYCLE_TIME + CYCLE_TIME
  PROVE  i <= j /\ i * CYCLE_TIME <= j * CYCLE_TIME
<1>1. CYCLE_TIME \in Nat /\ CYCLE_TIME > 0
  BY TimesAssumption
<1>2. i <= j
  <2>1. i * CYCLE_TIME < (j + 1) * CYCLE_TIME
    BY <1>1
  <2>2. QED
    BY <1>1, <2>1
<1>3. QED
  BY <1>1, <1>2

\* Two times at the same offset are a cycle apart, or more.
LEMMA Spacing ==
  ASSUME NEW a \in Nat, NEW b \in Nat, a % CYCLE_TIME = b % CYCLE_TIME, a < b
  PROVE  a + CYCLE_TIME <= b
<1>1. CYCLE_TIME \in Nat /\ CYCLE_TIME > 0
  BY TimesAssumption
<1>2. /\ a = Cycle(a) * CYCLE_TIME + (a % CYCLE_TIME) /\ Cycle(a) \in Nat
      /\ b = Cycle(b) * CYCLE_TIME + (b % CYCLE_TIME) /\ Cycle(b) \in Nat
      /\ a % CYCLE_TIME \in Nat
  <2>1. a = Cycle(a) * CYCLE_TIME + (a % CYCLE_TIME) /\ Cycle(a) \in Nat
    BY Division, Zenon
  <2>2. b = Cycle(b) * CYCLE_TIME + (b % CYCLE_TIME) /\ Cycle(b) \in Nat
    BY Division, Zenon
  <2>3. a % CYCLE_TIME \in Nat
    BY <1>1
  <2>4. QED
    BY <2>1, <2>2, <2>3
<1> DEFINE x == Cycle(a) * CYCLE_TIME
           y == Cycle(b) * CYCLE_TIME
           r == a % CYCLE_TIME
<1>3. y < x + CYCLE_TIME => y <= x
  BY <1>2, Multiples
<1>4. x \in Nat /\ y \in Nat
  BY <1>2, Product
<1>5. r \in Nat /\ a = x + r /\ b = y + r
  BY <1>2
<1> HIDE DEF x, y, r
<1>6. QED
  BY <1>1, <1>3, <1>4, <1>5

LEMMA ComputeType ==
  ASSUME NEW k \in Nat
  PROVE  /\ Compute(k) \in Nat /\ Compute(k + 1) = Compute(k) + CYCLE_TIME
         /\ Compute(k) = k * CYCLE_TIME + COMPUTE_OFFSET
  BY TimesAssumption DEF Compute, InCycle

\* So are two compute times.
LEMMA ComputeSpacing ==
  ASSUME NEW j \in Nat, NEW k \in Nat, Compute(j) < Compute(k)
  PROVE  Compute(j) + CYCLE_TIME <= Compute(k)
<1>1. CYCLE_TIME \in Nat /\ COMPUTE_OFFSET \in Nat
  BY TimesAssumption
<1>2. j * CYCLE_TIME \in Nat /\ k * CYCLE_TIME \in Nat
      /\ (j + 1) * CYCLE_TIME = j * CYCLE_TIME + CYCLE_TIME
  BY Product
<1>3. j * CYCLE_TIME < k * CYCLE_TIME
  BY <1>1, <1>2 DEF Compute, InCycle
<1>4. k * CYCLE_TIME < j * CYCLE_TIME + CYCLE_TIME => k * CYCLE_TIME <= j * CYCLE_TIME
  BY Multiples
<1>5. QED
  BY <1>1, <1>2, <1>3, <1>4 DEF Compute, InCycle

\* A packet that is sent late in its cycle, and not before a compute time, has the
\* next compute time at a cycle's distance from it.
LEMMA LateIsNext ==
  ASSUME NEW k \in Nat, NEW tx \in Nat, COMPUTE_OFFSET <= tx % CYCLE_TIME, Compute(k) <= tx
  PROVE  Compute(k) + (tx % CYCLE_TIME) <= tx + COMPUTE_OFFSET
<1>1. CYCLE_TIME \in Nat /\ CYCLE_TIME > 0 /\ COMPUTE_OFFSET \in Nat
  BY TimesAssumption
<1>2. /\ tx = Cycle(tx) * CYCLE_TIME + (tx % CYCLE_TIME) /\ Cycle(tx) \in Nat
      /\ tx % CYCLE_TIME \in Nat /\ tx % CYCLE_TIME < CYCLE_TIME
  BY Division, <1>1
<1>3. (Cycle(tx) + 1) * CYCLE_TIME = Cycle(tx) * CYCLE_TIME + CYCLE_TIME
      /\ k * CYCLE_TIME \in Nat /\ Cycle(tx) * CYCLE_TIME \in Nat
  BY <1>1, <1>2
<1>4. k * CYCLE_TIME < Cycle(tx) * CYCLE_TIME + CYCLE_TIME
  BY <1>1, <1>2, <1>3 DEF Compute, InCycle
<1>5. k * CYCLE_TIME <= Cycle(tx) * CYCLE_TIME
  BY <1>2, <1>4, Multiples
<1>6. QED
  BY <1>1, <1>2, <1>3, <1>5 DEF Compute, InCycle

\* The compute times of a packet.
LEMMA ComputeTimesType ==
  ASSUME NEW tx \in Nat, now \in Nat, tx < now, NEW next \in ComputeTimes(tx)
  PROVE  /\ \E k \in Nat : next = Compute(k)
         /\ next \in 0 .. now + CYCLE_TIME
         /\ \/ now <= next
            \/ /\ COMPUTE_OFFSET <= tx % CYCLE_TIME
               /\ next + (tx % CYCLE_TIME) = tx + COMPUTE_OFFSET + CYCLE_TIME
<1>1. CYCLE_TIME \in Nat /\ CYCLE_TIME > 0 /\ COMPUTE_OFFSET \in Nat
      /\ COMPUTE_OFFSET < CYCLE_TIME
  BY TimesAssumption
<1>2. /\ tx = Cycle(tx) * CYCLE_TIME + (tx % CYCLE_TIME) /\ Cycle(tx) \in Nat
      /\ tx % CYCLE_TIME \in Nat /\ tx % CYCLE_TIME < CYCLE_TIME
  BY Division, <1>1
<1> DEFINE this == InCycle(Cycle(tx), COMPUTE_OFFSET)
<1>3. this = Compute(Cycle(tx)) /\ this + CYCLE_TIME = Compute(Cycle(tx) + 1) /\ this \in Nat
  BY <1>2, ComputeType DEF Compute
<1>4. this + (tx % CYCLE_TIME) = tx + COMPUTE_OFFSET
  <2>1. Cycle(tx) * CYCLE_TIME \in Nat
    BY <1>1, <1>2
  <2>2. QED
    BY <1>1, <1>2, <1>3, <2>1 DEF Compute, InCycle
<1>5. \/ next = this /\ this >= now
      \/ next = this + CYCLE_TIME /\ COMPUTE_OFFSET <= tx % CYCLE_TIME /\ ~(this >= now)
  BY DEF ComputeTimes
<1> HIDE DEF this
<1>6. Cycle(tx) + 1 \in Nat
  BY <1>2
<1>7. QED
  BY <1>1, <1>2, <1>3, <1>4, <1>5, <1>6

-----------------------------------------------------------------------------
(***************************************************************************)
(* Streams                                                                 *)
(***************************************************************************)
LEMMA OffsetType == \A s \in Streams : SendOffset[s] \in Nat /\ SendOffset[s] < CYCLE_TIME
  BY TimesAssumption

\* A packet is lost, or dropped.
LEMMA StreamTail ==
  ASSUME NEW q \in Seq(Nat), NEW ts, NEW id, NEW t, NEW offset,
         Stream(q, ts, id, t, offset), q # <<>>
  PROVE  Stream(Tail(q), ts, id, t, offset) /\ Tail(q) \in Seq(Nat) /\ Head(q) \in Nat
<1>1. /\ Tail(q) \in Seq(Nat) /\ Head(q) = q[1] /\ 1 \in DOMAIN q
      /\ \A i \in DOMAIN Tail(q) : i \in Nat /\ i + 1 \in DOMAIN q /\ Tail(q)[i] = q[i + 1]
  BY HeadTailProperties, LenProperties
<1>2. ASSUME NEW i \in DOMAIN Tail(q), NEW j \in DOMAIN Tail(q), i < j
      PROVE  Tail(q)[i] + CYCLE_TIME <= Tail(q)[j]
  BY <1>1, <1>2 DEF Stream
<1>3. QED
  BY <1>1, <1>2 DEF Stream

\* A packet is taken.
LEMMA StreamTaken ==
  ASSUME NEW q \in Seq(Nat), NEW ts, NEW id, NEW t \in Nat, NEW offset,
         Stream(q, ts, id, t, offset), q # <<>>
  PROVE  /\ Stream(Tail(q), Head(q), Cycle(Head(q)), t, offset)
         /\ Head(q) < t /\ Head(q) % CYCLE_TIME = offset
<1>1. /\ Tail(q) \in Seq(Nat) /\ Head(q) = q[1] /\ 1 \in DOMAIN q /\ q[1] \in Nat
      /\ \A i \in DOMAIN Tail(q) : i \in Nat /\ 1 < i + 1 /\ i + 1 \in DOMAIN q
                                   /\ Tail(q)[i] = q[i + 1]
  BY HeadTailProperties, LenProperties
<1>2. Stream(Tail(q), ts, id, t, offset)
  BY StreamTail
<1>3. ASSUME NEW i \in DOMAIN Tail(q)
      PROVE  Head(q) + CYCLE_TIME <= Tail(q)[i]
  BY <1>1 DEF Stream
<1>4. QED
  BY <1>1, <1>2, <1>3 DEF Stream

\* Time passes, and a packet may be sent.
LEMMA StreamTick ==
  ASSUME NEW q \in Seq(Nat), NEW ts \in Nat, NEW id, NEW t \in Nat, NEW offset,
         Stream(q, ts, id, t, offset), CYCLE_TIME <= t
  PROVE  /\ Stream(q, ts, id, t + 1, offset)
         /\ t % CYCLE_TIME = offset => Stream(Append(q, t), ts, id, t + 1, offset)
<1>1. \A i \in DOMAIN q : q[i] \in Nat
  BY ElementOfSeq
<1>2. Stream(q, ts, id, t + 1, offset)
  BY <1>1 DEF Stream
<1>3. ASSUME t % CYCLE_TIME = offset
      PROVE  Stream(Append(q, t), ts, id, t + 1, offset)
  <2> DEFINE r == Append(q, t)
  <2>1. /\ \A i \in DOMAIN r : /\ i \in Nat
                               /\ \/ i \in DOMAIN q /\ r[i] = q[i]
                                  \/ i = Len(q) + 1 /\ r[i] = t
        /\ \A i \in DOMAIN q : i \in Nat /\ i < Len(q) + 1
        /\ Len(q) \in Nat
    <3>1. DOMAIN q = 1 .. Len(q) /\ Len(q) \in Nat
      BY LenProperties
    <3>2. DOMAIN r = 1 .. Len(q) + 1 /\ r[Len(q) + 1] = t /\ \A i \in 1 .. Len(q) : r[i] = q[i]
      BY AppendProperties, LenProperties
    <3> HIDE DEF r
    <3>3. QED
      BY <3>1, <3>2
  <2>2. \A i \in DOMAIN q : q[i] + CYCLE_TIME <= t
    BY <1>1, <1>3, Spacing DEF Stream
  <2>3. ts + CYCLE_TIME <= t
    <3>1. CASE ts = 0
      BY <3>1, TimesAssumption
    <3>2. CASE ts % CYCLE_TIME = offset /\ ts < t
      BY <3>2, <1>3, Spacing
    <3>3. QED
      BY <3>1, <3>2 DEF Stream
  <2> HIDE DEF r
  <2>4. ASSUME NEW i \in DOMAIN r
        PROVE  /\ r[i] % CYCLE_TIME = offset
               /\ CYCLE_TIME <= r[i] /\ r[i] < t + 1 /\ ts + CYCLE_TIME <= r[i]
    BY <2>1, <2>3, <1>1, <1>3 DEF Stream
  <2>5. ASSUME NEW i \in DOMAIN r, NEW j \in DOMAIN r, i < j
        PROVE  r[i] + CYCLE_TIME <= r[j]
    <3>1. i \in DOMAIN q /\ r[i] = q[i]
      BY <2>1, <2>5
    <3>2. CASE j \in DOMAIN q /\ r[j] = q[j]
      BY <2>5, <3>1, <3>2 DEF Stream
    <3>3. CASE r[j] = t
      BY <2>2, <3>1, <3>3
    <3>4. QED
      BY <2>1, <3>2, <3>3
  <2>6. ts = 0 \/ (CYCLE_TIME <= ts /\ ts % CYCLE_TIME = offset /\ ts < t + 1 /\ id = Cycle(ts))
    BY DEF Stream
  <2>7. QED
    BY <2>4, <2>5, <2>6 DEF Stream, r
<1>4. QED
  BY <1>2, <1>3

-----------------------------------------------------------------------------
(***************************************************************************)
(* Types                                                                   *)
(***************************************************************************)
LEMMA MinIsMember ==
  ASSUME NEW S \in SUBSET Nat, S # {}
  PROVE  Min(S) \in S /\ \A y \in S : Min(S) <= y
<1>1. PICK x \in S : \A y \in S : ~(<<y, x>> \in OpToRel(<, Nat))
  BY NatLessThanWellFounded, WFMin
<1>2. ASSUME NEW y \in S
      PROVE  x <= y
  <2>1. x \in Nat /\ y \in Nat /\ <<y, x>> \in Nat \X Nat
    OBVIOUS
  <2>2. y < x => <<y, x>> \in OpToRel(<, Nat)
    BY <2>1 DEF OpToRel
  <2>3. ~(y < x)
    BY <1>1, <2>2, Zenon
  <2>4. QED
    BY <2>1, <2>3
<1>3. QED
  BY <1>2 DEF Min

LEMMA MaxIsMember ==
  ASSUME NEW S \in SUBSET Nat, S # {}, NEW b \in Nat, \A x \in S : x <= b
  PROVE  Max(S) \in S /\ \A y \in S : y <= Max(S)
<1> DEFINE T == {n \in Nat : n <= b /\ b - n \in S}
<1>1. \A x \in S : x \in Nat /\ x <= b /\ b - x \in T /\ b - (b - x) = x
  OBVIOUS
<1>2. T \in SUBSET Nat /\ T # {}
  BY <1>1
<1>3. Min(T) \in T /\ \A y \in T : Min(T) <= y
  BY <1>2, MinIsMember
<1>4. Min(T) \in Nat /\ b - Min(T) \in S
  BY <1>3
<1>5. \E x \in S : \A y \in S : x >= y
  <2> DEFINE m == Min(T)
  <2>1. m \in Nat /\ b - m \in S /\ \A y \in T : m <= y
    BY <1>3, <1>4
  <2> HIDE DEF m
  <2>2. ASSUME NEW y \in S
        PROVE  b - m >= y
    <3>1. y \in Nat /\ y <= b /\ b - y \in T
      BY <1>1
    <3>2. m <= b - y
      BY <2>1, <3>1
    <3>3. QED
      BY <2>1, <3>1, <3>2
  <2>3. QED
    BY <2>1, <2>2
<1>6. Max(S) \in S /\ \A y \in S : Max(S) >= y
  BY <1>5, Zenon DEF Max
<1>7. QED
  BY <1>6

\* The id and the timestamp of an output are those of inputs.
LEMMA OutputOfInputs ==
  ASSUME TInv
  PROVE  LET timestamps == {input_timestamp[s] : s \in Streams}
             ids == {input_pkt_id[s] : s \in Streams}
         IN /\ Min(timestamps) \in timestamps /\ Min(timestamps) \in Nat
            /\ Max(ids) \in ids /\ Max(ids) \in Nat /\ \A y \in ids : y <= Max(ids)
<1> DEFINE timestamps == {input_timestamp[s] : s \in Streams}
           ids == {input_pkt_id[s] : s \in Streams}
<1>1. /\ timestamps \in SUBSET Nat /\ timestamps # {} /\ ids \in SUBSET Nat /\ ids # {}
      /\ now + JunkId \in Nat /\ \A x \in ids : x <= now + JunkId
  BY StreamsAssumption, BoundsAssumption DEF TInv, TypeOK, Bounded, JunkId
<1> HIDE DEF timestamps, ids
<1>2. Min(timestamps) \in timestamps
  BY <1>1, MinIsMember
<1>3. Max(ids) \in ids /\ \A y \in ids : y <= Max(ids)
  BY <1>1, MaxIsMember
<1>4. QED
  BY <1>1, <1>2, <1>3 DEF timestamps, ids

LEMMA TInit == Init => TInv
<1> SUFFICES ASSUME Init
             PROVE  TInv
  OBVIOUS
<1>1. /\ CYCLE_TIME \in Nat /\ COMPUTE_OFFSET \in Nat /\ JunkId \in Nat
      /\ COMPUTE_OFFSET < CYCLE_TIME
  BY TimesAssumption, BoundsAssumption DEF JunkId
<1>2. TypeOK
  <2>1. /\ now \in Nat /\ inFlight \in [Streams -> Seq(Nat)]
        /\ input_timestamp \in [Streams -> 0 .. now] /\ input_pkt_id \in [Streams -> Nat]
        /\ next_compute_ts \in 0 .. now + CYCLE_TIME /\ scanEnd \in Nat
    BY <1>1 DEF Init
  <2>2. output \in [number : Nat, ts : Nat, id : Nat] /\ lost \in Nat /\ scans \in Nat
    BY DEF Init
  <2>3. QED
    BY <2>1, <2>2 DEF Init, TypeOK, None
<1>3. Packets
  BY <1>1 DEF Init, Packets, Stream
<1>4. Bounded /\ Locked
  BY <1>1 DEF Init, Bounded, Locked
<1>5. QED
  BY <1>2, <1>3, <1>4 DEF TInv

LEMMA TTick ==
  ASSUME TInv, Tick
  PROVE  TInv'
<1>1. /\ now \in Nat /\ now' = now + 1 /\ CYCLE_TIME \in Nat /\ JunkId \in Nat
      /\ CYCLE_TIME <= now
  BY TimesAssumption, BoundsAssumption DEF TInv, TypeOK, Tick, JunkId, Packets
<1>2. UNCHANGED <<inputs, mainVars, bufferLock, dnpVars, output, lost, scans>>
  BY DEF Tick
<1>3. ASSUME NEW s \in Streams
      PROVE  /\ Stream(inFlight'[s], input_timestamp[s], input_pkt_id[s], now + 1, SendOffset[s])
             /\ inFlight'[s] \in Seq(Nat)
  <2>1. /\ inFlight[s] \in Seq(Nat) /\ input_timestamp[s] \in Nat
        /\ Stream(inFlight[s], input_timestamp[s], input_pkt_id[s], now, SendOffset[s])
    BY <1>1 DEF TInv, TypeOK, Packets
  <2>2. inFlight'[s] = IF now % CYCLE_TIME = SendOffset[s] THEN Append(inFlight[s], now)
                                                           ELSE inFlight[s]
    BY DEF Tick
  <2>3. Append(inFlight[s], now) \in Seq(Nat)
    BY <1>1, <2>1
  <2>4. QED
    BY <1>1, <2>1, <2>2, <2>3, StreamTick
<1>4. inFlight' \in [Streams -> Seq(Nat)]
  BY <1>3 DEF Tick
<1>5. TypeOK'
  <2>1. /\ now' \in Nat /\ input_timestamp' \in [Streams -> 0 .. now']
        /\ next_compute_ts' \in 0 .. now' + CYCLE_TIME
    BY <1>1, <1>2 DEF TInv, TypeOK, inputs
  <2>2. QED
    BY <1>2, <1>4, <2>1 DEF TInv, TypeOK, inputs, mainVars, dnpVars
<1>6. Packets'
  BY <1>1, <1>2, <1>3 DEF Packets, inputs
<1>7. Bounded'
  <2>1. \A s \in Streams : input_pkt_id[s] \in Nat
    BY DEF TInv, TypeOK
  <2>2. QED
    BY <1>1, <1>2, <2>1 DEF TInv, Bounded, inputs, JunkId
<1>8. Locked'
  BY <1>2 DEF TInv, Locked, mainVars
<1>9. QED
  BY <1>5, <1>6, <1>7, <1>8 DEF TInv

LEMMA TLose ==
  ASSUME TInv, NEW s \in Streams, Lose(s)
  PROVE  TInv'
<1>1. /\ UNCHANGED <<now, inputs, mainVars, bufferLock, dnpVars, output, scans>>
      /\ inFlight' = [inFlight EXCEPT ![s] = Tail(@)] /\ inFlight[s] # <<>>
      /\ lost' = lost + 1
  BY DEF Lose
<1>2. \A t \in Streams :
        /\ Stream(inFlight'[t], input_timestamp[t], input_pkt_id[t], now, SendOffset[t])
        /\ inFlight'[t] \in Seq(Nat)
  BY <1>1, StreamTail DEF TInv, TypeOK, Packets
<1>3. TypeOK'
  <2>1. inFlight' \in [Streams -> Seq(Nat)]
    BY <1>1, <1>2 DEF TInv, TypeOK
  <2>2. QED
    BY <1>1, <2>1 DEF TInv, TypeOK, inputs, mainVars, dnpVars
<1>4. Packets' /\ Bounded' /\ Locked'
  BY <1>1, <1>2 DEF TInv, Packets, Bounded, Locked, inputs, mainVars
<1>5. QED
  BY <1>3, <1>4 DEF TInv

LEMMA TReceive ==
  ASSUME TInv, NEW s \in Streams, Receive(s)
  PROVE  TInv'
<1> DEFINE tx == Head(inFlight[s])
<1>1. /\ UNCHANGED <<now, scanEnd, bufferLock, dnpVars, output, lost, scans>>
      /\ inFlight' = [inFlight EXCEPT ![s] = Tail(@)] /\ inFlight[s] # <<>> /\ pc = "receive"
      /\ \/ UNCHANGED <<inputs, pc>>
         \/ \E next \in ComputeTimes(tx) :
              /\ next_compute_ts' = next
              /\ input_timestamp' = [input_timestamp EXCEPT ![s] = tx]
              /\ input_pkt_id' = [input_pkt_id EXCEPT ![s] = Cycle(tx)]
              /\ pc' = IF Complete(input_timestamp', next) THEN "wait" ELSE pc
  BY DEF Receive
<1>2. /\ inFlight \in [Streams -> Seq(Nat)] /\ now \in Nat /\ JunkId \in Nat
      /\ \A t \in Streams : Stream(inFlight[t], input_timestamp[t], input_pkt_id[t], now, SendOffset[t])
  BY BoundsAssumption DEF TInv, TypeOK, Packets, JunkId
<1>3. /\ tx \in Nat /\ tx < now
      /\ Stream(Tail(inFlight[s]), tx, Cycle(tx), now, SendOffset[s])
      /\ Stream(Tail(inFlight[s]), input_timestamp[s], input_pkt_id[s], now, SendOffset[s])
      /\ Tail(inFlight[s]) \in Seq(Nat)
  BY <1>1, <1>2, StreamTail, StreamTaken
<1> HIDE DEF tx
<1>4. inFlight' \in [Streams -> Seq(Nat)]
  BY <1>1, <1>2, <1>3
<1>5. CASE UNCHANGED <<inputs, pc>>
  <2>1. TypeOK'
    BY <1>1, <1>4, <1>5 DEF TInv, TypeOK, inputs, dnpVars
  <2>2. Packets' /\ Bounded' /\ Locked'
    BY <1>1, <1>2, <1>3, <1>5 DEF TInv, Packets, Bounded, Locked, inputs
  <2>3. QED
    BY <2>1, <2>2 DEF TInv
<1>6. CASE \E next \in ComputeTimes(tx) :
              /\ next_compute_ts' = next
              /\ input_timestamp' = [input_timestamp EXCEPT ![s] = tx]
              /\ input_pkt_id' = [input_pkt_id EXCEPT ![s] = Cycle(tx)]
              /\ pc' = IF Complete(input_timestamp', next) THEN "wait" ELSE pc
  <2>1. PICK next \in ComputeTimes(tx) :
              /\ next_compute_ts' = next
              /\ input_timestamp' = [input_timestamp EXCEPT ![s] = tx]
              /\ input_pkt_id' = [input_pkt_id EXCEPT ![s] = Cycle(tx)]
              /\ pc' = IF Complete(input_timestamp', next) THEN "wait" ELSE pc
    BY <1>6
  <2>2. next \in 0 .. now + CYCLE_TIME
    BY <1>2, <1>3, ComputeTimesType
  <2>3. Cycle(tx) \in Nat /\ Cycle(tx) <= tx
    BY <1>3, CycleIsSmaller
  <2>4. pc' \in {"receive", "wait"}
    BY <1>1, <2>1
  <2>5. TypeOK'
    <3>1. /\ input_timestamp' \in [Streams -> 0 .. now'] /\ input_pkt_id' \in [Streams -> Nat]
          /\ next_compute_ts' \in 0 .. now' + CYCLE_TIME
      BY <1>1, <1>3, <2>1, <2>2, <2>3 DEF TInv, TypeOK
    <3>2. QED
      BY <1>1, <1>4, <2>4, <3>1 DEF TInv, TypeOK, dnpVars
  <2>6. Packets'
    <3>1. input_timestamp \in [Streams -> 0 .. now] /\ input_pkt_id \in [Streams -> Nat]
      BY DEF TInv, TypeOK
    <3>2. /\ inFlight'[s] = Tail(inFlight[s])
          /\ input_timestamp'[s] = tx /\ input_pkt_id'[s] = Cycle(tx)
      BY <1>1, <1>2, <2>1, <3>1
    <3>3. ASSUME NEW t \in Streams, t # s
          PROVE  /\ inFlight'[t] = inFlight[t]
                 /\ input_timestamp'[t] = input_timestamp[t] /\ input_pkt_id'[t] = input_pkt_id[t]
      BY <1>1, <1>2, <2>1, <3>1, <3>3
    <3>4. ASSUME NEW t \in Streams
          PROVE  Stream(inFlight'[t], input_timestamp'[t], input_pkt_id'[t], now, SendOffset[t])
      BY <1>2, <1>3, <3>2, <3>3
    <3>5. CYCLE_TIME <= now
      BY DEF TInv, Packets
    <3>6. QED
      BY <1>1, <3>4, <3>5 DEF Packets
  <2>7. Bounded'
    <3>1. input_pkt_id \in [Streams -> Nat] /\ now' = now
      BY <1>1 DEF TInv, TypeOK
    <3>2. ASSUME NEW t \in Streams PROVE input_pkt_id'[t] <= now + JunkId
      <4>1. CASE t = s
        <5>1. input_pkt_id'[t] = Cycle(tx)
          BY <2>1, <3>1, <4>1
        <5>2. QED
          BY <1>2, <1>3, <2>3, <5>1
      <4>2. CASE t # s
        BY <2>1, <3>1, <4>2 DEF TInv, Bounded
      <4>3. QED
        BY <4>1, <4>2
    <3>3. QED
      BY <3>1, <3>2 DEF Bounded, JunkId
  <2>8. Locked'
    BY <1>1, <2>4 DEF TInv, TypeOK, Locked
  <2>9. QED
    BY <2>5, <2>6, <2>7, <2>8 DEF TInv
<1>7. QED
  BY <1>1, <1>5, <1>6

LEMMA TMain ==
  ASSUME TInv, InputLock \/ StartScan \/ RunProgram \/ OutputLock \/ (\E on \in BOOLEAN : EndScan(on))
  PROVE  TInv'
<1>1. ScanTime \in Nat
  BY TimesAssumption
<1>2. /\ UNCHANGED <<now, inFlight, inputs, dnpVars, lost>>
      /\ scanEnd' = scanEnd \/ scanEnd' = now + ScanTime
      /\ scans' = scans \/ scans' = scans + 1
  BY DEF InputLock, StartScan, RunProgram, OutputLock, EndScan
<1>3. /\ pc' \in {"input", "receive", "wait", "program", "output", "send"}
      /\ bufferLock' \in {"free", "main"}
      /\ bufferLock' = "main" <=> pc' \in {"receive", "wait", "send"}
  BY DEF InputLock, StartScan, RunProgram, OutputLock, EndScan, TInv, TypeOK
<1>4. output' \in [number : Nat, ts : Nat, id : Nat]
  <2>1. CASE output' = output
    BY <2>1 DEF TInv, TypeOK
  <2>2. CASE output' = [number |-> output.number + 1,
                        ts |-> Min({input_timestamp[s] : s \in Streams}),
                        id |-> Max({input_pkt_id[s] : s \in Streams})]
    <3>1. output.number + 1 \in Nat
      BY DEF TInv, TypeOK
    <3>2. QED
      BY <2>2, <3>1, OutputOfInputs
  <2>3. QED
    BY <2>1, <2>2 DEF InputLock, StartScan, RunProgram, OutputLock, EndScan
<1>5. TypeOK'
  BY <1>1, <1>2, <1>3, <1>4 DEF TInv, TypeOK, inputs, dnpVars
<1>6. Packets' /\ Bounded'
  BY <1>2 DEF TInv, Packets, Bounded, inputs
<1>7. Locked'
  BY <1>3 DEF Locked
<1>8. QED
  BY <1>5, <1>6, <1>7 DEF TInv

LEMMA TOutstation ==
  ASSUME TInv, Outstation
  PROVE  TInv'
<1>1. UNCHANGED <<now, inFlight, inputs, mainVars, output, lost, scans>>
  BY DEF Outstation, Request, OperateRefused, OperateLock, OperateReturns
<1>2. /\ operate' \in Commands \union {None} /\ operates' \in Nat /\ outOfRange' \in BOOLEAN
      /\ bufferLock' \in {"free", "main", "dnp3", "lost"}
      /\ bufferLock' = "main" <=> pc \in {"receive", "wait", "send"}
      /\ bufferLock' = "lost" => pc \in {"input", "program", "output"}
  <2>1. CASE \E c \in Commands : Request(c)
    BY <2>1 DEF Request, TInv, TypeOK, Locked
  <2>2. CASE OperateRefused
    BY <2>2 DEF OperateRefused, TInv, TypeOK, Locked
  <2>3. CASE OperateLock
    BY <2>3 DEF OperateLock, dnpVars, TInv, TypeOK, Locked
  <2>4. CASE OperateReturns
    BY <2>4 DEF OperateReturns, TInv, TypeOK, Locked
  <2>5. QED
    BY <2>1, <2>2, <2>3, <2>4 DEF Outstation
<1>3. TypeOK'
  BY <1>1, <1>2 DEF TInv, TypeOK, inputs, mainVars
<1>4. Packets' /\ Bounded' /\ Locked'
  BY <1>1, <1>2 DEF TInv, Packets, Bounded, Locked, inputs, mainVars
<1>5. QED
  BY <1>3, <1>4 DEF TInv

LEMMA TStep == TInv /\ [Next]_vars => TInv'
<1> SUFFICES ASSUME TInv, [Next]_vars
             PROVE  TInv'
  OBVIOUS
<1>1. CASE Tick
  BY <1>1, TTick
<1>2. ASSUME NEW s \in Streams, Lose(s)
      PROVE  TInv'
  BY <1>2, TLose
<1>3. CASE Main
  BY <1>3, TReceive, TMain DEF Main
<1>4. CASE Outstation
  BY <1>4, TOutstation
<1>5. CASE UNCHANGED vars
  BY <1>5 DEF TInv, TypeOK, Packets, Bounded, Locked, vars, inputs, mainVars, dnpVars
<1>6. QED
  BY <1>1, <1>2, <1>3, <1>4, <1>5 DEF Next

\* Every variable keeps its type: no timestamp of an input is from the future, and no
\* scan is planned for more than a cycle ahead (updateBuffersIn).
THEOREM TypeCorrect == Spec => []TypeOK
<1>1. TInv => TypeOK
  BY DEF TInv
<1>2. QED
  BY TInit, TStep, <1>1, PTL DEF Spec

-----------------------------------------------------------------------------
(***************************************************************************)
(* Devices and scans in time                                               *)
(***************************************************************************)
LEMMA Times ==
  /\ CYCLE_TIME \in Nat /\ CYCLE_TIME > 0 /\ COMPUTE_OFFSET \in Nat
  /\ COMPUTE_OFFSET < CYCLE_TIME /\ MaxDelay \in Nat /\ ScanTime \in Nat
  /\ \A s \in Streams : SendOffset[s] \in Nat /\ SendOffset[s] < CYCLE_TIME
  BY TimesAssumption

LEMMA InFlightType ==
  ASSUME TInv, NEW s \in Streams, NEW i \in DOMAIN inFlight[s]
  PROVE  /\ inFlight[s] \in Seq(Nat) /\ inFlight[s][i] \in Nat /\ inFlight[s][i] < now
         /\ inFlight[s][i] % CYCLE_TIME = SendOffset[s]
         /\ input_timestamp[s] + CYCLE_TIME <= inFlight[s][i]
<1>1. inFlight[s] \in Seq(Nat)
  BY DEF TInv, TypeOK
<1>2. inFlight[s][i] \in Nat
  BY <1>1, ElementOfSeq
<1>3. QED
  BY <1>1, <1>2 DEF TInv, Packets, Stream

LEMMA HeadIsFirst ==
  ASSUME TInv, NEW s \in Streams, NEW i \in DOMAIN inFlight[s]
  PROVE  /\ inFlight[s] # <<>> /\ Head(inFlight[s]) \in Nat
         /\ Head(inFlight[s]) <= inFlight[s][i]
<1> DEFINE q == inFlight[s]
<1>1. q \in Seq(Nat) /\ \A j \in DOMAIN q : q[j] \in Nat
  BY InFlightType
<1>2. \A j, k \in DOMAIN q : j < k => q[j] + CYCLE_TIME <= q[k]
  BY DEF TInv, Packets, Stream
<1>3. i \in DOMAIN q
  OBVIOUS
<1> HIDE DEF q
<1>4. q # <<>> /\ Head(q) = q[1] /\ 1 \in DOMAIN q /\ (i = 1 \/ 1 < i)
  BY <1>1, <1>3, HeadTailProperties, LenProperties
<1>5. Head(q) \in Nat /\ q[i] \in Nat /\ (i = 1 \/ Head(q) + CYCLE_TIME <= q[i])
  BY <1>1, <1>2, <1>3, <1>4
<1>6. Head(q) <= q[i]
  BY <1>4, <1>5, Times
<1>7. QED
  BY <1>4, <1>5, <1>6 DEF q

\* While a scan is prepared or runs, all packets on their way are for later ones.
LEMMA LaterPackets ==
  ASSUME IInv, pc \in {"wait", "program", "output", "send"},
         NEW s \in Streams, NEW i \in DOMAIN inFlight[s]
  PROVE  next_compute_ts <= inFlight[s][i]
<1>1. /\ next_compute_ts \in Nat /\ input_timestamp[s] \in Nat
      /\ next_compute_ts <= input_timestamp[s] + CYCLE_TIME
  BY DEF IInv, TInv, TypeOK, Scanning
<1>2. QED
  BY <1>1, Times, InFlightType DEF IInv

LEMMA SentEarlier ==
  ASSUME TInv, NEW a \in Int, NEW b \in Int, a <= b, SentBefore(a)
  PROVE  SentBefore(b)
<1>1. output.ts \in Nat /\ output.id \in Nat
  BY DEF TInv, TypeOK
<1>2. \A s \in Streams : InCycle(output.id, SendOffset[s]) \in Nat
  BY <1>1, Times DEF InCycle
<1>3. QED
  BY <1>1, <1>2 DEF SentBefore

\* A stream's timestamp says which packet was taken.
LEMMA IdOfTimestamp ==
  ASSUME TInv, NEW s \in Streams, input_timestamp[s] # 0
  PROVE  InCycle(input_pkt_id[s], SendOffset[s]) = input_timestamp[s] /\ 0 < input_pkt_id[s]
<1> DEFINE ts == input_timestamp[s]
           id == input_pkt_id[s]
<1>1. ts \in Nat /\ CYCLE_TIME <= ts /\ ts % CYCLE_TIME = SendOffset[s] /\ id = Cycle(ts)
  BY DEF TInv, TypeOK, Packets, Stream
<1> HIDE DEF ts, id
<1>2. ts = id * CYCLE_TIME + SendOffset[s] /\ id \in Nat
  BY <1>1, Division
<1>3. id # 0
  BY <1>1, <1>2, Times
<1>4. InCycle(id, SendOffset[s]) = ts /\ 0 < id
  BY <1>2, <1>3 DEF InCycle
<1>5. QED
  BY <1>4 DEF ts, id

LEMMA FInit == Init => Fresh /\ Between /\ Scanning
<1> SUFFICES ASSUME Init
             PROVE  Fresh /\ Between /\ Scanning
  OBVIOUS
<1>1. \A s \in Streams : DOMAIN inFlight[s] = {}
  BY DEF Init
<1>2. Fresh /\ Scanning
  BY <1>1 DEF Init, Fresh, Scanning
<1>3. Between
  <2>1. PICK k \in Nat : Compute(k) <= now /\ 0 < Compute(k)
    <3>1. Compute(0) = COMPUTE_OFFSET /\ Compute(1) = CYCLE_TIME + COMPUTE_OFFSET /\ now = CYCLE_TIME
      BY Times DEF Compute, InCycle, Init
    <3>2. CASE COMPUTE_OFFSET = 0
      BY <3>1, <3>2, Times
    <3>3. CASE COMPUTE_OFFSET # 0
      BY <3>1, <3>3, Times
    <3>4. QED
      BY <3>2, <3>3
  <2>2. SentBefore(Compute(k))
    BY <2>1 DEF Init, SentBefore
  <2>3. QED
    BY <1>1, <2>1, <2>2 DEF Between
<1>4. QED
  BY <1>2, <1>3

LEMMA FTick ==
  ASSUME Punctual, IInv, Tick
  PROVE  Fresh' /\ Between' /\ Scanning'
<1>1. /\ now \in Nat /\ now' = now + 1 /\ ~Due /\ next_compute_ts \in Nat /\ scanEnd \in Nat
      /\ UNCHANGED <<inputs, mainVars, bufferLock, dnpVars, output, lost, scans>>
      /\ \A s \in Streams : inFlight'[s] = IF now % CYCLE_TIME = SendOffset[s]
                                           THEN Append(inFlight[s], now) ELSE inFlight[s]
  BY DEF Tick, IInv, TInv, TypeOK
<1>2. bufferLock # "lost" => pc \in {"receive", "wait", "send"}
  BY <1>1 DEF Due, IInv, TInv, TypeOK
<1>3. ASSUME NEW s \in Streams, NEW i \in DOMAIN inFlight'[s]
      PROVE  \/ i \in DOMAIN inFlight[s] /\ inFlight'[s][i] = inFlight[s][i]
             \/ inFlight'[s][i] = now
  <2>1. inFlight[s] \in Seq(Nat)
    BY DEF IInv, TInv, TypeOK
  <2>2. CASE inFlight'[s] = Append(inFlight[s], now)
    <3> DEFINE q == inFlight[s]
    <3>1. /\ DOMAIN Append(q, now) = 1 .. Len(q) + 1 /\ DOMAIN q = 1 .. Len(q) /\ Len(q) \in Nat
          /\ Append(q, now)[Len(q) + 1] = now
          /\ \A j \in 1 .. Len(q) : Append(q, now)[j] = q[j]
      BY <1>1, <2>1, AppendProperties, LenProperties
    <3> HIDE DEF q
    <3>2. inFlight'[s] = Append(q, now) /\ i \in 1 .. Len(q) + 1
      BY <1>3, <2>2, <3>1 DEF q
    <3>3. (i \in DOMAIN q /\ inFlight'[s][i] = q[i]) \/ inFlight'[s][i] = now
      BY <3>1, <3>2
    <3>4. QED
      BY <3>3 DEF q
  <2>3. QED
    BY <1>1, <1>3, <2>2
<1>4. ASSUME bufferLock # "lost", NEW s \in Streams, COMPUTE_OFFSET <= SendOffset[s],
             NEW i \in DOMAIN inFlight'[s]
      PROVE  now + 1 + SendOffset[s] <= inFlight'[s][i] + COMPUTE_OFFSET + CYCLE_TIME
  <2>1. CASE inFlight'[s][i] = now
    BY <1>1, <2>1, Times
  <2>2. CASE i \in DOMAIN inFlight[s] /\ inFlight'[s][i] = inFlight[s][i]
    <3> DEFINE tx == inFlight[s][i]
    <3>1. tx \in Nat /\ tx % CYCLE_TIME = SendOffset[s]
      BY <2>2, InFlightType DEF IInv
    <3>2. CASE pc = "receive"
      <4> DEFINE first == Head(inFlight[s])
      <4>1. inFlight[s] # <<>> /\ first \in Nat /\ first <= tx
        BY <2>2, HeadIsFirst DEF IInv
      <4>2. now < first + MaxDelay
        BY <1>1, <3>2, <4>1, Times DEF Due
      <4>3. SendOffset[s] + MaxDelay <= COMPUTE_OFFSET + CYCLE_TIME
        BY <1>4 DEF Punctual
      <4> HIDE DEF tx, first
      <4>4. now + 1 + SendOffset[s] <= tx + COMPUTE_OFFSET + CYCLE_TIME
        BY <1>1, <3>1, <4>1, <4>2, <4>3, Times
      <4>5. QED
        BY <2>2, <4>4 DEF tx
    <3>3. CASE pc \in {"wait", "send"}
      <4>1. PICK k \in Nat : next_compute_ts = Compute(k)
        BY <3>3 DEF IInv, Scanning
      <4>2. next_compute_ts + SendOffset[s] <= tx + COMPUTE_OFFSET
        <5>1. next_compute_ts <= tx
          BY <2>2, <3>3, LaterPackets
        <5>2. QED
          BY <1>4, <3>1, <4>1, <5>1, LateIsNext
      <4>3. now + 1 <= next_compute_ts + CYCLE_TIME
        <5>1. CASE pc = "wait"
          BY <1>1, <5>1, Times DEF Due
        <5>2. CASE pc = "send"
          BY <1>1, <5>2, Times DEF Due, Punctual, IInv, Scanning
        <5>3. QED
          BY <3>3, <5>1, <5>2
      <4> HIDE DEF tx
      <4>4. now + 1 + SendOffset[s] <= tx + COMPUTE_OFFSET + CYCLE_TIME
        BY <1>1, <3>1, <4>2, <4>3, Times
      <4>5. QED
        BY <2>2, <4>4 DEF tx
    <3>4. QED
      BY <1>2, <1>4, <3>2, <3>3
  <2>3. QED
    BY <1>3, <2>1, <2>2
<1>5. Fresh'
  BY <1>1, <1>4 DEF Fresh
<1>6. Between'
  <2>1. SUFFICES ASSUME pc \in {"input", "receive"}
                 PROVE  Between'
    BY <1>1 DEF Between, mainVars
  <2>2. PICK k \in Nat :
          /\ Compute(k) <= now /\ SentBefore(Compute(k))
          /\ \A s \in Streams : \A i \in DOMAIN inFlight[s] : Compute(k) <= inFlight[s][i]
    BY <2>1 DEF IInv, Between
  <2>3. Compute(k) \in Nat
    BY ComputeType
  <2>4. Compute(k) <= now + 1
    BY <1>1, <2>2, <2>3
  <2>5. \A s \in Streams : \A i \in DOMAIN inFlight'[s] : Compute(k) <= inFlight'[s][i]
    BY <1>3, <2>2
  <2>6. SentBefore(Compute(k))'
    BY <1>1, <2>2 DEF SentBefore
  <2>7. QED
    BY <1>1, <2>4, <2>5, <2>6 DEF Between
<1>7. Scanning'
  <2>1. pc = "wait" => now + 1 <= next_compute_ts
    BY <1>1 DEF Due
  <2>2. pc \in {"program", "output", "send"} => next_compute_ts <= now + 1
    BY <1>1 DEF IInv, Scanning
  <2>3. pc = "send" => now + 1 <= scanEnd
    BY <1>1 DEF Due
  <2>4. QED
    BY <1>1, <1>2, <2>1, <2>2, <2>3 DEF IInv, Scanning, SentBefore, inputs, mainVars
<1>8. QED
  BY <1>5, <1>6, <1>7

\* A packet leaves the queue, and nothing else changes for those behind it.
LEMMA FewerPackets ==
  ASSUME IInv, NEW s \in Streams, inFlight[s] # <<>>,
         inFlight' = [inFlight EXCEPT ![s] = Tail(@)], UNCHANGED <<now, bufferLock, output>>
  PROVE  /\ \A t \in Streams : \A i \in DOMAIN inFlight'[t] :
              \E j \in DOMAIN inFlight[t] : inFlight'[t][i] = inFlight[t][j]
         /\ Fresh'
         /\ pc \in {"input", "receive"} /\ pc' \in {"input", "receive"} => Between'
<1>1. inFlight \in [Streams -> Seq(Nat)]
  BY DEF IInv, TInv, TypeOK
<1>2. ASSUME NEW t \in Streams, NEW i \in DOMAIN inFlight'[t]
      PROVE  \E j \in DOMAIN inFlight[t] : inFlight'[t][i] = inFlight[t][j]
  <2>1. CASE t = s
    <3> DEFINE q == inFlight[s]
    <3>1. q \in Seq(Nat) /\ q # <<>>
      BY <1>1
    <3>2. inFlight'[t] = Tail(q)
      BY <1>1, <2>1
    <3> HIDE DEF q
    <3>3. \A j \in DOMAIN Tail(q) : j + 1 \in DOMAIN q /\ Tail(q)[j] = q[j + 1]
      BY <3>1, HeadTailProperties, LenProperties
    <3>4. \E j \in DOMAIN q : inFlight'[t][i] = q[j]
      BY <1>2, <3>2, <3>3
    <3>5. QED
      BY <2>1, <3>4 DEF q
  <2>2. CASE t # s
    BY <1>1, <1>2, <2>2
  <2>3. QED
    BY <2>1, <2>2
<1>3. Fresh'
  BY <1>2 DEF IInv, Fresh
<1>4. ASSUME pc \in {"input", "receive"}, pc' \in {"input", "receive"}
      PROVE  Between'
  <2>1. PICK k \in Nat :
          /\ Compute(k) <= now /\ SentBefore(Compute(k))
          /\ \A t \in Streams : \A i \in DOMAIN inFlight[t] : Compute(k) <= inFlight[t][i]
    BY <1>4 DEF IInv, Between
  <2>2. SentBefore(Compute(k))' /\ Compute(k) <= now'
    BY <2>1 DEF SentBefore
  <2>3. \A t \in Streams : \A i \in DOMAIN inFlight'[t] : Compute(k) <= inFlight'[t][i]
    BY <1>2, <2>1
  <2>4. QED
    BY <2>2, <2>3 DEF Between
<1>5. QED
  BY <1>2, <1>3, <1>4

LEMMA FLose ==
  ASSUME IInv, NEW s \in Streams, Lose(s)
  PROVE  Fresh' /\ Between' /\ Scanning'
<1>1. /\ UNCHANGED <<now, inputs, mainVars, bufferLock, dnpVars, output, scans>>
      /\ inFlight' = [inFlight EXCEPT ![s] = Tail(@)] /\ inFlight[s] # <<>>
  BY DEF Lose
<1>2. /\ Fresh'
      /\ pc \in {"input", "receive"} /\ pc' \in {"input", "receive"} => Between'
  BY <1>1, FewerPackets
<1>3. Between'
  BY <1>1, <1>2 DEF Between, mainVars
<1>4. Scanning'
  BY <1>1 DEF IInv, Scanning, SentBefore, inputs, mainVars
<1>5. QED
  BY <1>2, <1>3, <1>4

\* A packet that completes the inputs sets a compute time after the last one.
LEMMA FReceive ==
  ASSUME IInv, NEW s \in Streams, Receive(s)
  PROVE  Fresh' /\ Between' /\ Scanning'
<1> DEFINE tx == Head(inFlight[s])
<1>1. /\ UNCHANGED <<now, scanEnd, bufferLock, dnpVars, output, lost, scans>>
      /\ inFlight' = [inFlight EXCEPT ![s] = Tail(@)] /\ inFlight[s] # <<>> /\ pc = "receive"
      /\ \/ UNCHANGED <<inputs, pc>>
         \/ \E next \in ComputeTimes(tx) :
              /\ next_compute_ts' = next
              /\ input_timestamp' = [input_timestamp EXCEPT ![s] = tx]
              /\ pc' = IF Complete(input_timestamp', next) THEN "wait" ELSE pc
  BY DEF Receive
<1>2. /\ Fresh'
      /\ pc' \in {"input", "receive"} => Between'
  BY <1>1, FewerPackets
<1>3. pc' \in {"receive", "wait"}
  BY <1>1
<1>4. CASE pc' = "receive"
  BY <1>2, <1>4 DEF Scanning
<1>5. CASE pc' = "wait"
  <2>1. PICK next \in ComputeTimes(tx) :
          /\ next_compute_ts' = next
          /\ input_timestamp' = [input_timestamp EXCEPT ![s] = tx]
          /\ Complete(input_timestamp', next)
    BY <1>1, <1>5
  <2>2. inFlight[s] \in Seq(Nat) /\ 1 \in DOMAIN inFlight[s] /\ tx = inFlight[s][1]
    BY <1>1, HeadTailProperties, LenProperties DEF IInv, TInv, TypeOK
  <2>3. tx \in Nat /\ tx < now /\ tx % CYCLE_TIME = SendOffset[s] /\ now \in Nat
    BY <2>2, InFlightType DEF IInv, TInv, TypeOK
  <2>4. bufferLock # "lost"
    BY <1>1 DEF IInv, TInv, Locked
  <2>5. COMPUTE_OFFSET <= SendOffset[s] =>
          now + SendOffset[s] <= tx + COMPUTE_OFFSET + CYCLE_TIME
    BY <2>2, <2>4 DEF IInv, Fresh
  <2>6. PICK k \in Nat :
          /\ Compute(k) <= now /\ SentBefore(Compute(k))
          /\ \A t \in Streams : \A i \in DOMAIN inFlight[t] : Compute(k) <= inFlight[t][i]
    BY <1>1 DEF IInv, Between
  <2>7. Compute(k) <= tx
    BY <2>2, <2>6
  <2> HIDE DEF tx
  <2>8. PICK m \in Nat : next = Compute(m)
    BY <2>3, ComputeTimesType
  <2>9. next \in Nat /\ Compute(k) \in Nat
    BY <2>8, ComputeType
  <2>10. now <= next
    <3>1. \/ now <= next
          \/ /\ COMPUTE_OFFSET <= SendOffset[s]
             /\ next + SendOffset[s] = tx + COMPUTE_OFFSET + CYCLE_TIME
      BY <2>3, ComputeTimesType
    <3>2. QED
      BY <2>3, <2>5, <2>9, <3>1, Times
  <2>11. Compute(k) + CYCLE_TIME <= next
    BY <2>3, <2>7, <2>8, <2>9, <2>10, ComputeSpacing
  <2>12. SentBefore(next - CYCLE_TIME) /\ CYCLE_TIME < next
    <3>1. SentBefore(next - CYCLE_TIME)
      BY <2>6, <2>9, <2>11, Times, SentEarlier DEF IInv
    <3>2. output.ts \in Nat /\ output.ts < next - CYCLE_TIME
      BY <3>1 DEF IInv, TInv, TypeOK, SentBefore
    <3>3. QED
      BY <2>9, <3>1, <3>2, Times
  <2>13. ASSUME NEW t \in Streams
         PROVE  next <= input_timestamp'[t] + CYCLE_TIME /\ input_timestamp'[t] < next
    <3>1. input_timestamp'[t] \in Nat /\ input_timestamp'[t] < now
      <4>1. input_timestamp[t] \in Nat /\ input_timestamp'[t] \in {tx, input_timestamp[t]}
        BY <2>1 DEF IInv, TInv, TypeOK
      <4>2. input_timestamp[t] < now
        <5>1. CYCLE_TIME <= now /\ (input_timestamp[t] = 0 \/ input_timestamp[t] < now)
          BY DEF IInv, TInv, Packets, Stream
        <5>2. QED
          BY <2>3, <4>1, <5>1, Times
      <4>3. QED
        BY <2>3, <4>1, <4>2
    <3>2. input_timestamp'[t] >= next - CYCLE_TIME
      BY <2>1 DEF Complete
    <3>3. QED
      BY <2>3, <2>9, <2>10, <3>1, <3>2, Times
  <2>14. Scanning'
    <3>1. SentBefore(next - CYCLE_TIME)'
      BY <1>1, <2>12 DEF SentBefore
    <3>2. /\ \E j \in Nat : next_compute_ts' = Compute(j)
          /\ CYCLE_TIME < next_compute_ts' /\ now' <= next_compute_ts'
      BY <1>1, <2>1, <2>8, <2>10, <2>12
    <3>3. \A t \in Streams : /\ next_compute_ts' <= input_timestamp'[t] + CYCLE_TIME
                             /\ input_timestamp'[t] < next_compute_ts'
      BY <2>1, <2>13
    <3>4. SentBefore(next_compute_ts - CYCLE_TIME)'
      BY <2>1, <3>1 DEF SentBefore
    <3>5. QED
      BY <1>5, <3>2, <3>3, <3>4 DEF Scanning
  <2>15. QED
    BY <1>2, <1>5, <2>14 DEF Between
<1>6. QED
  BY <1>3, <1>4, <1>5

LEMMA FStart ==
  ASSUME IInv, InputLock \/ StartScan \/ RunProgram \/ OutputLock
  PROVE  Fresh' /\ Between' /\ Scanning'
<1>1. /\ UNCHANGED <<now, inFlight, inputs, output>>
      /\ bufferLock # "lost" /\ bufferLock' # "lost"
  BY DEF InputLock, StartScan, RunProgram, OutputLock, IInv, TInv, TypeOK
<1>2. Fresh'
  BY <1>1 DEF IInv, Fresh
<1>3. CASE InputLock
  <2>1. pc = "input" /\ pc' = "receive"
    BY <1>3 DEF InputLock
  <2>2. Scanning'
    BY <2>1 DEF Scanning
  <2>3. \E k \in Nat :
          /\ Compute(k) <= now /\ SentBefore(Compute(k))
          /\ \A s \in Streams : \A i \in DOMAIN inFlight[s] : Compute(k) <= inFlight[s][i]
    BY <2>1 DEF IInv, Between
  <2>4. Between'
    BY <1>1, <2>3 DEF Between, SentBefore
  <2>5. QED
    BY <1>2, <2>2, <2>4
<1>4. CASE StartScan
  <2>1. /\ pc = "wait" /\ pc' = "program" /\ scanEnd' = now + ScanTime
        /\ now \in Nat /\ next_compute_ts \in Nat /\ now = next_compute_ts
    BY <1>4 DEF StartScan, IInv, TInv, TypeOK, Scanning
  <2>2. now <= now + ScanTime
    BY <2>1, Times
  <2>3. Scanning'
    BY <1>1, <2>1, <2>2 DEF IInv, Scanning, SentBefore, inputs
  <2>4. QED
    BY <1>2, <2>1, <2>3 DEF Between
<1>5. CASE RunProgram \/ OutputLock
  <2>1. /\ pc \in {"program", "output"} /\ pc' \in {"output", "send"} /\ UNCHANGED scanEnd
    BY <1>5 DEF RunProgram, OutputLock
  <2>2. Scanning'
    BY <1>1, <2>1 DEF IInv, Scanning, SentBefore, inputs
  <2>3. QED
    BY <1>2, <2>1, <2>2 DEF Between
<1>6. QED
  BY <1>3, <1>4, <1>5, <1>2

\* An output carries timestamps of this scan, and ids of the cycles of its packets.
LEMMA FEnd ==
  ASSUME IInv, NEW on \in BOOLEAN, EndScan(on)
  PROVE  Fresh' /\ Between' /\ Scanning'
<1>1. /\ UNCHANGED <<now, inFlight, inputs>>
      /\ bufferLock # "lost" /\ bufferLock' # "lost" /\ pc = "send" /\ pc' = "input"
  BY DEF EndScan, IInv, TInv, TypeOK
<1>2. Fresh' /\ Scanning'
  BY <1>1 DEF IInv, Fresh, Scanning
<1>3. PICK k \in Nat : next_compute_ts = Compute(k)
  BY <1>1 DEF IInv, Scanning
<1>4. /\ next_compute_ts \in Nat /\ next_compute_ts <= now /\ CYCLE_TIME < next_compute_ts
      /\ SentBefore(next_compute_ts - CYCLE_TIME)
      /\ \A s \in Streams : /\ next_compute_ts <= input_timestamp[s] + CYCLE_TIME
                            /\ input_timestamp[s] < next_compute_ts
                            /\ input_timestamp[s] \in Nat
  BY <1>1 DEF IInv, TInv, TypeOK, Scanning
<1>5. SentBefore(next_compute_ts)'
  <2>1. CASE output' = output
    <3>1. SentBefore(next_compute_ts)
      BY <1>4, Times, SentEarlier DEF IInv
    <3>2. QED
      BY <1>1, <2>1, <3>1 DEF SentBefore, inputs
  <2>2. CASE output' = [number |-> output.number + 1,
                        ts |-> Min({input_timestamp[s] : s \in Streams}),
                        id |-> Max({input_pkt_id[s] : s \in Streams})]
    <3>1. output'.ts < next_compute_ts
      <4>1. PICK s \in Streams : output'.ts = input_timestamp[s]
        BY <2>2, OutputOfInputs DEF IInv
      <4>2. QED
        BY <1>4, <4>1
    <3>2. \E s \in Streams : InCycle(output'.id, SendOffset[s]) < next_compute_ts
      <4>1. PICK s \in Streams : output'.id = input_pkt_id[s]
        BY <2>2, OutputOfInputs DEF IInv
      <4>2. input_timestamp[s] # 0
        BY <1>4, Times
      <4>3. InCycle(input_pkt_id[s], SendOffset[s]) = input_timestamp[s]
        BY <1>4, <4>2, IdOfTimestamp DEF IInv
      <4>4. QED
        BY <1>4, <4>1, <4>3
    <3>3. QED
      BY <1>1, <3>1, <3>2 DEF SentBefore, inputs
  <2>3. QED
    BY <2>1, <2>2 DEF EndScan
<1>6. \A s \in Streams : \A i \in DOMAIN inFlight[s] : Compute(k) <= inFlight[s][i]
  BY <1>1, <1>3, LaterPackets
<1>7. Between'
  <2>1. SentBefore(Compute(k))'
    BY <1>1, <1>3, <1>5 DEF inputs, SentBefore
  <2>2. QED
    BY <1>1, <1>3, <1>4, <1>6, <2>1 DEF Between
<1>8. QED
  BY <1>2, <1>7

LEMMA FOutstation ==
  ASSUME IInv, Outstation
  PROVE  Fresh' /\ Between' /\ Scanning'
<1>1. UNCHANGED <<now, inFlight, inputs, mainVars, output>>
  BY DEF Outstation, Request, OperateRefused, OperateLock, OperateReturns
<1>2. bufferLock' # "lost" => bufferLock # "lost"
  BY DEF Outstation, Request, OperateRefused, OperateLock, OperateReturns
<1>3. QED
  BY <1>1, <1>2 DEF IInv, Fresh, Between, Scanning, SentBefore, inputs, mainVars

LEMMA IInit == Init => IInv
  BY TInit, FInit DEF IInv

LEMMA IStep == Punctual /\ IInv /\ [Next]_vars => IInv'
<1> SUFFICES ASSUME Punctual, IInv, [Next]_vars
             PROVE  IInv'
  OBVIOUS
<1>1. TInv'
  BY TStep DEF IInv
<1>2. CASE Tick
  BY <1>1, <1>2, FTick DEF IInv
<1>3. ASSUME NEW s \in Streams, Lose(s)
      PROVE  IInv'
  BY <1>1, <1>3, FLose DEF IInv
<1>4. CASE Main
  BY <1>1, <1>4, FReceive, FStart, FEnd DEF IInv, Main
<1>5. CASE Outstation
  BY <1>1, <1>5, FOutstation DEF IInv
<1>6. CASE UNCHANGED vars
  BY <1>1, <1>6 DEF IInv, Fresh, Between, Scanning, SentBefore, vars, inputs, mainVars, dnpVars
<1>7. QED
  BY <1>2, <1>3, <1>4, <1>5, <1>6 DEF Next

\* If devices and scans are in time, every scan computes on packets that were sent in
\* the cycle before its compute time (send_packet), for any number of streams, whatever
\* is lost and whatever commands come in between.
THEOREM ScansAreOfOneCycle == Punctual => (Spec => []InputsOfOneCycle)
<1> SUFFICES ASSUME Punctual
             PROVE  Spec => []InputsOfOneCycle
  OBVIOUS
<1>1. IInv => InputsOfOneCycle
  <2> SUFFICES ASSUME IInv, pc \notin {"input", "receive"}, NEW s \in Streams
               PROVE  input_timestamp[s] \in next_compute_ts - CYCLE_TIME .. next_compute_ts - 1
    BY DEF InputsOfOneCycle
  <2>1. /\ pc \in {"wait", "program", "output", "send"}
        /\ next_compute_ts \in Nat /\ input_timestamp[s] \in Nat
    BY DEF IInv, TInv, TypeOK
  <2>2. /\ next_compute_ts <= input_timestamp[s] + CYCLE_TIME
        /\ input_timestamp[s] < next_compute_ts
    BY <2>1 DEF IInv, Scanning
  <2>3. QED
    BY <2>1, <2>2, Times
<1>2. Punctual /\ IInv /\ [Next]_vars => IInv'
  BY IStep
<1>3. IInv /\ [Next]_vars => IInv'
  BY <1>2
<1>4. QED
  BY IInit, <1>1, <1>3, PTL DEF Spec

\* Then the packets sent by updateBuffersOut are in order: each has a later timestamp
\* and a larger id than the one before it, so none is sent twice.
THEOREM OutputsAreInOrder == Punctual => (Spec => OutputsMoveForward)
<1> SUFFICES ASSUME Punctual
             PROVE  Spec => OutputsMoveForward
  OBVIOUS
<1>1. ASSUME IInv, [Next]_vars
      PROVE  [output' # output => /\ output'.ts > output.ts /\ output'.id > output.id]_output
  <2> SUFFICES ASSUME output' # output
               PROVE  output'.ts > output.ts /\ output'.id > output.id
    OBVIOUS
  <2>1. EndScan(TRUE)
    BY <1>1 DEF Next, Tick, Lose, Main, InputLock, Receive, StartScan, RunProgram, OutputLock,
                EndScan, Outstation, Request, OperateRefused, OperateLock, OperateReturns, vars
  <2>2. /\ pc = "send"
        /\ output' = [number |-> output.number + 1,
                      ts |-> Min({input_timestamp[s] : s \in Streams}),
                      id |-> Max({input_pkt_id[s] : s \in Streams})]
    BY <2>1 DEF EndScan
  <2>3. /\ next_compute_ts \in Nat /\ CYCLE_TIME < next_compute_ts
        /\ SentBefore(next_compute_ts - CYCLE_TIME)
        /\ \A s \in Streams : next_compute_ts <= input_timestamp[s] + CYCLE_TIME
        /\ \A s \in Streams : input_timestamp[s] \in Nat /\ input_pkt_id[s] \in Nat
        /\ output.ts \in Nat /\ output.id \in Nat
    BY <1>1, <2>2 DEF IInv, TInv, TypeOK, Scanning
  <2>4. output'.ts > output.ts
    <3>1. PICK s \in Streams : output'.ts = input_timestamp[s]
      BY <1>1, <2>2, OutputOfInputs DEF IInv
    <3>2. output.ts < next_compute_ts - CYCLE_TIME
      BY <2>3 DEF SentBefore
    <3>3. QED
      BY <2>3, <3>1, <3>2, Times
  <2>5. \A s \in Streams : input_pkt_id[s] <= output'.id /\ output'.id \in Nat
    BY <1>1, <2>2, OutputOfInputs DEF IInv
  <2>6. \E s \in Streams : output.id < input_pkt_id[s]
    <3>1. ASSUME NEW s \in Streams
          PROVE  /\ InCycle(input_pkt_id[s], SendOffset[s]) = input_timestamp[s]
                 /\ 0 < input_pkt_id[s]
      <4>1. input_timestamp[s] # 0
        BY <2>3, Times
      <4>2. QED
        BY <1>1, <2>3, <4>1, IdOfTimestamp DEF IInv
    <3>2. CASE output.id = 0
      BY <3>1, <3>2, StreamsAssumption
    <3>3. CASE \E s \in Streams : InCycle(output.id, SendOffset[s]) < next_compute_ts - CYCLE_TIME
      <4>1. PICK s \in Streams : InCycle(output.id, SendOffset[s]) < next_compute_ts - CYCLE_TIME
        BY <3>3
      <4>2. /\ output.id * CYCLE_TIME \in Nat /\ input_pkt_id[s] * CYCLE_TIME \in Nat
            /\ SendOffset[s] \in Nat
        BY <2>3, Times
      <4>3. output.id * CYCLE_TIME < input_pkt_id[s] * CYCLE_TIME
        <5>1. InCycle(output.id, SendOffset[s]) < InCycle(input_pkt_id[s], SendOffset[s])
          <6>1. InCycle(output.id, SendOffset[s]) \in Nat
            BY <4>2 DEF InCycle
          <6>2. QED
            BY <2>3, <3>1, <4>1, <6>1, Times
        <5>2. QED
          BY <4>2, <5>1 DEF InCycle
      <4>4. output.id < input_pkt_id[s]
        BY <2>3, <4>3, Times
      <4>5. QED
        BY <4>4
    <3>4. QED
      BY <2>3, <3>2, <3>3 DEF SentBefore
  <2>7. QED
    BY <2>3, <2>4, <2>5, <2>6
<1>2. Punctual /\ IInv /\ [Next]_vars => IInv'
  BY IStep
<1>3. IInv /\ [Next]_vars => IInv'
  BY <1>2
<1>4. QED
  BY IInit, <1>1, <1>3, PTL DEF Spec, OutputsMoveForward

-----------------------------------------------------------------------------
(***************************************************************************)
(* Lost packets and missed scans                                           *)
(***************************************************************************)
\* A packet that was sent, and is neither on its way nor the one taken last.
Gone(s, tx) ==
  /\ tx < now /\ tx # input_timestamp[s]
  /\ \A i \in DOMAIN inFlight[s] : inFlight[s][i] # tx

\* A packet for the compute time after Compute(k) is gone.
Missing(k) ==
  \E s \in Streams : \E tx \in Nat :
    tx % CYCLE_TIME = SendOffset[s] /\ Compute(k) <= tx /\ Gone(s, tx)

\* The scan after Compute(k) has started.
Scanned(k) == pc # "wait" /\ \A s \in Streams : Compute(k) <= input_timestamp[s]

\* Each compute time is scanned or costs a packet, also the one that comes next.
Counted ==
  /\ bufferLock = "lost" => outOfRange
  /\ outOfRange \/ \A k \in Nat : 1 <= k /\ Compute(k) < now /\ now <= Compute(k + 1) =>
       /\ k <= scans + lost + 1
       /\ Scanned(k) \/ Missing(k) => k + 1 <= scans + lost + 1

LEMMA Residue ==
  ASSUME NEW k \in Nat, NEW o \in Nat, o < CYCLE_TIME
  PROVE  (k * CYCLE_TIME + o) % CYCLE_TIME = o
<1> DEFINE n == k * CYCLE_TIME + o
           q == Cycle(n)
           r == n % CYCLE_TIME
<1>1. CYCLE_TIME \in Nat /\ k * CYCLE_TIME \in Nat /\ n \in Nat
  BY Times, Product
<1>2. q \in Nat /\ r \in 0 .. CYCLE_TIME - 1 /\ n = q * CYCLE_TIME + r
  BY <1>1, Division, Zenon
<1>3. q * CYCLE_TIME \in Nat
  BY <1>2, Product
<1>4. n = k * CYCLE_TIME + o
  OBVIOUS
<1> HIDE DEF n, q, r
<1>5. k * CYCLE_TIME < q * CYCLE_TIME + CYCLE_TIME /\ q * CYCLE_TIME < k * CYCLE_TIME + CYCLE_TIME
  BY <1>1, <1>2, <1>3, <1>4
<1>6. k * CYCLE_TIME <= q * CYCLE_TIME
  BY <1>2, <1>5, Multiples
<1>7. q * CYCLE_TIME <= k * CYCLE_TIME
  BY <1>2, <1>5, Multiples
<1>8. r = o
  BY <1>1, <1>2, <1>3, <1>4, <1>6, <1>7
<1>9. QED
  BY <1>8 DEF r, n

\* Every stream sends a packet for every compute time, and in time.
LEMMA WindowPacket ==
  ASSUME Punctual, Prompt, NEW k \in Nat, NEW s \in Streams
  PROVE  \E tx \in Nat : /\ tx % CYCLE_TIME = SendOffset[s]
                         /\ Compute(k) <= tx /\ tx < Compute(k + 1)
                         /\ tx + MaxDelay <= Compute(k + 1)
<1> DEFINE o == SendOffset[s]
           a == k * CYCLE_TIME
<1>1. /\ CYCLE_TIME \in Nat /\ COMPUTE_OFFSET \in Nat /\ COMPUTE_OFFSET < CYCLE_TIME
      /\ MaxDelay \in Nat /\ o \in Nat /\ o < CYCLE_TIME
  BY Times
<1>2. /\ a \in Nat /\ (k + 1) * CYCLE_TIME = a + CYCLE_TIME
      /\ Compute(k) = a + COMPUTE_OFFSET /\ Compute(k + 1) = a + COMPUTE_OFFSET + CYCLE_TIME
  <2>1. a \in Nat /\ (k + 1) * CYCLE_TIME = a + CYCLE_TIME
    BY Product
  <2>2. Compute(k) = a + COMPUTE_OFFSET
    BY ComputeType
  <2>3. Compute(k + 1) = Compute(k) + CYCLE_TIME
    BY ComputeType
  <2>4. QED
    BY <2>1, <2>2, <2>3
<1>3. (a + o) % CYCLE_TIME = o
  BY <1>1, Residue
<1>4. (a + CYCLE_TIME + o) % CYCLE_TIME = o
  <2>1. ((k + 1) * CYCLE_TIME + o) % CYCLE_TIME = o
    <3>1. k + 1 \in Nat
      OBVIOUS
    <3>2. QED
      BY <1>1, <3>1, Residue
  <2>2. (k + 1) * CYCLE_TIME + o = a + CYCLE_TIME + o
    BY <1>1, <1>2
  <2>3. QED
    BY <2>1, <2>2, Zenon
<1>5. CASE COMPUTE_OFFSET <= o
  <2>1. o + MaxDelay <= COMPUTE_OFFSET + CYCLE_TIME
    BY <1>5 DEF Punctual
  <2> HIDE DEF o, a
  <2>2. /\ a + o \in Nat /\ Compute(k) <= a + o /\ a + o < Compute(k + 1)
        /\ a + o + MaxDelay <= Compute(k + 1)
    BY <1>1, <1>2, <1>5, <2>1
  <2>3. QED
    BY <1>3, <2>2 DEF o
<1>6. CASE o < COMPUTE_OFFSET
  <2>1. o + MaxDelay <= COMPUTE_OFFSET
    BY <1>6 DEF Prompt
  <2> HIDE DEF o, a
  <2> DEFINE tx == a + CYCLE_TIME + o
  <2>2. /\ tx \in Nat /\ Compute(k) <= tx /\ tx < Compute(k + 1)
        /\ tx + MaxDelay <= Compute(k + 1)
    BY <1>1, <1>2, <1>6, <2>1
  <2> HIDE DEF tx
  <2>3. tx % CYCLE_TIME = SendOffset[s]
    BY <1>4 DEF tx, o
  <2>4. QED
    BY <2>2, <2>3
<1>7. QED
  BY <1>1, <1>5, <1>6

\* A packet that was sent after Compute(k) is for the compute time that follows.
LEMMA NextOfWindow ==
  ASSUME NEW k \in Nat, NEW tx \in Nat, now \in Nat, Compute(k) <= tx, tx < now,
         now <= Compute(k + 1)
  PROVE  ComputeTimes(tx) = {Compute(k + 1)}
<1>1. /\ Compute(k) \in Nat /\ Compute(k + 1) \in Nat /\ Compute(k + 2) \in Nat
      /\ Compute(k + 1) = Compute(k) + CYCLE_TIME /\ Compute(k + 2) = Compute(k + 1) + CYCLE_TIME
  <2>1. (k + 1) + 1 = k + 2 /\ k + 1 \in Nat
    OBVIOUS
  <2>2. Compute(k) \in Nat /\ Compute(k + 1) = Compute(k) + CYCLE_TIME
    BY ComputeType
  <2>3. Compute(k + 1) \in Nat /\ Compute((k + 1) + 1) = Compute(k + 1) + CYCLE_TIME
    BY <2>1, ComputeType
  <2>4. QED
    BY <2>1, <2>2, <2>3, Times
<1> DEFINE this == InCycle(Cycle(tx), COMPUTE_OFFSET)
<1>2. PICK m \in Nat : m = Cycle(tx)
  BY Division
<1>3. this = Compute(m) /\ this + CYCLE_TIME = Compute(m + 1) /\ this \in Nat
  BY <1>2, ComputeType DEF Compute
<1>4. this + (tx % CYCLE_TIME) = tx + COMPUTE_OFFSET /\ tx % CYCLE_TIME \in Nat
      /\ tx % CYCLE_TIME < CYCLE_TIME
  <2>1. /\ tx = Cycle(tx) * CYCLE_TIME + (tx % CYCLE_TIME) /\ Cycle(tx) \in Nat
        /\ tx % CYCLE_TIME \in 0 .. CYCLE_TIME - 1
    BY Division, Zenon
  <2>2. Cycle(tx) * CYCLE_TIME \in Nat
    BY <2>1, Product
  <2>3. QED
    BY <2>1, <2>2, Times DEF InCycle
<1>5. ComputeTimes(tx) = IF this >= now THEN {this}
                         ELSE IF COMPUTE_OFFSET <= tx % CYCLE_TIME THEN {this + CYCLE_TIME} ELSE {}
  BY DEF ComputeTimes
<1> HIDE DEF this
\* A compute time between tx and a cycle later is the one that follows.
<1>6. ASSUME NEW j \in Nat, tx < Compute(j), Compute(j) <= tx + CYCLE_TIME
      PROVE  Compute(j) = Compute(k + 1)
  <2>1. Compute(j) \in Nat
    BY ComputeType
  <2>2. Compute(k) + CYCLE_TIME <= Compute(j)
    <3>1. Compute(k) < Compute(j)
      BY <1>1, <1>6, <2>1
    <3>2. QED
      BY <3>1, ComputeSpacing
  <2>3. ~(Compute(k + 1) < Compute(j))
    <3>1. SUFFICES ASSUME Compute(k + 1) < Compute(j)
                   PROVE  FALSE
      OBVIOUS
    <3>2. k + 1 \in Nat
      OBVIOUS
    <3>3. Compute(k + 1) + CYCLE_TIME <= Compute(j)
      BY <3>1, <3>2, ComputeSpacing
    <3>4. QED
      BY <1>1, <1>6, <2>1, <3>3, Times
  <2>4. QED
    BY <1>1, <2>1, <2>2, <2>3, Times
<1>7. CASE this >= now
  <2>1. tx < Compute(m) /\ Compute(m) <= tx + CYCLE_TIME
    BY <1>3, <1>4, <1>7, Times
  <2>2. QED
    BY <1>3, <1>5, <1>6, <1>7, <2>1
<1>8. CASE ~(this >= now)
  <2>1. COMPUTE_OFFSET <= tx % CYCLE_TIME
    <3>1. SUFFICES ASSUME tx % CYCLE_TIME < COMPUTE_OFFSET
                   PROVE  FALSE
      BY <1>4, Times
    <3>2. tx < Compute(m) /\ Compute(m) <= tx + CYCLE_TIME
      BY <1>3, <1>4, <3>1, Times
    <3>3. this = Compute(k + 1)
      BY <1>3, <1>6, <3>2
    <3>4. QED
      BY <1>1, <1>8, <3>3
  <2>2. tx < Compute(m + 1) /\ Compute(m + 1) <= tx + CYCLE_TIME /\ m + 1 \in Nat
    BY <1>3, <1>4, <2>1, Times
  <2>3. QED
    BY <1>3, <1>5, <1>6, <1>8, <2>1, <2>2
<1>9. QED
  BY <1>7, <1>8

\* When a compute time passes, its scan has started or one of its packets is gone.
LEMMA DueScan ==
  ASSUME Punctual, Prompt, IInv, bufferLock # "lost", ~Due,
         NEW k \in Nat, now = Compute(k + 1)
  PROVE  Scanned(k) \/ Missing(k)
<1> SUFFICES ASSUME ~Missing(k)
             PROVE  Scanned(k)
  OBVIOUS
<1>1. /\ now \in Nat /\ Compute(k) \in Nat /\ now = Compute(k) + CYCLE_TIME
      /\ next_compute_ts \in Nat /\ scanEnd \in Nat
      /\ \A s \in Streams : input_timestamp[s] \in Nat
  BY ComputeType DEF IInv, TInv, TypeOK
<1>2. \A s \in Streams : input_timestamp[s] < now
  <2>1. \A s \in Streams : input_timestamp[s] = 0 \/ input_timestamp[s] < now
    BY DEF IInv, TInv, Packets, Stream
  <2>2. QED
    BY <1>1, <2>1, Times
<1>3. pc \in {"receive", "wait", "send"}
  BY DEF Due, IInv, TInv, TypeOK
<1>4. CASE pc = "receive"
  <2>1. ASSUME NEW s \in Streams
        PROVE  Compute(k) <= input_timestamp[s]
    <3>1. PICK tx \in Nat : /\ tx % CYCLE_TIME = SendOffset[s]
                            /\ Compute(k) <= tx /\ tx < Compute(k + 1)
                            /\ tx + MaxDelay <= Compute(k + 1)
      BY WindowPacket
    <3>2. ~Gone(s, tx)
      BY <3>1 DEF Missing
    <3>3. CASE tx = input_timestamp[s]
      BY <3>1, <3>3
    <3>4. CASE \E i \in DOMAIN inFlight[s] : inFlight[s][i] = tx
      <4>1. PICK i \in DOMAIN inFlight[s] : inFlight[s][i] = tx
        BY <3>4
      <4> DEFINE first == Head(inFlight[s])
      <4>2. inFlight[s] # <<>> /\ first \in Nat /\ first <= tx
        BY <4>1, HeadIsFirst DEF IInv
      <4>3. now < first + MaxDelay
        BY <1>1, <1>4, <4>2, Times DEF Due
      <4> HIDE DEF first
      <4>4. QED
        BY <1>1, <3>1, <4>2, <4>3, Times
    <3>5. QED
      BY <3>1, <3>2, <3>3, <3>4 DEF Gone
  <2>2. QED
    BY <1>4, <2>1 DEF Scanned
<1>5. CASE pc = "wait"
  <2>1. PICK m \in Nat : next_compute_ts = Compute(m)
    BY <1>5 DEF IInv, Scanning
  <2>2. now < next_compute_ts
    BY <1>1, <1>5 DEF Due
  <2>3. now + CYCLE_TIME <= next_compute_ts
    <3>1. k + 1 \in Nat
      OBVIOUS
    <3>2. QED
      BY <2>1, <2>2, <3>1, ComputeSpacing
  <2>4. next_compute_ts <= input_timestamp[0] + CYCLE_TIME
    BY <1>5, StreamsAssumption DEF IInv, Scanning
  <2>5. QED
    BY <1>1, <1>2, <2>3, <2>4, StreamsAssumption, Times
<1>6. CASE pc = "send"
  <2>1. PICK m \in Nat : next_compute_ts = Compute(m)
    BY <1>6 DEF IInv, Scanning
  <2>2. now < next_compute_ts + CYCLE_TIME
    <3>1. now < scanEnd /\ scanEnd = next_compute_ts + ScanTime
      BY <1>1, <1>6 DEF Due, IInv, Scanning
    <3>2. ScanTime <= CYCLE_TIME
      BY DEF Punctual
    <3>3. QED
      BY <1>1, <3>1, <3>2, Times
  <2>3. Compute(k + 1) <= next_compute_ts
    <3>1. SUFFICES ASSUME next_compute_ts < Compute(k + 1)
                   PROVE  FALSE
      BY <1>1
    <3>2. k + 1 \in Nat
      OBVIOUS
    <3>3. next_compute_ts + CYCLE_TIME <= Compute(k + 1)
      BY <2>1, <3>1, <3>2, ComputeSpacing
    <3>4. QED
      BY <1>1, <2>2, <3>3, Times
  <2>4. \A s \in Streams : Compute(k) <= input_timestamp[s]
    <3>1. \A s \in Streams : next_compute_ts <= input_timestamp[s] + CYCLE_TIME
      BY <1>6 DEF IInv, Scanning
    <3>2. QED
      BY <1>1, <2>3, <3>1, Times
  <2>5. QED
    BY <1>6, <2>4 DEF Scanned
<1>7. QED
  BY <1>3, <1>4, <1>5, <1>6

LEMMA CInit == Init => Counted
<1> SUFFICES ASSUME Init, NEW k \in Nat, 1 <= k, Compute(k) < now
             PROVE  FALSE
  BY DEF Init, Counted
<1>1. now = CYCLE_TIME /\ CYCLE_TIME <= k * CYCLE_TIME /\ k * CYCLE_TIME \in Nat
  BY Times DEF Init
<1>2. QED
  BY <1>1, Times DEF Compute, InCycle

\* The cases of Counted that are left to prove in a step.
LEMMA CountedStep ==
  ASSUME Counted, bufferLock' = "lost" => outOfRange', outOfRange => outOfRange',
         ~outOfRange /\ bufferLock # "lost" => \A k \in Nat :
           1 <= k /\ Compute(k) < now' /\ now' <= Compute(k + 1) =>
             /\ k <= scans' + lost' + 1
             /\ (Scanned(k) \/ Missing(k))' => k + 1 <= scans' + lost' + 1
  PROVE  Counted'
  BY DEF Counted

LEMMA CTick ==
  ASSUME Punctual, Prompt, IInv, Counted, Tick
  PROVE  Counted'
<1>1. /\ now \in Nat /\ now' = now + 1 /\ ~Due /\ scans \in Nat /\ lost \in Nat
      /\ UNCHANGED <<inputs, mainVars, bufferLock, dnpVars, output, lost, scans>>
      /\ \A s \in Streams : inFlight'[s] = IF now % CYCLE_TIME = SendOffset[s]
                                           THEN Append(inFlight[s], now) ELSE inFlight[s]
  BY DEF Tick, IInv, TInv, TypeOK
<1> SUFFICES ASSUME ~outOfRange, bufferLock # "lost", NEW k \in Nat, 1 <= k,
                    Compute(k) < now', now' <= Compute(k + 1)
             PROVE  /\ k <= scans' + lost' + 1
                    /\ (Scanned(k) \/ Missing(k))' => k + 1 <= scans' + lost' + 1
  BY <1>1, CountedStep DEF Counted, dnpVars
<1>2. Compute(k) \in Nat /\ Compute(k + 1) \in Nat
  <2>1. k + 1 \in Nat
    OBVIOUS
  <2>2. QED
    BY <2>1, ComputeType
\* What is gone now was gone before: the packet of this moment is on its way.
<1>3. ASSUME NEW s \in Streams, NEW tx \in Nat, tx % CYCLE_TIME = SendOffset[s], Gone(s, tx)'
      PROVE  Gone(s, tx)
  <2>1. inFlight[s] \in Seq(Nat)
    BY DEF IInv, TInv, TypeOK
  <2>2. /\ tx < now + 1 /\ tx # input_timestamp[s]
        /\ \A i \in DOMAIN inFlight'[s] : inFlight'[s][i] # tx
    BY <1>1, <1>3 DEF Gone, inputs
  <2>3. CASE now % CYCLE_TIME = SendOffset[s]
    <3> DEFINE q == inFlight[s]
    <3>1. /\ DOMAIN Append(q, now) = 1 .. Len(q) + 1 /\ DOMAIN q = 1 .. Len(q) /\ Len(q) \in Nat
          /\ Append(q, now)[Len(q) + 1] = now
          /\ \A j \in 1 .. Len(q) : Append(q, now)[j] = q[j]
      BY <1>1, <2>1, AppendProperties, LenProperties
    <3>2. \A i \in DOMAIN Append(q, now) : Append(q, now)[i] # tx
      BY <1>1, <2>2, <2>3
    <3> HIDE DEF q
    <3>3. tx # now /\ \A i \in DOMAIN q : q[i] # tx
      BY <3>1, <3>2
    <3>4. QED
      BY <1>1, <2>2, <3>3 DEF Gone, q
  <2>4. CASE now % CYCLE_TIME # SendOffset[s]
    <3>1. tx # now
      BY <1>3, <2>4
    <3>2. QED
      BY <1>1, <2>2, <2>4, <3>1 DEF Gone
  <2>5. QED
    BY <2>3, <2>4
<1>4. CASE Compute(k) < now
  <2>1. /\ k <= scans + lost + 1
        /\ Scanned(k) \/ Missing(k) => k + 1 <= scans + lost + 1
    BY <1>1, <1>2, <1>4 DEF Counted
  <2>2. Scanned(k)' => Scanned(k)
    BY <1>1 DEF Scanned, inputs, mainVars
  <2>3. Missing(k)' => Missing(k)
    BY <1>3 DEF Missing
  <2>4. QED
    BY <1>1, <2>1, <2>2, <2>3
<1>5. CASE Compute(k) = now
  <2>1. k <= scans + lost + 1
    <3>1. CASE k = 1
      BY <1>1, <3>1
    <3>2. CASE k # 1
      <4>1. k - 1 \in Nat /\ 1 <= k - 1 /\ (k - 1) + 1 = k
        BY <3>2
      <4>2. Compute(k - 1) < now
        BY <1>5, <1>2, <4>1, ComputeType, Times
      <4>3. Scanned(k - 1) \/ Missing(k - 1)
        BY <1>1, <1>5, <4>1, DueScan
      <4>4. (k - 1) + 1 <= scans + lost + 1
        BY <1>1, <1>5, <4>1, <4>2, <4>3 DEF Counted
      <4>5. QED
        BY <4>1, <4>4
    <3>3. QED
      BY <3>1, <3>2
  <2>2. ~Scanned(k)'
    <3>1. input_timestamp[0] < now /\ input_timestamp[0] \in Nat
      <4>1. input_timestamp[0] \in Nat /\ (input_timestamp[0] = 0 \/ input_timestamp[0] < now)
            /\ CYCLE_TIME <= now
        BY StreamsAssumption DEF IInv, TInv, TypeOK, Packets, Stream
      <4>2. QED
        BY <1>1, <4>1, Times
    <3>2. QED
      BY <1>1, <1>2, <1>5, <3>1, StreamsAssumption DEF Scanned, inputs
  <2>3. ~Missing(k)'
    <3>1. SUFFICES ASSUME NEW s \in Streams, NEW tx \in Nat, tx % CYCLE_TIME = SendOffset[s],
                          Compute(k) <= tx, Gone(s, tx)'
                   PROVE  FALSE
      BY DEF Missing
    <3>2. tx < now
      BY <1>3, <3>1 DEF Gone
    <3>3. QED
      BY <1>1, <1>5, <3>1, <3>2
  <2>4. QED
    BY <1>1, <2>1, <2>2, <2>3
<1>6. QED
  BY <1>1, <1>2, <1>4, <1>5

LEMMA CReceive ==
  ASSUME IInv, Counted, NEW s \in Streams, Receive(s)
  PROVE  Counted'
<1> DEFINE tx == Head(inFlight[s])
<1>1. /\ UNCHANGED <<now, scanEnd, bufferLock, dnpVars, output, lost, scans>>
      /\ inFlight' = [inFlight EXCEPT ![s] = Tail(@)] /\ inFlight[s] # <<>> /\ pc = "receive"
      /\ \/ ComputeTimes(tx) = {} /\ UNCHANGED <<inputs, pc>>
         \/ \E next \in ComputeTimes(tx) :
              /\ input_timestamp' = [input_timestamp EXCEPT ![s] = tx]
              /\ pc' = IF Complete(input_timestamp', next) THEN "wait" ELSE pc
  BY DEF Receive
<1> SUFFICES ASSUME ~outOfRange, bufferLock # "lost", NEW k \in Nat, 1 <= k,
                    Compute(k) < now', now' <= Compute(k + 1)
             PROVE  /\ k <= scans' + lost' + 1
                    /\ (Scanned(k) \/ Missing(k))' => k + 1 <= scans' + lost' + 1
  BY <1>1, CountedStep DEF Counted, dnpVars
<1>2. /\ k <= scans + lost + 1
      /\ Scanned(k) \/ Missing(k) => k + 1 <= scans + lost + 1
  BY <1>1 DEF Counted
<1>3. /\ now \in Nat /\ Compute(k) \in Nat /\ Compute(k + 1) = Compute(k) + CYCLE_TIME
      /\ CYCLE_TIME <= Compute(k)
  <2>1. k * CYCLE_TIME \in Nat /\ CYCLE_TIME <= k * CYCLE_TIME
    BY Times
  <2>2. /\ Compute(k) \in Nat /\ Compute(k + 1) = Compute(k) + CYCLE_TIME
        /\ Compute(k) = k * CYCLE_TIME + COMPUTE_OFFSET
    BY ComputeType
  <2>3. CYCLE_TIME <= Compute(k)
    BY <2>1, <2>2, Times
  <2>4. QED
    BY <2>2, <2>3 DEF IInv, TInv, TypeOK
<1>4. /\ tx \in Nat /\ tx < now /\ tx % CYCLE_TIME = SendOffset[s]
      /\ input_timestamp \in [Streams -> Nat] /\ input_timestamp[s] + CYCLE_TIME <= tx
  <2>1. inFlight[s] \in Seq(Nat) /\ 1 \in DOMAIN inFlight[s] /\ tx = inFlight[s][1]
    BY <1>1, HeadTailProperties, LenProperties DEF IInv, TInv, TypeOK
  <2>2. QED
    BY <2>1, InFlightType DEF IInv, TInv, TypeOK
<1>5. \A j \in DOMAIN inFlight[s] :
        inFlight[s][j] = tx \/ \E i \in DOMAIN inFlight'[s] : inFlight'[s][i] = inFlight[s][j]
  <2> DEFINE q == inFlight[s]
  <2>1. q \in Seq(Nat) /\ q # <<>> /\ inFlight'[s] = Tail(q)
    BY <1>1 DEF IInv, TInv, TypeOK
  <2> HIDE DEF q
  <2>2. /\ DOMAIN q = 1 .. Len(q) /\ DOMAIN Tail(q) = 1 .. Len(q) - 1 /\ Len(q) \in Nat
        /\ Head(q) = q[1] /\ \A i \in 1 .. Len(q) - 1 : Tail(q)[i] = q[i + 1]
    BY <2>1, HeadTailProperties, LenProperties
  <2>3. ASSUME NEW j \in DOMAIN q
        PROVE  q[j] = Head(q) \/ \E i \in DOMAIN Tail(q) : Tail(q)[i] = q[j]
    <3>1. CASE j = 1
      BY <2>2, <3>1
    <3>2. CASE j # 1
      <4>1. j - 1 \in 1 .. Len(q) - 1 /\ (j - 1) + 1 = j
        BY <2>2, <3>2
      <4>2. Tail(q)[j - 1] = q[j]
        BY <2>2, <4>1
      <4>3. QED
        BY <2>2, <4>1, <4>2
    <3>3. QED
      BY <3>1, <3>2
  <2>4. QED
    BY <2>1, <2>3 DEF q
<1> HIDE DEF tx
\* A packet that is taken or dropped is not gone, and the one that it replaces is old.
<1>6. ASSUME NEW t \in Streams, NEW p \in Nat, Compute(k) <= p, Gone(t, p)'
      PROVE  Gone(t, p)
  <2>1. p < now /\ p # input_timestamp'[t] /\ \A i \in DOMAIN inFlight'[t] : inFlight'[t][i] # p
    BY <1>1, <1>6 DEF Gone
  <2>2. CASE t # s
    <3>1. inFlight'[t] = inFlight[t] /\ input_timestamp'[t] = input_timestamp[t]
      BY <1>1, <1>4, <2>2 DEF inputs, IInv, TInv, TypeOK
    <3>2. QED
      BY <2>1, <3>1 DEF Gone
  <2>3. CASE t = s /\ ComputeTimes(tx) = {} /\ UNCHANGED inputs
    <3>1. p # tx
      <4>1. SUFFICES ASSUME p = tx
                     PROVE  FALSE
        OBVIOUS
      <4>2. ComputeTimes(tx) = {Compute(k + 1)}
        BY <1>1, <1>3, <1>4, <1>6, <4>1, NextOfWindow
      <4>3. QED
        BY <2>3, <4>2
    <3>2. \A j \in DOMAIN inFlight[s] : inFlight[s][j] # p
      BY <1>5, <2>1, <2>3, <3>1
    <3>3. QED
      BY <2>1, <2>3, <3>2 DEF Gone, inputs
  <2>4. CASE t = s /\ input_timestamp' = [input_timestamp EXCEPT ![s] = tx]
    <3>1. p # tx
      BY <1>4, <2>1, <2>4
    <3>2. \A j \in DOMAIN inFlight[s] : inFlight[s][j] # p
      BY <1>5, <2>1, <2>4, <3>1
    <3>3. p # input_timestamp[s]
      BY <1>1, <1>3, <1>4, <1>6, Times
    <3>4. QED
      BY <2>1, <2>4, <3>2, <3>3 DEF Gone
  <2>5. QED
    BY <1>1, <2>2, <2>3, <2>4
<1>7. Missing(k)' => Missing(k)
  BY <1>6 DEF Missing
<1>8. Scanned(k)' => Scanned(k)
  <2>1. CASE UNCHANGED <<inputs, pc>>
    BY <2>1 DEF Scanned, inputs
  <2>2. CASE \E next \in ComputeTimes(tx) :
              /\ input_timestamp' = [input_timestamp EXCEPT ![s] = tx]
              /\ pc' = IF Complete(input_timestamp', next) THEN "wait" ELSE pc
    <3>1. SUFFICES ASSUME \A t \in Streams : Compute(k) <= input_timestamp'[t], pc' # "wait"
                   PROVE  FALSE
      BY DEF Scanned
    <3>2. PICK next \in ComputeTimes(tx) :
              /\ input_timestamp' = [input_timestamp EXCEPT ![s] = tx]
              /\ pc' = IF Complete(input_timestamp', next) THEN "wait" ELSE pc
      BY <2>2
    <3>3. Compute(k) <= tx
      BY <1>4, <3>1, <3>2
    <3>4. next = Compute(k + 1)
      BY <1>1, <1>3, <1>4, <3>3, NextOfWindow
    <3>5. next - CYCLE_TIME = Compute(k)
      BY <1>3, <3>4, Times
    <3>6. \A t \in Streams : input_timestamp'[t] \in Nat
      BY <1>4, <3>2
    <3>7. /\ \A t \in Streams : input_timestamp'[t] >= Compute(k)
          /\ input_timestamp'[0] # 0
      BY <1>3, <3>1, <3>6, StreamsAssumption, Times
    <3>8. Complete(input_timestamp', next)
      BY <3>5, <3>7 DEF Complete
    <3>9. QED
      BY <3>1, <3>2, <3>8
  <2>3. QED
    BY <1>1, <2>1, <2>2
<1>9. QED
  BY <1>1, <1>2, <1>7, <1>8

LEMMA CLose ==
  ASSUME IInv, Counted, NEW s \in Streams, Lose(s)
  PROVE  Counted'
<1>1. /\ UNCHANGED <<now, bufferLock, dnpVars, scans>> /\ lost' = lost + 1
      /\ lost \in Nat /\ scans \in Nat
  BY DEF Lose, IInv, TInv, TypeOK
<1>2. \A k \in Nat : 1 <= k /\ Compute(k) < now /\ now <= Compute(k + 1) /\ ~outOfRange =>
        k <= scans + lost + 1
  BY DEF Counted
<1>3. QED
  BY <1>1, <1>2, CountedStep DEF Counted, dnpVars

LEMMA CScan ==
  ASSUME IInv, Counted, InputLock \/ StartScan \/ RunProgram \/ OutputLock
                        \/ (\E on \in BOOLEAN : EndScan(on))
  PROVE  Counted'
<1>1. /\ UNCHANGED <<now, inFlight, inputs, outOfRange, lost>> /\ bufferLock' # "lost"
      /\ lost \in Nat /\ scans \in Nat
  BY DEF InputLock, StartScan, RunProgram, OutputLock, EndScan, dnpVars, IInv, TInv, TypeOK
<1>2. \A k \in Nat : Missing(k)' <=> Missing(k)
  BY <1>1 DEF Missing, Gone, inputs
<1>3. \A k \in Nat : 1 <= k /\ Compute(k) < now /\ now <= Compute(k + 1) /\ ~outOfRange =>
        /\ k <= scans + lost + 1
        /\ Scanned(k) \/ Missing(k) => k + 1 <= scans + lost + 1
  BY DEF Counted
<1>4. CASE StartScan
  <2>1. scans' = scans + 1
    BY <1>4 DEF StartScan
  <2>2. QED
    BY <1>1, <1>3, <2>1, CountedStep
<1>5. CASE InputLock \/ RunProgram \/ OutputLock \/ (\E on \in BOOLEAN : EndScan(on))
  <2>1. UNCHANGED scans /\ pc # "wait"
    BY <1>5 DEF InputLock, RunProgram, OutputLock, EndScan
  <2>2. \A k \in Nat : Scanned(k)' => Scanned(k)
    BY <1>1, <2>1 DEF Scanned, inputs
  <2>3. QED
    BY <1>1, <1>2, <1>3, <2>1, <2>2, CountedStep
<1>6. QED
  BY <1>4, <1>5

LEMMA COutstation ==
  ASSUME IInv, Counted, Outstation
  PROVE  Counted'
<1>1. UNCHANGED <<now, inFlight, inputs, pc, lost, scans>>
  BY DEF Outstation, Request, OperateRefused, OperateLock, OperateReturns, mainVars
<1>2. outOfRange => outOfRange'
  BY DEF Outstation, Request, OperateRefused, OperateLock, OperateReturns, dnpVars
<1>3. bufferLock' = "lost" => outOfRange'
  <2>1. CASE \E c \in Commands : Request(c)
    BY <2>1 DEF Request, Counted
  <2>2. CASE OperateRefused
    BY <2>2 DEF OperateRefused, Counted
  <2>3. CASE OperateLock
    BY <2>3 DEF OperateLock
  <2>4. CASE OperateReturns
    BY <2>4 DEF OperateReturns
  <2>5. QED
    BY <2>1, <2>2, <2>3, <2>4 DEF Outstation
<1>4. \A k \in Nat : (Scanned(k) \/ Missing(k))' <=> Scanned(k) \/ Missing(k)
  BY <1>1 DEF Scanned, Missing, Gone, inputs
<1>5. \A k \in Nat : 1 <= k /\ Compute(k) < now /\ now <= Compute(k + 1) /\ ~outOfRange =>
        /\ k <= scans + lost + 1
        /\ Scanned(k) \/ Missing(k) => k + 1 <= scans + lost + 1
  BY DEF Counted
<1>6. QED
  BY <1>1, <1>2, <1>3, <1>4, <1>5, CountedStep

LEMMA CStep == Punctual /\ Prompt /\ IInv /\ Counted /\ [Next]_vars => Counted'
<1> SUFFICES ASSUME Punctual, Prompt, IInv, Counted, [Next]_vars
             PROVE  Counted'
  OBVIOUS
<1>1. CASE Tick
  BY <1>1, CTick
<1>2. ASSUME NEW s \in Streams, Lose(s)
      PROVE  Counted'
  BY <1>2, CLose
<1>3. CASE Main
  BY <1>3, CReceive, CScan DEF Main
<1>4. CASE Outstation
  BY <1>4, COutstation
<1>5. CASE UNCHANGED vars
  BY <1>5 DEF Counted, Scanned, Missing, Gone, vars, inputs, mainVars, dnpVars
<1>6. QED
  BY <1>1, <1>2, <1>3, <1>4, <1>5 DEF Next

\* If all packets are in time, a lost packet costs at most one scan, and nothing else
\* costs any: for any streams, losses and commands, unless a 16-bit command for an index
\* out of range has ended all scans.
THEOREM OnlyLossesCostScans == Punctual /\ Prompt => (Spec => []LossCostsOneScan)
<1> SUFFICES ASSUME Punctual, Prompt
             PROVE  Spec => []LossCostsOneScan
  OBVIOUS
<1>1. ASSUME IInv, Counted
      PROVE  LossCostsOneScan
  <2> SUFFICES ASSUME ~outOfRange
               PROVE  Cycle(now - COMPUTE_OFFSET - 1) <= scans + lost + 1
    BY DEF LossCostsOneScan
  <2> DEFINE n == now - COMPUTE_OFFSET - 1
  <2>1. n \in Nat /\ now = n + 1 + COMPUTE_OFFSET /\ now \in Nat /\ scans \in Nat /\ lost \in Nat
    BY <1>1, Times DEF IInv, TInv, TypeOK, Packets
  <2> HIDE DEF n
  <2> DEFINE k == Cycle(n)
  <2>2. k \in Nat /\ n % CYCLE_TIME \in 0 .. CYCLE_TIME - 1 /\ n = k * CYCLE_TIME + (n % CYCLE_TIME)
    BY <2>1, Division, Zenon
  <2> HIDE DEF k
  <2>3. Compute(k) < now /\ now <= Compute(k + 1)
    <3>1. /\ Compute(k) = k * CYCLE_TIME + COMPUTE_OFFSET /\ k * CYCLE_TIME \in Nat
          /\ Compute(k + 1) = k * CYCLE_TIME + COMPUTE_OFFSET + CYCLE_TIME
      BY <2>2, ComputeType, Product
    <3>2. QED
      BY <2>1, <2>2, <3>1, Times
  <2>4. k <= scans + lost + 1
    <3>1. CASE k = 0
      BY <2>1, <3>1
    <3>2. CASE k # 0
      BY <1>1, <2>2, <2>3, <3>2 DEF Counted
    <3>3. QED
      BY <3>1, <3>2
  <2>5. QED
    BY <2>4 DEF k, n
<1>2. Punctual /\ Prompt /\ IInv /\ Counted /\ [Next]_vars => (IInv /\ Counted)'
  BY IStep, CStep
<1>3. (IInv /\ Counted) /\ [Next]_vars => (IInv /\ Counted)'
  BY <1>2
<1>4. Init => IInv /\ Counted
  BY IInit, CInit
<1>5. IInv /\ Counted => LossCostsOneScan
  BY <1>1
<1>6. QED
  BY <1>3, <1>4, <1>5, PTL DEF Spec
===============================================================================
