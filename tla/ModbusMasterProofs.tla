-------------------------- MODULE ModbusMasterProofs --------------------------
(***************************************************************************)
(* Proofs about ModbusMaster, for every configuration whose registers fit  *)
(* into the buffers.                                                       *)
(***************************************************************************)
EXTENDS ModbusMaster, SequenceTheorems, WellFoundedInduction, NaturalsInduction, TLAPS

(***************************************************************************)
(* The inductive invariant                                                 *)
(***************************************************************************)
\* The place of a kind in the order of the transfers.
Place(k) == After(k) - 1

\* Slots of device d for the kinds in front of place i, and the counters there.
Within(d, i) ==
  [bool_input  |-> IF i > 1 THEN Size[d]["di"] ELSE 0,
   bool_output |-> IF i > 2 THEN Size[d]["coils"] ELSE 0,
   int_input   |-> (IF i > 3 THEN Size[d]["ir"] ELSE 0)
                   + (IF i > 4 THEN Size[d]["hrRead"] ELSE 0),
   int_output  |-> IF i > 5 THEN Size[d]["hrWrite"] ELSE 0]
Reached(d, i) == [b \in Buffers |-> SlotsBefore[d][b] + Within(d, i)[b]]

Reading == pc \in {"request", "lock", "copy"} /\ kind \in Reads
Writing == pc \in {"lock", "copy", "send"} /\ kind \in Kinds \ Reads

\* Slots of the transfer that are counted already.
Progress ==
  IF pc = "request" THEN 0
  ELSE IF kind \in Reads THEN Size[dev][kind] - Len(tempBuff) ELSE Len(tempBuff)

\* The control point and the counters agree: they are those of the configuration.
Position ==
  \/ pc = "device" /\ kind = Null /\ index = SlotsBefore[dev]
  \/ /\ Reading \/ Writing
     /\ index = Advance(Reached(dev, Place(kind)), kind, Progress)

\* The slave that mb_ctx addresses is the device of the transfer.
Addressed ==
  /\ \A d \in Devices : Sharing(d) = {} => slave[Port[d]] = d
  /\ pc # "device" => slave[Port[dev]] = dev

\* Each thread holds ioLock just where it copies.
Locked ==
  /\ ioLock = "main" <=> mainPc \in {"in", "out"}
  /\ ioLock = "poll" <=> pc = "copy"

\* What is left of an answer: its last values, in order.
ReadBuff ==
  Reading /\ pc # "request" =>
    /\ tempBuff \in Seq(Values) /\ Len(tempBuff) <= Size[dev][kind]
    /\ pc = "lock" => Len(tempBuff) = Size[dev][kind]
    /\ \A j \in 1 .. Len(tempBuff) :
         tempBuff[j] = [dev |-> dev, kind |-> kind,
                        place |-> Size[dev][kind] - Len(tempBuff) + j,
                        parity |-> answers[dev][kind]]

\* The message so far: the first slots of its kind, all of one scan.
WriteBuff ==
  Writing =>
    /\ tempBuff \in Seq(Outputs) /\ Len(tempBuff) <= Size[dev][kind]
    /\ pc = "lock" => Len(tempBuff) = 0
    /\ pc = "send" => Len(tempBuff) = Size[dev][kind]
    /\ \A j \in 1 .. Len(tempBuff) :
         /\ tempBuff[j].slot = FirstSlot(dev, kind) + j - 1
         /\ tempBuff[j].scan = tempBuff[1].scan
         /\ pc = "copy" => tempBuff[j].scan = output[BufferOf[kind]][tempBuff[j].slot]

\* Outside the section of main that fills them, the outputs are those of one scan.
OutputOfOneScan ==
  /\ mainPc # "out" =>
       \A b \in DOMAIN output : \A s, t \in Slots : output[b][s] = output[b][t]
  /\ mainPc = "out" => \A b \in DOMAIN output : \A s \in 0 .. at - 1 : output[b][s] = scan

Belongs(b, s, v) ==
  /\ BufferOf[v.kind] = b /\ v.place \in 1 .. Size[v.dev][v.kind]
  /\ s = FirstSlot(v.dev, v.kind) + v.place - 1

SlotsBelong ==
  \A b \in DOMAIN input : \A s \in Slots :
    input[b][s] # Null => Belongs(b, s, input[b][s])

Copying(v) == pc = "copy" /\ kind \in Reads /\ v.dev = dev /\ v.kind = kind

\* Values of one device and kind that are not being replaced are of one answer.
Settled ==
  \A b \in DOMAIN input : \A s, t \in Slots :
    LET v == input[b][s]
        w == input[b][t] IN
    v # Null /\ w # Null /\ v.dev = w.dev /\ v.kind = w.kind /\ ~Copying(v)
      => v.parity = w.parity

\* Of those being replaced, the places already copied are of the present answer.
Replaced ==
  \A b \in DOMAIN input : \A s \in Slots :
    LET v == input[b][s] IN
    v # Null /\ Copying(v) /\ v.place <= Progress => v.parity = answers[dev][kind]

OneAnswer(f) ==
  \A b \in DOMAIN f : \A s, t \in Slots :
    LET v == f[b][s]
        w == f[b][t] IN
    v # Null /\ w # Null /\ v.dev = w.dev /\ v.kind = w.kind => v.parity = w.parity

\* Inside its section main has copied the slots up to at, outside it all of one state.
Imaged ==
  IF mainPc = "in"
    THEN \A b \in DOMAIN image : \A s \in 0 .. at - 1 : image[b][s] = input[b][s]
    ELSE OneAnswer(image)

IInv == /\ TypeOK /\ Position /\ Addressed /\ Locked /\ ReadBuff /\ WriteBuff
        /\ OutputOfOneScan /\ SlotsBelong /\ Settled /\ Replaced /\ Imaged
        /\ MessageIsOneScan

-------------------------------------------------------------------------------
(***************************************************************************)
(* The slots of the configuration                                          *)
(***************************************************************************)
\* What holds of 0 and of every successor holds of every natural number.
LEMMA Induction ==
    ASSUME NEW S, 0 \in S, \A n \in Nat : n \in S => n + 1 \in S
    PROVE  Nat \subseteq S
<1> SUFFICES ASSUME Nat \ S # {}
             PROVE  FALSE
  OBVIOUS
<1>1. Nat \ S \in SUBSET Nat
  OBVIOUS
<1>2. \E x \in Nat \ S : \A y \in Nat \ S : ~(<<y, x>> \in OpToRel(<, Nat))
  BY <1>1, NatLessThanWellFounded, WFMin
<1>3. PICK x \in Nat \ S : \A y \in Nat \ S : ~(<<y, x>> \in OpToRel(<, Nat))
  BY <1>2
<1>4. x - 1 \in Nat /\ x - 1 < x /\ x = (x - 1) + 1
  <2>1. x \in Nat /\ x # 0
    BY <1>3
  <2>2. QED
    BY <2>1
<1>5. x - 1 \notin S
  BY <1>3, <1>4
<1>6. <<x - 1, x>> \in OpToRel(<, Nat)
  BY <1>3, <1>4 DEF OpToRel
<1>7. QED
  BY <1>3, <1>4, <1>5, <1>6, Zenon

\* The value of the recursive function SlotsBefore for one device.
Sum(f, d) == [b \in Buffers |-> IF d = 0 THEN 0 ELSE f[d - 1][b] + Needs(d - 1)[b]]

\* SlotsBefore is the function that its recursive definition describes.
LEMMA SlotsBeforeDef == \A d \in 0 .. NumDevices : SlotsBefore[d] = Sum(SlotsBefore, d)
<1> DEFINE S == {n \in Nat : \E f : f = [d \in 0 .. n |-> Sum(f, d)]}
<1>1. 0 \in S
  <2>1. [d \in 0 .. 0 |-> [b \in Buffers |-> 0]]
          = [d \in 0 .. 0 |-> Sum([e \in 0 .. 0 |-> [b \in Buffers |-> 0]], d)]
    BY DEF Sum
  <2>2. QED
    BY <2>1
<1>2. ASSUME NEW n \in Nat, n \in S
      PROVE  n + 1 \in S
  <2>1. PICK g : g = [d \in 0 .. n |-> Sum(g, d)]
    BY <1>2
  <2> DEFINE f == [d \in 0 .. n + 1 |-> IF d = n + 1 THEN Sum(g, d) ELSE g[d]]
  <2>2. ASSUME NEW d \in 0 .. n + 1
        PROVE  f[d] = Sum(f, d)
    <3>1. CASE d = 0
      BY <2>1, <3>1 DEF Sum
    <3>2. CASE d # 0
      <4>1. d - 1 \in 0 .. n /\ d - 1 # n + 1
        BY <3>2
      <4>2. f[d - 1] = g[d - 1]
        BY <4>1
      <4>3. Sum(f, d) = Sum(g, d)
        BY <4>2 DEF Sum
      <4>4. f[d] = Sum(g, d)
        BY <2>1
      <4>5. QED
        BY <4>3, <4>4
    <3>3. QED
      BY <3>1, <3>2
  <2>3. f = [d \in 0 .. n + 1 |-> Sum(f, d)]
    <3> HIDE DEF Sum
    <3>1. f = [d \in 0 .. n + 1 |-> f[d]]
      OBVIOUS
    <3>2. QED
      BY <2>2, <3>1
  <2>4. \E h : h = [d \in 0 .. n + 1 |-> Sum(h, d)]
    <3> HIDE DEF f, Sum
    <3>1. QED
      BY <2>3
  <2>5. QED
    BY <2>4
<1>3. NumDevices \in S
  <2> HIDE DEF S
  <2>1. QED
    BY <1>1, <1>2, Induction, DevicesAssumption
<1>4. SlotsBefore = CHOOSE f : f = [d \in 0 .. NumDevices |-> Sum(f, d)]
  BY DEF SlotsBefore, Sum
<1>5. SlotsBefore = [d \in 0 .. NumDevices |-> Sum(SlotsBefore, d)]
  BY <1>3, <1>4
<1>6. QED
  BY <1>5

LEMMA SizeIsNat == \A d \in Devices : \A k \in Kinds : Size[d][k] \in Nat
  BY DevicesAssumption

LEMMA NeedsType == \A d \in Devices : \A b \in Buffers : Needs(d)[b] \in Nat
  BY SizeIsNat DEF Needs, Buffers, Kinds

LEMMA SlotsBeforeType == \A d \in 0 .. NumDevices : SlotsBefore[d] \in [Buffers -> Nat]
<1> DEFINE S == {n \in Nat : n <= NumDevices => SlotsBefore[n] \in [Buffers -> Nat]}
<1>1. 0 \in S
  <2>1. 0 \in 0 .. NumDevices
    BY DevicesAssumption
  <2>2. SlotsBefore[0] = [b \in Buffers |-> 0]
    BY <2>1, SlotsBeforeDef DEF Sum
  <2>3. QED
    BY <2>2
<1>2. ASSUME NEW n \in Nat, n \in S
      PROVE  n + 1 \in S
  <2> SUFFICES ASSUME n + 1 <= NumDevices
               PROVE  SlotsBefore[n + 1] \in [Buffers -> Nat]
    OBVIOUS
  <2>1. n \in Devices /\ n + 1 \in 0 .. NumDevices /\ (n + 1) - 1 = n
    BY DevicesAssumption DEF Devices
  <2>2. SlotsBefore[n] \in [Buffers -> Nat]
    BY <1>2, <2>1, DevicesAssumption
  <2>3. SlotsBefore[n + 1] = [b \in Buffers |-> SlotsBefore[n][b] + Needs(n)[b]]
    BY <2>1, SlotsBeforeDef DEF Sum
  <2>4. QED
    BY <2>1, <2>2, <2>3, NeedsType
<1>3. Nat \subseteq S
  <2> HIDE DEF S
  <2>1. QED
    BY <1>1, <1>2, Induction
<1>4. QED
  BY <1>3, DevicesAssumption

LEMMA NextSlotsBefore ==
    ASSUME NEW d \in Devices
    PROVE  SlotsBefore[d + 1] = [b \in Buffers |-> SlotsBefore[d][b] + Needs(d)[b]]
<1>1. d + 1 \in 0 .. NumDevices /\ (d + 1) - 1 = d /\ d + 1 # 0
  BY DevicesAssumption DEF Devices
<1>2. QED
  BY <1>1, SlotsBeforeDef DEF Sum

\* The slots in front of a device end where the buffers end, or before.
LEMMA SlotsFit == \A d \in 0 .. NumDevices : \A b \in Buffers : SlotsBefore[d][b] <= MaxIO
<1> SUFFICES ASSUME NEW b \in Buffers
             PROVE  \A d \in 0 .. NumDevices : SlotsBefore[d][b] <= MaxIO
  OBVIOUS
<1> DEFINE S == {n \in Nat : n <= NumDevices => SlotsBefore[NumDevices - n][b] <= MaxIO}
<1>1. 0 \in S
  BY FitsAssumption, DevicesAssumption
<1>2. ASSUME NEW n \in Nat, n \in S
      PROVE  n + 1 \in S
  <2> SUFFICES ASSUME n + 1 <= NumDevices
               PROVE  SlotsBefore[NumDevices - (n + 1)][b] <= MaxIO
    OBVIOUS
  <2> DEFINE d == NumDevices - (n + 1)
  <2>1. d \in Devices /\ d \in 0 .. NumDevices /\ d + 1 = NumDevices - n
        /\ d + 1 \in 0 .. NumDevices
    BY DevicesAssumption DEF Devices
  <2>2. SlotsBefore[d + 1][b] <= MaxIO
    BY <1>2, <2>1, DevicesAssumption
  <2> HIDE DEF d
  <2>3. SlotsBefore[d + 1][b] = SlotsBefore[d][b] + Needs(d)[b]
    BY <2>1, NextSlotsBefore
  <2>4. SlotsBefore[d][b] \in Nat /\ Needs(d)[b] \in Nat /\ MaxIO \in Nat
    BY <2>1, SlotsBeforeType, NeedsType, BoundsAssumption
  <2>5. SlotsBefore[d][b] <= MaxIO
    BY <2>2, <2>3, <2>4
  <2>6. QED
    BY <2>5 DEF d
<1>3. Nat \subseteq S
  <2> HIDE DEF S
  <2>1. QED
    BY <1>1, <1>2, Induction
<1>4. ASSUME NEW d \in 0 .. NumDevices
      PROVE  SlotsBefore[d][b] <= MaxIO
  <2>1. NumDevices - d \in Nat /\ NumDevices - d <= NumDevices
        /\ NumDevices - (NumDevices - d) = d
    BY DevicesAssumption
  <2>2. QED
    BY <1>3, <2>1
<1>5. QED
  BY <1>4

LEMMA PlaceOfKind ==
    /\ Place("di") = 1 /\ Place("coils") = 2 /\ Place("ir") = 3
    /\ Place("hrRead") = 4 /\ Place("hrWrite") = 5
    /\ \A k \in Kinds : After(k) = Place(k) + 1
<1>1. Len(Order) = 5 /\ Order = <<"di", "coils", "ir", "hrRead", "hrWrite">>
  BY DEF Order
<1>2. After("di") = 2
  BY <1>1 DEF After
<1>3. After("coils") = 3
  BY <1>1 DEF After
<1>4. After("ir") = 4
  BY <1>1 DEF After
<1>5. After("hrRead") = 5
  BY <1>1 DEF After
<1>6. After("hrWrite") = 6
  BY <1>1 DEF After
<1>7. QED
  BY <1>2, <1>3, <1>4, <1>5, <1>6 DEF Place, Kinds

LEMMA WithinType ==
    ASSUME NEW d \in Devices, NEW i \in Nat, NEW b \in Buffers
    PROVE  Within(d, i)[b] \in Nat
  BY SizeIsNat DEF Within, Buffers, Kinds

LEMMA DeviceInRange == \A d \in Devices : d \in 0 .. NumDevices /\ d + 1 \in 0 .. NumDevices
  BY DevicesAssumption DEF Devices

LEMMA ReachedType ==
    ASSUME NEW d \in Devices, NEW i \in Nat
    PROVE  Reached(d, i) \in [Buffers -> Nat]
<1>1. SlotsBefore[d] \in [Buffers -> Nat]
  BY DeviceInRange, SlotsBeforeType
<1>2. QED
  BY <1>1, WithinType DEF Reached

\* In front of the first kind the counters are those of the device, and behind
\* the last one those of the next device.
LEMMA ReachedEnds ==
    ASSUME NEW d \in Devices
    PROVE  Reached(d, 1) = SlotsBefore[d] /\ Reached(d, 6) = SlotsBefore[d + 1]
<1>1. SlotsBefore[d] \in [Buffers -> Nat]
  BY DeviceInRange, SlotsBeforeType
<1>2. \A b \in Buffers : Within(d, 1)[b] = 0
  BY DEF Within, Buffers
<1>3. \A b \in Buffers : Within(d, 6)[b] = Needs(d)[b]
  BY SizeIsNat DEF Within, Needs, Buffers, Kinds
<1>4. Reached(d, 1) = SlotsBefore[d]
  BY <1>1, <1>2 DEF Reached
<1>5. QED
  BY <1>3, <1>4, NextSlotsBefore DEF Reached

\* A transfer that counts all its slots goes on to the next kind.
LEMMA ReachedAfter ==
    ASSUME NEW d \in Devices, NEW k \in Kinds
    PROVE  /\ Reached(d, Place(k))[BufferOf[k]] = FirstSlot(d, k)
           /\ FirstSlot(d, k) \in Nat /\ FirstSlot(d, k) + Size[d][k] <= MaxIO
           /\ Advance(Reached(d, Place(k)), k, Size[d][k]) = Reached(d, After(k))
<1>1. SlotsBefore[d] \in [Buffers -> Nat] /\ BufferOf[k] \in Buffers
  BY DeviceInRange, SlotsBeforeType DEF Kinds, BufferOf, Buffers
<1>2. Size[d]["di"] \in Nat /\ Size[d]["coils"] \in Nat /\ Size[d]["ir"] \in Nat
      /\ Size[d]["hrRead"] \in Nat /\ Size[d]["hrWrite"] \in Nat
  BY SizeIsNat DEF Kinds
<1>3. /\ Within(d, Place(k))[BufferOf[k]] = IF k = "hrRead" THEN Size[d]["ir"] ELSE 0
      /\ Within(d, After(k))[BufferOf[k]] = Within(d, Place(k))[BufferOf[k]] + Size[d][k]
      /\ Within(d, After(k))[BufferOf[k]] <= Needs(d)[BufferOf[k]]
      /\ \A b \in Buffers \ {BufferOf[k]} : Within(d, After(k))[b] = Within(d, Place(k))[b]
  <2>1. CASE k = "di"
    BY <1>2, <2>1, PlaceOfKind DEF Within, Needs, BufferOf, Buffers, Kinds
  <2>2. CASE k = "coils"
    BY <1>2, <2>2, PlaceOfKind DEF Within, Needs, BufferOf, Buffers, Kinds
  <2>3. CASE k = "ir"
    BY <1>2, <2>3, PlaceOfKind DEF Within, Needs, BufferOf, Buffers, Kinds
  <2>4. CASE k = "hrRead"
    BY <1>2, <2>4, PlaceOfKind DEF Within, Needs, BufferOf, Buffers, Kinds
  <2>5. CASE k = "hrWrite"
    BY <1>2, <2>5, PlaceOfKind DEF Within, Needs, BufferOf, Buffers, Kinds
  <2>6. QED
    BY <2>1, <2>2, <2>3, <2>4, <2>5 DEF Kinds
<1>4. Reached(d, Place(k))[BufferOf[k]] = FirstSlot(d, k)
  BY <1>1, <1>3 DEF Reached, FirstSlot
<1>5. Place(k) \in Nat /\ After(k) \in Nat /\ Size[d][k] \in Nat
  BY PlaceOfKind, SizeIsNat DEF Kinds
<1>6. FirstSlot(d, k) \in Nat
  BY <1>1, <1>4, <1>5, ReachedType
<1>7. FirstSlot(d, k) + Size[d][k] <= MaxIO
  <2>1. SlotsBefore[d + 1][BufferOf[k]] <= MaxIO
    BY <1>1, DeviceInRange, SlotsFit
  <2>2. SlotsBefore[d + 1][BufferOf[k]] = SlotsBefore[d][BufferOf[k]] + Needs(d)[BufferOf[k]]
    BY <1>1, NextSlotsBefore
  <2>3. FirstSlot(d, k) + Size[d][k] = SlotsBefore[d][BufferOf[k]] + Within(d, After(k))[BufferOf[k]]
    <3>1. FirstSlot(d, k) = SlotsBefore[d][BufferOf[k]] + Within(d, Place(k))[BufferOf[k]]
      BY <1>1, <1>4 DEF Reached
    <3>2. QED
      BY <1>1, <1>3, <1>5, <3>1, WithinType
  <2>4. QED
    BY <1>1, <1>3, <1>5, <2>1, <2>2, <2>3, WithinType, NeedsType, BoundsAssumption
<1>8. Advance(Reached(d, Place(k)), k, Size[d][k]) = Reached(d, After(k))
  BY <1>1, <1>3, <1>5, WithinType DEF Advance, Reached
<1>9. QED
  BY <1>4, <1>6, <1>7, <1>8

\* The lowest number of a set of numbers is one of them.
LEMMA MinIsMember ==
    ASSUME NEW S \in SUBSET Nat, S # {}
    PROVE  Min(S) \in S /\ \A y \in S : Min(S) <= y
<1>1. \E x \in S : \A y \in S : ~(<<y, x>> \in OpToRel(<, Nat))
  BY NatLessThanWellFounded, WFMin
<1>2. PICK x \in S : \A y \in S : ~(<<y, x>> \in OpToRel(<, Nat))
  BY <1>1
<1>3. ASSUME NEW y \in S
      PROVE  x <= y
  <2>1. x \in Nat /\ y \in Nat /\ <<y, x>> \in Nat \X Nat
    OBVIOUS
  <2>2. y < x => <<y, x>> \in OpToRel(<, Nat)
    BY <2>1 DEF OpToRel
  <2>3. ~(y < x)
    BY <1>2, <2>2, Zenon
  <2>4. QED
    BY <2>1, <2>3
<1>4. QED
  BY <1>3 DEF Min

LEMMA MaxIsMember ==
    ASSUME NEW S \in SUBSET Devices, S # {}
    PROVE  Max(S) \in S
<1> DEFINE T == {n \in Nat : n <= NumDevices /\ NumDevices - n \in S}
<1>1. \A x \in S : x \in Nat /\ x <= NumDevices /\ NumDevices - x \in T
                   /\ NumDevices - (NumDevices - x) = x
  BY DevicesAssumption DEF Devices
<1>2. T \in SUBSET Nat /\ T # {}
  BY <1>1
<1>3. Min(T) \in T /\ \A y \in T : Min(T) <= y
  BY <1>2, MinIsMember
<1>4. NumDevices - Min(T) \in S
  BY <1>3
<1>5. ASSUME NEW x \in S
      PROVE  x <= NumDevices - Min(T)
  <2>1. Min(T) <= NumDevices - x /\ Min(T) \in Nat
    BY <1>1, <1>3
  <2> HIDE DEF T
  <2>2. QED
    BY <1>1, <2>1, DevicesAssumption
<1>6. QED
  BY <1>4, <1>5 DEF Max

\* The next kind is the first of those left that has registers; those passed over
\* have none, and move no counter.
LEMMA NextKindIsReached ==
    ASSUME NEW d \in Devices, NEW i \in 1 .. 6
    PROVE  \/ NextKind(d, i) = Null /\ Reached(d, i) = Reached(d, 6)
           \/ NextKind(d, i) \in Kinds /\ Reached(d, i) = Reached(d, Place(NextKind(d, i)))
<1> DEFINE used == {j \in i .. Len(Order) : Size[d][Order[j]] # 0}
<1>1. Len(Order) = 5 /\ Order[1] = "di" /\ Order[2] = "coils" /\ Order[3] = "ir"
      /\ Order[4] = "hrRead" /\ Order[5] = "hrWrite"
  BY DEF Order
<1>2. \A j \in 1 .. 5 : Order[j] \in Kinds /\ Place(Order[j]) = j
  BY <1>1, PlaceOfKind DEF Kinds
<1>3. ASSUME NEW j \in 1 .. 6, i <= j, \A n \in i .. j - 1 : Size[d][Order[n]] = 0
      PROVE  Reached(d, i) = Reached(d, j)
  <2>1. \A b \in Buffers : Within(d, i)[b] = Within(d, j)[b]
    BY <1>1, <1>3, SizeIsNat DEF Within, Buffers, Kinds
  <2>2. QED
    BY <2>1 DEF Reached
<1>4. CASE used = {}
  <2>1. NextKind(d, i) = Null
    BY <1>4 DEF NextKind
  <2>2. \A n \in i .. 6 - 1 : Size[d][Order[n]] = 0
    BY <1>1, <1>4
  <2>3. Reached(d, i) = Reached(d, 6)
    BY <1>3, <2>2
  <2>4. QED
    BY <2>1, <2>3
<1>5. CASE used # {}
  <2>1. used \in SUBSET Nat
    BY <1>1
  <2>2. Min(used) \in used /\ \A y \in used : Min(used) <= y
    BY <1>5, <2>1, MinIsMember
  <2>3. NextKind(d, i) = Order[Min(used)]
    BY <1>5 DEF NextKind
  <2>4. PICK m \in 1 .. 5 : m = Min(used) /\ i <= m
    BY <1>1, <2>2
  <2>5. \A n \in i .. m - 1 : Size[d][Order[n]] = 0
    BY <1>1, <2>2, <2>4
  <2>6. Reached(d, i) = Reached(d, m)
    BY <1>3, <2>4, <2>5
  <2>7. QED
    BY <1>2, <2>3, <2>4, <2>6
<1>6. QED
  BY <1>4, <1>5

\* The counters of a transfer stay within the buffers.
LEMMA AdvanceType ==
    ASSUME NEW d \in Devices, NEW k \in Kinds, NEW n \in 0 .. Size[d][k]
    PROVE  Advance(Reached(d, Place(k)), k, n) \in [Buffers -> 0 .. MaxIO]
<1>1. Place(k) \in Nat /\ After(k) \in Nat /\ After(k) = Place(k) + 1 /\ BufferOf[k] \in Buffers
  BY PlaceOfKind DEF Kinds, BufferOf, Buffers
<1>2. /\ Reached(d, Place(k)) \in [Buffers -> Nat] /\ Reached(d, After(k)) \in [Buffers -> Nat]
      /\ Reached(d, 6) \in [Buffers -> Nat]
  BY <1>1, ReachedType
<1>3. \A b \in Buffers : Within(d, Place(k))[b] <= Within(d, 6)[b]
  BY PlaceOfKind, SizeIsNat DEF Within, Buffers, Kinds
<1>4. \A b \in Buffers : Reached(d, Place(k))[b] <= Reached(d, 6)[b]
  <2>1. SlotsBefore[d] \in [Buffers -> Nat]
    BY DeviceInRange, SlotsBeforeType
  <2>2. QED
    BY <1>1, <1>3, <2>1, WithinType DEF Reached
<1>5. \A b \in Buffers : Reached(d, 6)[b] <= MaxIO
  BY ReachedEnds, DeviceInRange, SlotsFit
<1>6. \A b \in Buffers : Reached(d, Place(k))[b] \in 0 .. MaxIO
  BY <1>2, <1>4, <1>5, BoundsAssumption
<1>7. Reached(d, Place(k))[BufferOf[k]] + n \in 0 .. MaxIO
  BY <1>1, <1>2, ReachedAfter, SizeIsNat, BoundsAssumption
<1>8. QED
  BY <1>2, <1>6, <1>7 DEF Advance

LEMMA AdvanceTwice ==
    ASSUME NEW d \in Devices, NEW k \in Kinds, NEW m \in Nat, NEW n \in Nat
    PROVE  Advance(Advance(Reached(d, Place(k)), k, m), k, n)
             = Advance(Reached(d, Place(k)), k, m + n)
<1>1. Place(k) \in Nat /\ BufferOf[k] \in Buffers
  BY PlaceOfKind DEF Kinds, BufferOf, Buffers
<1>2. Reached(d, Place(k)) \in [Buffers -> Nat]
  BY <1>1, ReachedType
<1>3. ASSUME NEW f \in [Buffers -> Nat], NEW b \in Buffers
      PROVE  [[f EXCEPT ![b] = @ + m] EXCEPT ![b] = @ + n] = [f EXCEPT ![b] = @ + (m + n)]
  <2>1. (f[b] + m) + n = f[b] + (m + n)
    OBVIOUS
  <2>2. QED
    BY <2>1, Zenon
<1>4. QED
  BY <1>1, <1>2, <1>3 DEF Advance

LEMMA AdvanceNone ==
    ASSUME NEW d \in Devices, NEW k \in Kinds
    PROVE  Advance(Reached(d, Place(k)), k, 0) = Reached(d, Place(k))
<1>1. Place(k) \in Nat /\ BufferOf[k] \in Buffers
  BY PlaceOfKind DEF Kinds, BufferOf, Buffers
<1>2. Reached(d, Place(k)) \in [Buffers -> Nat]
  BY <1>1, ReachedType
<1>3. QED
  BY <1>1, <1>2 DEF Advance

-------------------------------------------------------------------------------
(***************************************************************************)
(* The thread: its control point, its counters and tempBuff                *)
(***************************************************************************)
\* What holds of the thread when it starts a transfer or a device.
Started == Position /\ ReadBuff /\ WriteBuff /\ dev \in Devices /\ tempBuff = <<>>
           /\ pc \in {"device", "request", "lock"} /\ kind \in Kinds \union {Null}

LEMMA Remainder ==
    ASSUME NEW n \in Nat \ {0}
    PROVE  n % n = 0 /\ \A m \in 0 .. n - 1 : m % n = m
  OBVIOUS

LEMMA NextDeviceStarts ==
    ASSUME dev \in Devices, NEW idx, idx = SlotsBefore[dev + 1], NextDevice(idx)
    PROVE  Started' /\ pc' = "device"
<1>1. pc' = "device" /\ kind' = Null /\ tempBuff' = <<>>
  BY DEF NextDevice
<1>2. dev' \in Devices /\ index' = SlotsBefore[dev']
  <2>1. CASE dev + 1 = NumDevices
    <3>1. dev' = 0
      BY <2>1, DevicesAssumption, Remainder DEF NextDevice
    <3>2. SlotsBefore[0] = Zero
      <4>1. 0 \in 0 .. NumDevices
        BY DevicesAssumption
      <4>2. QED
        BY <4>1, SlotsBeforeDef DEF Sum, Zero
    <3>3. QED
      BY <2>1, <3>1, <3>2, DevicesAssumption DEF NextDevice, Devices
  <2>2. CASE dev + 1 # NumDevices
    <3>1. dev + 1 \in 0 .. NumDevices - 1
      BY <2>2, DevicesAssumption DEF Devices
    <3>2. dev' = dev + 1
      BY <3>1, DevicesAssumption, Remainder DEF NextDevice
    <3>3. QED
      BY <2>2, <3>1, <3>2 DEF NextDevice, Devices
  <2>3. QED
    BY <2>1, <2>2
<1>3. Position'
  BY <1>1, <1>2 DEF Position
<1>4. ReadBuff' /\ WriteBuff'
  BY <1>1 DEF ReadBuff, WriteBuff, Reading, Writing
<1>5. QED
  BY <1>1, <1>2, <1>3, <1>4 DEF Started

LEMMA TransferStarts ==
    ASSUME dev \in Devices, NEW i \in 1 .. 6, NEW idx, idx = Reached(dev, i), Transfer(i, idx)
    PROVE  Started' /\ (pc' # "device" => dev' = dev)
<1>1. CASE NextKind(dev, i) = Null
  <2>1. idx = SlotsBefore[dev + 1]
    BY <1>1, NextKindIsReached, ReachedEnds, NullAssumption
  <2>2. QED
    BY <1>1, <2>1, NextDeviceStarts DEF Transfer
<1>2. CASE NextKind(dev, i) # Null
  <2> DEFINE k == NextKind(dev, i)
  <2>1. k \in Kinds /\ idx = Reached(dev, Place(k))
    BY <1>2, NextKindIsReached
  <2>2. kind' = k /\ index' = idx /\ tempBuff' = <<>> /\ dev' = dev
        /\ pc' = IF k \in Reads THEN "request" ELSE "lock"
    BY <1>2 DEF Transfer
  <2> HIDE DEF k
  <2>3. Progress' = 0
    BY <2>1, <2>2 DEF Progress
  <2>4. (Reading' \/ Writing') /\ ~(Reading' /\ pc' # "request")
    <3>1. CASE k \in Reads
      <4>1. kind' \in Reads /\ pc' = "request"
        BY <2>2, <3>1
      <4>2. QED
        BY <4>1 DEF Reading
    <3>2. CASE k \notin Reads
      <4>1. kind' \in Kinds \ Reads /\ pc' = "lock"
        BY <2>1, <2>2, <3>2
      <4>2. QED
        BY <4>1 DEF Reading, Writing
    <3>3. QED
      BY <3>1, <3>2
  <2>5. Position'
    BY <2>1, <2>2, <2>3, <2>4, AdvanceNone DEF Position
  <2>6. Len(<<>>) = 0 /\ Size[dev][k] \in Nat /\ <<>> \in Seq(Outputs)
    BY <2>1, SizeIsNat
  <2>7. WriteBuff'
    <3>1. \A j \in 1 .. Len(<<>>) : FALSE
      BY <2>6
    <3>2. pc' # "send"
      BY <2>2
    <3>3. QED
      BY <2>2, <2>6, <3>1, <3>2 DEF WriteBuff
  <2>8. ReadBuff'
    BY <2>4 DEF ReadBuff
  <2>9. QED
    BY <2>1, <2>2, <2>5, <2>7, <2>8 DEF Started
<1>3. QED
  BY <1>1, <1>2

\* A transfer whose slots are all counted leads to the next one.
LEMMA TransferEnds ==
    ASSUME TypeOK, Position, pc # "device", Progress = Size[dev][kind],
           Transfer(After(kind), index)
    PROVE  Started' /\ (pc' # "device" => dev' = dev)
<1>1. kind \in Kinds /\ index = Advance(Reached(dev, Place(kind)), kind, Size[dev][kind])
      /\ dev \in Devices
  BY DEF Position, Reading, Writing, Reads, Kinds, TypeOK
<1>2. index = Reached(dev, After(kind)) /\ After(kind) \in 1 .. 6
  BY <1>1, ReachedAfter, PlaceOfKind DEF Kinds
<1>3. QED
  BY <1>1, <1>2, TransferStarts

Thread == Position /\ ReadBuff /\ WriteBuff

LEMMA ThreadKind ==
    ASSUME TypeOK, Thread, pc # "device"
    PROVE  /\ kind \in Kinds /\ dev \in Devices /\ Size[dev][kind] \in Nat
           /\ BufferOf[kind] \in Buffers /\ (Reading \/ Writing)
           /\ index = Advance(Reached(dev, Place(kind)), kind, Progress)
           /\ Progress \in 0 .. Size[dev][kind]
           /\ index[BufferOf[kind]] = FirstSlot(dev, kind) + Progress
<1>1. kind \in Kinds /\ dev \in Devices /\ (Reading \/ Writing)
      /\ index = Advance(Reached(dev, Place(kind)), kind, Progress)
  BY DEF Position, Reading, Writing, Reads, Kinds, TypeOK, Thread
<1>2. Size[dev][kind] \in Nat /\ BufferOf[kind] \in Buffers
  BY <1>1, SizeIsNat DEF Kinds, BufferOf, Buffers
<1>3. Progress \in 0 .. Size[dev][kind]
  <2>1. CASE pc = "request"
    BY <1>2, <2>1 DEF Progress
  <2>2. CASE pc # "request" /\ kind \in Reads
    <3>1. Len(tempBuff) \in 0 .. Size[dev][kind]
      BY <1>1, <1>2, <2>2, LenProperties DEF ReadBuff, Reading, Writing, Thread
    <3>2. QED
      BY <1>2, <2>2, <3>1 DEF Progress
  <2>3. CASE pc # "request" /\ kind \notin Reads
    <3>1. Len(tempBuff) \in 0 .. Size[dev][kind]
      BY <1>1, <1>2, <2>3, LenProperties DEF WriteBuff, Reading, Writing, Thread
    <3>2. QED
      BY <2>3, <3>1 DEF Progress
  <2>4. QED
    BY <2>1, <2>2, <2>3
<1>4. index[BufferOf[kind]] = FirstSlot(dev, kind) + Progress
  <2>1. Place(kind) \in Nat
    BY <1>1, PlaceOfKind DEF Kinds
  <2>2. Reached(dev, Place(kind)) \in [Buffers -> Nat]
    BY <1>1, <2>1, ReachedType
  <2>3. QED
    BY <1>1, <1>2, <2>2, ReachedAfter DEF Advance
<1>5. QED
  BY <1>1, <1>2, <1>3, <1>4

LEMMA ConnectFailsStarts ==
    ASSUME TypeOK, Thread, ConnectFails
    PROVE  Started' /\ pc' = "device"
<1>1. pc = "device" /\ index = SlotsBefore[dev] /\ dev \in Devices
  BY DEF ConnectFails, Thread, Position, Reading, Writing, TypeOK
<1>2. SkipDevice = SlotsBefore[dev + 1]
  BY <1>1, NextSlotsBefore DEF SkipDevice
<1>3. QED
  BY <1>1, <1>2, NextDeviceStarts DEF ConnectFails

LEMMA StartDeviceStarts ==
    ASSUME TypeOK, Thread, StartDevice
    PROVE  Started' /\ (pc' # "device" => dev' = dev)
<1>1. index = SlotsBefore[dev] /\ dev \in Devices
  BY DEF StartDevice, Thread, Position, Reading, Writing, TypeOK
<1>2. index = Reached(dev, 1)
  BY <1>1, ReachedEnds
<1>3. QED
  BY <1>1, <1>2, TransferStarts DEF StartDevice

LEMMA ReadFailsStarts ==
    ASSUME TypeOK, Thread, ReadFails
    PROVE  Started' /\ (pc' # "device" => dev' = dev)
<1>1. pc = "request" /\ Transfer(After(kind), Advance(index, kind, Size[dev][kind]))
  BY DEF ReadFails
<1>2. /\ kind \in Kinds /\ dev \in Devices
      /\ index = Advance(Reached(dev, Place(kind)), kind, Progress) /\ Progress = 0
  BY <1>1, ThreadKind DEF Progress
<1>3. index = Reached(dev, Place(kind))
  BY <1>2, AdvanceNone
<1>4. Advance(index, kind, Size[dev][kind]) = Reached(dev, After(kind)) /\ After(kind) \in 1 .. 6
  BY <1>2, <1>3, ReachedAfter, PlaceOfKind DEF Kinds
<1>5. QED
  BY <1>1, <1>2, <1>4, TransferStarts

LEMMA PollUnlockStarts ==
    ASSUME TypeOK, Thread, PollUnlock, kind \in Reads
    PROVE  Started' /\ (pc' # "device" => dev' = dev) /\ Progress = Size[dev][kind]
<1>1. pc = "copy" /\ Len(tempBuff) = 0 /\ Transfer(After(kind), index)
  BY DEF PollUnlock
<1>2. Progress = Size[dev][kind]
  BY <1>1, ThreadKind DEF Progress
<1>3. QED
  BY <1>1, <1>2, TransferEnds DEF Thread

LEMMA WriteStarts ==
    ASSUME TypeOK, Thread, WriteFails \/ WriteArrives
    PROVE  Started' /\ (pc' # "device" => dev' = dev)
<1>1. pc = "send" /\ Transfer(After(kind), index)
  BY DEF WriteFails, WriteArrives
<1>2. Writing /\ Len(tempBuff) = Size[dev][kind]
  BY <1>1, ThreadKind DEF Thread, Reading, Writing, WriteBuff
<1>3. Progress = Size[dev][kind]
  BY <1>1, <1>2 DEF Progress, Writing
<1>4. QED
  BY <1>1, <1>3, TransferEnds DEF Thread

\* A table of tables with one entry replaced.
LEMMA Replacing ==
    ASSUME NEW A, NEW B, NEW C, NEW f \in [A -> [B -> C]], NEW a \in A, NEW b \in B, NEW v \in C
    PROVE  /\ [f EXCEPT ![a][b] = v] \in [A -> [B -> C]]
           /\ \A x \in A : \A y \in B :
                [f EXCEPT ![a][b] = v][x][y] = IF x = a /\ y = b THEN v ELSE f[x][y]
<1> DEFINE g == [f EXCEPT ![a][b] = v]
<1>1. g = [f EXCEPT ![a] = [f[a] EXCEPT ![b] = v]]
  OBVIOUS
<1>2. f[a] \in [B -> C] /\ [f[a] EXCEPT ![b] = v] \in [B -> C]
  OBVIOUS
<1>3. g \in [A -> [B -> C]] /\ \A x \in A \ {a} : g[x] = f[x]
  BY <1>1, <1>2
<1>4. g[a] = [f[a] EXCEPT ![b] = v]
  BY <1>1
<1> HIDE DEF g
<1>5. \A x \in A : \A y \in B : g[x][y] = IF x = a /\ y = b THEN v ELSE f[x][y]
  BY <1>2, <1>3, <1>4
<1>6. QED
  BY <1>3, <1>5 DEF g

\* An answer fills tempBuff with the values of the device of the transfer.
LEMMA ReadAnswersThread ==
    ASSUME TypeOK, Thread, Addressed, Reading, ReadAnswers
    PROVE  Thread' /\ tempBuff' \in Seq(Values) /\ answers' \in [Devices -> [Reads -> {0, 1}]]
<1>1. pc = "request" /\ pc' = "lock" /\ slave[Port[dev]] = dev /\ UNCHANGED <<dev, kind, index>>
  BY DEF ReadAnswers, Addressed
<1>2. kind \in Reads /\ kind \in Kinds /\ dev \in Devices /\ Size[dev][kind] \in Nat
  BY <1>1, ThreadKind DEF Reading
<1>3. answers' = [answers EXCEPT ![dev][kind] = 1 - @]
  BY <1>1 DEF ReadAnswers
<1>4. answers' \in [Devices -> [Reads -> {0, 1}]]
  <2>1. answers \in [Devices -> [Reads -> {0, 1}]]
    BY DEF TypeOK
  <2>2. 1 - answers[dev][kind] \in {0, 1}
    BY <1>2, <2>1
  <2>3. answers' = [answers EXCEPT ![dev][kind] = 1 - answers[dev][kind]]
    BY <1>3
  <2>4. QED
    BY <1>2, <2>1, <2>2, <2>3, Replacing
<1>5. tempBuff' = [j \in 1 .. Size[dev][kind] |->
                     [dev |-> dev, kind |-> kind, place |-> j, parity |-> answers'[dev][kind]]]
  BY <1>1 DEF ReadAnswers
<1>6. \A j \in 1 .. Size[dev][kind] :
        [dev |-> dev, kind |-> kind, place |-> j, parity |-> answers'[dev][kind]] \in Values
  BY <1>2, <1>4 DEF Values
<1>7. tempBuff' \in Seq(Values) /\ Len(tempBuff') = Size[dev][kind]
  BY <1>2, <1>5, <1>6
<1>8. ReadBuff'
  <2>1. \A j \in 1 .. Len(tempBuff') : Size[dev][kind] - Len(tempBuff') + j = j
    BY <1>2, <1>7
  <2>2. QED
    BY <1>1, <1>2, <1>5, <1>7, <2>1 DEF ReadBuff
<1>9. Reading' /\ ~Writing' /\ Progress' = 0
  BY <1>1, <1>2, <1>7 DEF Reading, Writing, Progress
<1>10. WriteBuff'
  BY <1>9 DEF WriteBuff
<1>11. Progress = 0
  BY <1>1 DEF Progress
<1>12. Position'
  BY <1>1, <1>9, <1>11, ThreadKind DEF Position
<1>13. QED
  BY <1>4, <1>7, <1>8, <1>10, <1>12 DEF Thread

LEMMA PollLockThread ==
    ASSUME TypeOK, Thread, PollLock
    PROVE  Thread'
<1>1. pc = "lock" /\ pc' = "copy" /\ UNCHANGED <<dev, kind, index, tempBuff, output, answers>>
  BY DEF PollLock
<1>2. Progress' = Progress /\ Reading' = Reading
  BY <1>1 DEF Progress, Reading
<1>3. Writing' = Writing
  BY <1>1 DEF Writing
<1>4. Position'
  BY <1>1, <1>2, <1>3 DEF Position, Thread
<1>5. ReadBuff'
  BY <1>1, <1>2 DEF ReadBuff, Thread
<1>6. WriteBuff'
  <2>1. CASE Writing
    <3>1. Len(tempBuff) = 0 /\ tempBuff \in Seq(Outputs) /\ Len(tempBuff) <= Size[dev][kind]
      BY <1>1, <2>1 DEF WriteBuff, Thread
    <3>2. \A j \in 1 .. Len(tempBuff) : FALSE
      BY <3>1
    <3>3. QED
      BY <1>1, <3>1, <3>2 DEF WriteBuff
  <2>2. CASE ~Writing
    BY <1>3, <2>2 DEF WriteBuff
  <2>3. QED
    BY <2>1, <2>2
<1>7. QED
  BY <1>4, <1>5, <1>6 DEF Thread

\* One value goes from the answer to the slot that is next.
LEMMA CopyInThread ==
    ASSUME TypeOK, Thread, CopyIn
    PROVE  Thread' /\ tempBuff' \in Seq(Values) /\ Progress' = Progress + 1
           /\ Head(tempBuff) = [dev |-> dev, kind |-> kind, place |-> Progress + 1,
                                parity |-> answers[dev][kind]]
           /\ Head(tempBuff) \in Values /\ Progress < Size[dev][kind]
<1>1. pc = "copy" /\ kind \in Reads /\ tempBuff # <<>>
      /\ UNCHANGED <<pc, dev, kind, answers>>
      /\ tempBuff' = Tail(tempBuff) /\ index' = Advance(index, kind, 1)
  BY DEF CopyIn
<1>2. Reading /\ ~Writing /\ Reading' /\ ~Writing'
  BY <1>1 DEF Reading, Writing
<1>3. /\ tempBuff \in Seq(Values) /\ Len(tempBuff) <= Size[dev][kind]
      /\ \A j \in 1 .. Len(tempBuff) :
           tempBuff[j] = [dev |-> dev, kind |-> kind,
                          place |-> Size[dev][kind] - Len(tempBuff) + j,
                          parity |-> answers[dev][kind]]
  BY <1>1, <1>2 DEF ReadBuff, Thread
<1>4. /\ Len(tempBuff) \in Nat \ {0} /\ Size[dev][kind] \in Nat /\ Head(tempBuff) = tempBuff[1]
      /\ Tail(tempBuff) \in Seq(Values) /\ Len(Tail(tempBuff)) = Len(tempBuff) - 1
      /\ \A j \in 1 .. Len(tempBuff) - 1 : Tail(tempBuff)[j] = tempBuff[j + 1]
      /\ Head(tempBuff) \in Values
  BY <1>1, <1>3, ThreadKind, EmptySeq, LenProperties, HeadTailProperties
<1>5. Progress = Size[dev][kind] - Len(tempBuff)
      /\ Progress' = Size[dev][kind] - (Len(tempBuff) - 1)
  BY <1>1, <1>4 DEF Progress
<1>6. Progress' = Progress + 1 /\ Progress < Size[dev][kind] /\ Progress \in Nat
  BY <1>3, <1>4, <1>5
<1>7. Head(tempBuff) = [dev |-> dev, kind |-> kind, place |-> Progress + 1,
                        parity |-> answers[dev][kind]]
  BY <1>3, <1>4, <1>5
<1>8. ReadBuff'
  <2>1. ASSUME NEW j \in 1 .. Len(tempBuff')
        PROVE  tempBuff'[j] = [dev |-> dev, kind |-> kind,
                               place |-> Size[dev][kind] - Len(tempBuff') + j,
                               parity |-> answers[dev][kind]]
    <3>1. Len(tempBuff') = Len(tempBuff) - 1
      BY <1>1, <1>4
    <3>2. j \in 1 .. Len(tempBuff) - 1 /\ j + 1 \in 1 .. Len(tempBuff)
          /\ Size[dev][kind] - Len(tempBuff) + (j + 1) = Size[dev][kind] - Len(tempBuff') + j
      BY <1>4, <3>1
    <3>3. tempBuff'[j] = tempBuff[j + 1]
      BY <1>1, <1>4, <3>2
    <3>4. QED
      BY <1>3, <3>2, <3>3
  <2>2. Len(tempBuff') <= Size[dev][kind] /\ tempBuff' \in Seq(Values) /\ pc' # "lock"
    BY <1>1, <1>3, <1>4
  <2>3. QED
    BY <1>1, <2>1, <2>2 DEF ReadBuff
<1>9. WriteBuff'
  BY <1>2 DEF WriteBuff
<1>10. Position'
  <2>1. index' = Advance(Reached(dev, Place(kind)), kind, Progress + 1)
    <3>1. dev \in Devices /\ kind \in Kinds /\ Progress \in Nat /\ 1 \in Nat
          /\ index = Advance(Reached(dev, Place(kind)), kind, Progress)
      BY <1>1, <1>6, ThreadKind
    <3>2. Advance(Advance(Reached(dev, Place(kind)), kind, Progress), kind, 1)
            = Advance(Reached(dev, Place(kind)), kind, Progress + 1)
      BY <3>1, AdvanceTwice, Zenon
    <3>3. index' = Advance(index, kind, 1)
      BY <1>1
    <3>4. QED
      BY <3>1, <3>2, <3>3, Zenon
  <2>2. QED
    BY <1>1, <1>2, <1>6, <2>1 DEF Position
<1>11. QED
  BY <1>1, <1>4, <1>6, <1>7, <1>8, <1>9, <1>10 DEF Thread

\* The slots of both threads lie within the buffers.
LEMMA NextSlot ==
    ASSUME TypeOK, Thread, pc # "device", Progress < Size[dev][kind]
    PROVE  index[BufferOf[kind]] \in Slots
           /\ index[BufferOf[kind]] = FirstSlot(dev, kind) + Progress
<1>1. index[BufferOf[kind]] = FirstSlot(dev, kind) + Progress /\ Progress \in Nat
      /\ kind \in Kinds /\ dev \in Devices /\ Size[dev][kind] \in Nat
  BY ThreadKind
<1>2. FirstSlot(dev, kind) \in Nat /\ FirstSlot(dev, kind) + Size[dev][kind] <= MaxIO
  BY <1>1, ReachedAfter
<1>3. QED
  BY <1>1, <1>2, BoundsAssumption DEF Slots

LEMMA CopyOutThread ==
    ASSUME TypeOK, Thread, OutputOfOneScan, mainPc # "out", CopyOut
    PROVE  Thread' /\ tempBuff' \in Seq(Outputs)
<1>1. pc = "copy" /\ kind \notin Reads /\ Len(tempBuff) < Size[dev][kind]
      /\ UNCHANGED <<pc, dev, kind, output>> /\ index' = Advance(index, kind, 1)
  BY DEF CopyOut
<1>2. kind \in Kinds /\ dev \in Devices /\ Size[dev][kind] \in Nat
  BY <1>1, ThreadKind
<1>3. ~Reading /\ Writing /\ ~Reading' /\ Writing'
  BY <1>1, <1>2 DEF Reading, Writing
<1>4. /\ tempBuff \in Seq(Outputs)
      /\ \A j \in 1 .. Len(tempBuff) :
           /\ tempBuff[j].slot = FirstSlot(dev, kind) + j - 1
           /\ tempBuff[j].scan = tempBuff[1].scan
           /\ tempBuff[j].scan = output[BufferOf[kind]][tempBuff[j].slot]
  BY <1>1, <1>3 DEF WriteBuff, Thread
<1> DEFINE slot == index[BufferOf[kind]]
           v == [slot |-> slot, scan |-> output[BufferOf[kind]][slot]]
<1>5. Progress = Len(tempBuff) /\ Progress' = Len(tempBuff')
  BY <1>1 DEF Progress
<1>6. slot \in Slots /\ slot = FirstSlot(dev, kind) + Len(tempBuff)
      /\ Len(tempBuff) \in Nat /\ FirstSlot(dev, kind) \in Nat
  BY <1>1, <1>2, <1>4, <1>5, NextSlot, ReachedAfter, LenProperties
<1>7. BufferOf[kind] \in {"bool_output", "int_output"} /\ DOMAIN output = {"bool_output", "int_output"}
  BY <1>1, <1>2 DEF Kinds, Reads, BufferOf, TypeOK
<1>8. v \in Outputs
  <2>1. output \in [{"bool_output", "int_output"} -> [Slots -> 0 .. MaxScans]]
    BY DEF TypeOK
  <2>2. output[BufferOf[kind]][slot] \in 0 .. MaxScans
    BY <1>6, <1>7, <2>1
  <2>3. slot \in Nat
    BY <1>6, BoundsAssumption DEF Slots
  <2>4. QED
    BY <2>2, <2>3 DEF Outputs
<1>9. tempBuff' = Append(tempBuff, v)
  BY <1>1 DEF CopyOut
<1> HIDE DEF v
<1>10. /\ tempBuff' \in Seq(Outputs) /\ Len(tempBuff') = Len(tempBuff) + 1
       /\ \A j \in 1 .. Len(tempBuff) : tempBuff'[j] = tempBuff[j]
       /\ tempBuff'[Len(tempBuff) + 1] = v
  BY <1>4, <1>8, <1>9, AppendProperties
<1>11. v.slot = slot /\ v.scan = output[BufferOf[kind]][slot]
  BY DEF v
<1>12. \A s \in Slots : output[BufferOf[kind]][s] = v.scan
  BY <1>6, <1>7, <1>11 DEF OutputOfOneScan
<1>13. ASSUME NEW j \in 1 .. Len(tempBuff')
       PROVE  /\ tempBuff'[j].slot = FirstSlot(dev, kind) + j - 1
              /\ tempBuff'[j].scan = v.scan
              /\ tempBuff'[j].scan = output[BufferOf[kind]][tempBuff'[j].slot]
  <2>1. CASE j = Len(tempBuff) + 1
    BY <1>6, <1>10, <1>11, <2>1
  <2>2. CASE j # Len(tempBuff) + 1
    <3>1. j \in 1 .. Len(tempBuff)
      BY <1>6, <1>10, <2>2
    <3>2. tempBuff[j].slot = FirstSlot(dev, kind) + j - 1 /\ tempBuff'[j] = tempBuff[j]
          /\ tempBuff[j].scan = output[BufferOf[kind]][tempBuff[j].slot]
      BY <1>4, <1>10, <3>1
    <3>3. tempBuff[j].slot \in Slots
      BY <1>6, <3>1, <3>2, BoundsAssumption DEF Slots
    <3>4. QED
      BY <1>12, <3>2, <3>3
  <2>3. QED
    BY <2>1, <2>2
<1>14. WriteBuff'
  <2>1. 1 \in 1 .. Len(tempBuff')
    BY <1>6, <1>10
  <2>2. tempBuff'[1].scan = v.scan
    BY <1>13, <2>1
  <2>3. Len(tempBuff') <= Size[dev][kind]
    BY <1>1, <1>2, <1>6, <1>10
  <2>4. QED
    BY <1>1, <1>10, <1>13, <2>2, <2>3 DEF WriteBuff
<1>15. ReadBuff'
  BY <1>3 DEF ReadBuff
<1>16. Position'
  <2>1. index = Advance(Reached(dev, Place(kind)), kind, Len(tempBuff))
    BY <1>1, <1>5, ThreadKind
  <2>2. index' = Advance(Reached(dev, Place(kind)), kind, Len(tempBuff) + 1)
    <3>1. dev \in Devices /\ kind \in Kinds /\ Len(tempBuff) \in Nat /\ 1 \in Nat
      BY <1>2, <1>6
    <3>2. Advance(Advance(Reached(dev, Place(kind)), kind, Len(tempBuff)), kind, 1)
            = Advance(Reached(dev, Place(kind)), kind, Len(tempBuff) + 1)
      BY <3>1, AdvanceTwice, Zenon
    <3>3. index' = Advance(index, kind, 1)
      BY <1>1
    <3>4. QED
      BY <2>1, <3>2, <3>3, Zenon
  <2>3. QED
    BY <1>1, <1>3, <1>5, <1>10, <2>2 DEF Position
<1>17. QED
  BY <1>10, <1>14, <1>15, <1>16 DEF Thread

LEMMA PollUnlockSends ==
    ASSUME TypeOK, Thread, PollUnlock, kind \notin Reads
    PROVE  Thread'
<1>1. pc = "copy" /\ pc' = "send" /\ Len(tempBuff) = Size[dev][kind]
      /\ UNCHANGED <<dev, kind, index, tempBuff, output, answers>>
  BY DEF PollUnlock
<1>2. kind \in Kinds /\ dev \in Devices /\ Size[dev][kind] \in Nat
  BY <1>1, ThreadKind
<1>3. ~Reading /\ Writing /\ ~Reading' /\ Writing'
  BY <1>1, <1>2 DEF Reading, Writing
<1>4. Progress' = Progress
  BY <1>1 DEF Progress
<1>5. Position'
  BY <1>1, <1>3, <1>4, ThreadKind DEF Position
<1>6. ReadBuff'
  BY <1>3 DEF ReadBuff
<1>7. WriteBuff'
  BY <1>1, <1>3 DEF WriteBuff, Thread
<1>8. QED
  BY <1>5, <1>6, <1>7 DEF Thread

\* What the thread does not see leaves it where it is.
LEMMA ThreadStays ==
    ASSUME Thread, UNCHANGED <<pollVars, answers>>, pc # "copy" \/ UNCHANGED output
    PROVE  Thread'
<1>1. UNCHANGED <<pc, dev, kind, index, tempBuff, answers>>
  BY DEF pollVars
<1>2. Progress' = Progress /\ Reading' = Reading
  BY <1>1 DEF Progress, Reading
<1>3. Writing' = Writing
  BY <1>1 DEF Writing
<1>4. Position'
  BY <1>1, <1>2, <1>3 DEF Position, Thread
<1>5. ReadBuff'
  BY <1>1, <1>2 DEF ReadBuff, Thread
<1>6. WriteBuff'
  BY <1>1, <1>3 DEF WriteBuff, Thread
<1>7. QED
  BY <1>4, <1>5, <1>6 DEF Thread

ThreadTyped ==
  /\ dev \in Devices /\ kind \in Kinds \union {Null}
  /\ pc \in {"device", "request", "lock", "copy", "send"}
  /\ index \in [Buffers -> 0 .. MaxIO]
  /\ tempBuff \in Seq(Values) \union Seq(Outputs)

LEMMA IndexType ==
    ASSUME dev' \in Devices, Position', ReadBuff', WriteBuff'
    PROVE  index' \in [Buffers -> 0 .. MaxIO]
<1>1. CASE index' = SlotsBefore[dev']
  <2>1. SlotsBefore[dev'] \in [Buffers -> Nat] /\ \A b \in Buffers : SlotsBefore[dev'][b] <= MaxIO
    BY DeviceInRange, SlotsBeforeType, SlotsFit
  <2>2. QED
    BY <1>1, <2>1, BoundsAssumption
<1>2. CASE /\ Reading' \/ Writing'
           /\ index' = Advance(Reached(dev', Place(kind')), kind', Progress')
  <2>1. kind' \in Kinds
    BY <1>2 DEF Reading, Writing, Reads, Kinds
  <2>2. Size[dev'][kind'] \in Nat
    BY <2>1, SizeIsNat
  <2>3. Progress' \in 0 .. Size[dev'][kind']
    <3>1. CASE pc' = "request"
      BY <2>2, <3>1 DEF Progress
    <3>2. CASE pc' # "request" /\ kind' \in Reads
      <4>1. Len(tempBuff') \in 0 .. Size[dev'][kind']
        BY <1>2, <2>2, <3>2, LenProperties DEF ReadBuff, Reading, Writing
      <4>2. QED
        BY <2>2, <3>2, <4>1 DEF Progress
    <3>3. CASE pc' # "request" /\ kind' \notin Reads
      <4>1. Len(tempBuff') \in 0 .. Size[dev'][kind']
        BY <1>2, <2>2, <3>3, LenProperties DEF WriteBuff, Reading, Writing
      <4>2. QED
        BY <3>3, <4>1 DEF Progress
    <3>4. QED
      BY <3>1, <3>2, <3>3
  <2>4. QED
    BY <1>2, <2>1, <2>3, AdvanceType
<1>3. QED
  BY <1>1, <1>2 DEF Position

LEMMA ThreadStep ==
    ASSUME TypeOK, Thread, Addressed, Locked, OutputOfOneScan, Next \/ UNCHANGED vars
    PROVE  Thread' /\ ThreadTyped'
<1>1. dev \in Devices /\ kind \in Kinds \union {Null}
      /\ pc \in {"device", "request", "lock", "copy", "send"}
      /\ tempBuff \in Seq(Values) \union Seq(Outputs)
  BY DEF TypeOK
<1>2. ASSUME Started'
      PROVE  Thread' /\ ThreadTyped'
  <2>1. <<>> \in Seq(Values)
    OBVIOUS
  <2>2. Position' /\ ReadBuff' /\ WriteBuff' /\ dev' \in Devices /\ tempBuff' = <<>>
        /\ pc' \in {"device", "request", "lock"} /\ kind' \in Kinds \union {Null}
    BY <1>2 DEF Started
  <2>3. QED
    BY <2>1, <2>2, IndexType DEF Thread, ThreadTyped
<1>3. CASE ConnectFails
  BY <1>2, <1>3, ConnectFailsStarts
<1>4. CASE StartDevice
  BY <1>2, <1>4, StartDeviceStarts
<1>5. CASE ReadFails
  BY <1>2, <1>5, ReadFailsStarts
<1>6. CASE WriteFails \/ WriteArrives
  BY <1>2, <1>6, WriteStarts
<1>7. CASE PollUnlock /\ kind \in Reads
  BY <1>2, <1>7, PollUnlockStarts
<1>8. CASE PollUnlock /\ kind \notin Reads
  <2>1. UNCHANGED <<dev, kind, tempBuff, index>> /\ pc' = "send"
    BY <1>8 DEF PollUnlock
  <2>2. Thread'
    BY <1>8, PollUnlockSends
  <2>3. QED
    BY <1>1, <2>1, <2>2, IndexType DEF ThreadTyped, Thread
<1>9. CASE ReadAnswers
  <2>1. UNCHANGED <<dev, kind>> /\ pc' = "lock" /\ pc = "request"
    BY <1>9 DEF ReadAnswers
  <2>2. Reading
    BY <2>1, ThreadKind DEF Writing
  <2>3. Thread' /\ tempBuff' \in Seq(Values)
    BY <1>9, <2>2, ReadAnswersThread
  <2>4. QED
    BY <1>1, <2>1, <2>3, IndexType DEF ThreadTyped, Thread
<1>10. CASE PollLock
  <2>1. UNCHANGED <<dev, kind, tempBuff>> /\ pc' = "copy"
    BY <1>10 DEF PollLock
  <2>2. Thread'
    BY <1>10, PollLockThread
  <2>3. QED
    BY <1>1, <2>1, <2>2, IndexType DEF ThreadTyped, Thread
<1>11. CASE CopyIn
  <2>1. UNCHANGED <<dev, kind, pc>>
    BY <1>11 DEF CopyIn
  <2>2. Thread' /\ tempBuff' \in Seq(Values)
    BY <1>11, CopyInThread
  <2>3. QED
    BY <1>1, <2>1, <2>2, IndexType DEF ThreadTyped, Thread
<1>12. CASE CopyOut
  <2>1. UNCHANGED <<dev, kind, pc>> /\ pc = "copy"
    BY <1>12 DEF CopyOut
  <2>2. mainPc # "out"
    BY <2>1 DEF Locked
  <2>3. Thread' /\ tempBuff' \in Seq(Outputs)
    BY <1>12, <2>2, CopyOutThread
  <2>4. QED
    BY <1>1, <2>1, <2>3, IndexType DEF ThreadTyped, Thread
<1>13. CASE Main \/ UNCHANGED vars
  <2>1. UNCHANGED <<pollVars, answers>>
    BY <1>13 DEF Main, MainLock, MainCopy, MainUnlock, vars
  <2>2. UNCHANGED <<pc, dev, kind, tempBuff>>
    BY <2>1 DEF pollVars
  <2>3. pc # "copy" \/ UNCHANGED output
    <3>1. CASE MainCopy
      <4>1. ioLock = "main"
        BY <3>1 DEF MainCopy, Locked
      <4>2. QED
        BY <4>1 DEF Locked
    <3>2. CASE MainLock \/ MainUnlock \/ UNCHANGED vars
      BY <3>2 DEF MainLock, MainUnlock, vars
    <3>3. QED
      BY <1>13, <3>1, <3>2 DEF Main
  <2>4. Thread'
    BY <2>1, <2>3, ThreadStays
  <2>5. QED
    BY <1>1, <2>2, <2>4, IndexType DEF ThreadTyped, Thread
<1>14. QED
  BY <1>3, <1>4, <1>5, <1>6, <1>7, <1>8, <1>9, <1>10, <1>11, <1>12, <1>13 DEF Next, Poll

\* Where the thread goes: away from a device only to its next transfer.
LEMMA SameDevice ==
    ASSUME TypeOK, Thread, Poll, pc' # "device"
    PROVE  dev' = dev
<1>1. CASE ConnectFails
  BY <1>1, ConnectFailsStarts
<1>2. CASE StartDevice
  BY <1>2, StartDeviceStarts
<1>3. CASE ReadFails
  BY <1>3, ReadFailsStarts
<1>4. CASE WriteFails \/ WriteArrives
  BY <1>4, WriteStarts
<1>5. CASE PollUnlock /\ kind \in Reads
  BY <1>5, PollUnlockStarts
<1>6. CASE PollUnlock /\ kind \notin Reads
  BY <1>6 DEF PollUnlock
<1>7. CASE ReadAnswers \/ PollLock \/ CopyIn \/ CopyOut
  BY <1>7 DEF ReadAnswers, PollLock, CopyIn, CopyOut
<1>8. QED
  BY <1>1, <1>2, <1>3, <1>4, <1>5, <1>6, <1>7 DEF Poll

-------------------------------------------------------------------------------
(***************************************************************************)
(* The addressed slave, the lock and the types                             *)
(***************************************************************************)
LEMMA SetSlaveAddresses ==
    ASSUME TypeOK, Addressed, SetSlave
    PROVE  /\ slave' \in [Ports -> Devices] /\ slave'[Port[dev]] = dev
           /\ \A d \in Devices : Sharing(d) = {} => slave'[Port[d]] = d
<1>1. dev \in Devices /\ slave \in [Ports -> Devices] /\ Port[dev] \in Ports
  BY DEF TypeOK, Ports
<1>2. CASE Sharing(dev) = {}
  BY <1>1, <1>2 DEF SetSlave, Addressed
<1>3. CASE Sharing(dev) # {}
  <2>1. slave' = [slave EXCEPT ![Port[dev]] = dev]
    BY <1>3 DEF SetSlave
  <2>2. ASSUME NEW d \in Devices, Sharing(d) = {}
        PROVE  slave'[Port[d]] = d
    <3>1. d # dev
      BY <1>3, <2>2
    <3>2. Port[d] # Port[dev]
      BY <1>1, <2>2, <3>1, DevicesAssumption DEF Sharing
    <3>3. slave'[Port[d]] = slave[Port[d]]
      BY <1>1, <2>1, <3>2
    <3>4. QED
      BY <2>2, <3>3 DEF Addressed
  <2>3. QED
    BY <1>1, <2>1, <2>2
<1>4. QED
  BY <1>2, <1>3

LEMMA AddressedStep ==
    ASSUME TypeOK, Thread, Addressed, Next \/ UNCHANGED vars
    PROVE  Addressed' /\ slave' \in [Ports -> Devices]
<1>1. CASE ConnectFails \/ StartDevice
  <2>1. SetSlave /\ Poll
    BY <1>1 DEF ConnectFails, StartDevice, Poll
  <2>2. /\ slave' \in [Ports -> Devices] /\ slave'[Port[dev]] = dev
        /\ \A d \in Devices : Sharing(d) = {} => slave'[Port[d]] = d
    BY <2>1, SetSlaveAddresses
  <2>3. pc' # "device" => dev' = dev
    BY <2>1, SameDevice
  <2>4. QED
    BY <2>2, <2>3 DEF Addressed
<1>2. CASE Poll /\ ~ConnectFails /\ ~StartDevice
  <2>1. UNCHANGED slave /\ pc # "device"
    BY <1>2 DEF Poll, ReadFails, ReadAnswers, PollLock, CopyIn, CopyOut, PollUnlock,
      WriteFails, WriteArrives, mbVars
  <2>2. pc' # "device" => dev' = dev
    BY <1>2, SameDevice
  <2>3. QED
    BY <2>1, <2>2 DEF Addressed, TypeOK
<1>3. CASE Main \/ UNCHANGED vars
  <2>1. UNCHANGED <<slave, pc, dev>>
    BY <1>3 DEF Main, MainLock, MainCopy, MainUnlock, vars, mbVars, pollVars
  <2>2. QED
    BY <2>1 DEF Addressed, TypeOK
<1>4. QED
  BY <1>1, <1>2, <1>3 DEF Next

LEMMA LockedStep ==
    ASSUME TypeOK, Thread, Locked, Next \/ UNCHANGED vars
    PROVE  Locked'
<1>1. CASE ConnectFails \/ StartDevice \/ ReadFails \/ WriteFails \/ WriteArrives
  <2>1. pc' \in {"device", "request", "lock"}
    BY <1>1, ConnectFailsStarts, StartDeviceStarts, ReadFailsStarts, WriteStarts DEF Started
  <2>2. UNCHANGED <<ioLock, mainPc>> /\ pc # "copy"
    BY <1>1 DEF ConnectFails, StartDevice, ReadFails, WriteFails, WriteArrives, mainVars
  <2>3. QED
    BY <2>1, <2>2 DEF Locked
<1>2. CASE PollUnlock
  <2>1. pc' # "copy"
    <3>1. CASE kind \in Reads
      BY <1>2, <3>1, PollUnlockStarts DEF Started
    <3>2. CASE kind \notin Reads
      BY <1>2, <3>2 DEF PollUnlock
    <3>3. QED
      BY <3>1, <3>2
  <2>2. ioLock = "poll" /\ ioLock' = "none" /\ UNCHANGED mainPc
    BY <1>2 DEF PollUnlock, Locked, mainVars
  <2>3. QED
    BY <2>1, <2>2 DEF Locked
<1>3. CASE ReadAnswers \/ CopyIn \/ CopyOut
  BY <1>3 DEF ReadAnswers, CopyIn, CopyOut, mainVars, Locked
<1>4. CASE PollLock
  BY <1>4 DEF PollLock, mainVars, Locked
<1>5. CASE MainLock
  BY <1>5 DEF MainLock, pollVars, Locked
<1>6. CASE MainCopy
  BY <1>6 DEF MainCopy, pollVars, Locked
<1>7. CASE MainUnlock
  BY <1>7 DEF MainUnlock, pollVars, Locked
<1>8. CASE UNCHANGED vars
  BY <1>8 DEF vars, pollVars, mainVars, Locked
<1>9. QED
  BY <1>1, <1>2, <1>3, <1>4, <1>5, <1>6, <1>7, <1>8 DEF Next, Poll, Main

\* The connections of the devices and the faults.
LineTyped ==
  /\ isConnected \in [Devices -> BOOLEAN] /\ open \in [Ports -> BOOLEAN]
  /\ faults \in 0 .. MaxFaults

LEMMA LineStep ==
    ASSUME TypeOK, Next \/ UNCHANGED vars
    PROVE  LineTyped'
<1>1. dev \in Devices /\ Port[dev] \in Ports /\ isConnected \in [Devices -> BOOLEAN]
      /\ open \in [Ports -> BOOLEAN] /\ faults \in 0 .. MaxFaults /\ MaxFaults \in Nat
  BY BoundsAssumption DEF TypeOK, Ports
<1>2. ASSUME Disconnect
      PROVE  isConnected' \in [Devices -> BOOLEAN] /\ open' \in [Ports -> BOOLEAN]
  BY <1>1, <1>2 DEF Disconnect
<1>3. ASSUME Fault
      PROVE  faults' \in 0 .. MaxFaults
  BY <1>1, <1>3 DEF Fault
<1>4. CASE ConnectFails
  BY <1>1, <1>4 DEF ConnectFails, LineTyped
<1>5. CASE StartDevice
  BY <1>1, <1>5 DEF StartDevice, LineTyped
<1>6. CASE ReadFails \/ WriteFails
  BY <1>2, <1>3, <1>6 DEF ReadFails, WriteFails, LineTyped
<1>7. CASE ReadAnswers \/ PollLock \/ CopyIn \/ CopyOut \/ PollUnlock \/ WriteArrives
  BY <1>1, <1>7 DEF ReadAnswers, PollLock, CopyIn, CopyOut, PollUnlock, WriteArrives, mbVars,
    LineTyped
<1>8. CASE Main \/ UNCHANGED vars
  BY <1>1, <1>8 DEF Main, MainLock, MainCopy, MainUnlock, vars, mbVars, LineTyped
<1>9. QED
  BY <1>4, <1>5, <1>6, <1>7, <1>8 DEF Next, Poll

\* The two threads' buffers, as types.
InputTyped ==
  /\ input \in [{"bool_input", "int_input"} -> [Slots -> Values \union {Null}]]
  /\ answers \in [Devices -> [Reads -> {0, 1}]]
  /\ received \in [Devices -> [{"coils", "hrWrite"} -> Seq(Outputs)]]

MainTyped ==
  /\ mainPc \in {"inLock", "in", "outLock", "out"} /\ at \in 0 .. MaxIO
  /\ ioLock \in {"none", "main", "poll"} /\ scan \in 0 .. MaxScans
  /\ image \in [{"bool_input", "int_input"} -> [Slots -> Values \union {Null}]]
  /\ output \in [{"bool_output", "int_output"} -> [Slots -> 0 .. MaxScans]]

\* A read puts its next value into the slot of its register.
LEMMA CopyInPlace ==
    ASSUME TypeOK, Thread, CopyIn
    PROVE  /\ BufferOf[kind] \in {"bool_input", "int_input"}
           /\ index[BufferOf[kind]] \in Slots
           /\ index[BufferOf[kind]] = FirstSlot(dev, kind) + Progress
           /\ input' \in [{"bool_input", "int_input"} -> [Slots -> Values \union {Null}]]
           /\ \A b \in {"bool_input", "int_input"} : \A s \in Slots :
                input'[b][s] = IF b = BufferOf[kind] /\ s = index[b] THEN Head(tempBuff)
                               ELSE input[b][s]
<1>1. pc = "copy" /\ kind \in Reads
      /\ input' = [input EXCEPT ![BufferOf[kind]][index[BufferOf[kind]]] = Head(tempBuff)]
  BY DEF CopyIn
<1>2. BufferOf[kind] \in {"bool_input", "int_input"}
  BY <1>1 DEF Reads, BufferOf
<1>3. Head(tempBuff) \in Values \union {Null} /\ Progress < Size[dev][kind]
  BY CopyInThread
<1>4. index[BufferOf[kind]] \in Slots /\ index[BufferOf[kind]] = FirstSlot(dev, kind) + Progress
  BY <1>1, <1>3, NextSlot
<1>5. input \in [{"bool_input", "int_input"} -> [Slots -> Values \union {Null}]]
  BY DEF TypeOK
<1>6. QED
  BY <1>1, <1>2, <1>3, <1>4, <1>5, Replacing

\* A message that arrives is the one in tempBuff, at the device of the transfer.
LEMMA WriteArrivesAt ==
    ASSUME TypeOK, Thread, Addressed, WriteArrives
    PROVE  /\ kind \in {"coils", "hrWrite"} /\ tempBuff \in Seq(Outputs) /\ Writing
           /\ received' \in [Devices -> [{"coils", "hrWrite"} -> Seq(Outputs)]]
           /\ \A d \in Devices : \A k \in {"coils", "hrWrite"} :
                received'[d][k] = IF d = dev /\ k = kind THEN tempBuff ELSE received[d][k]
<1>1. pc = "send" /\ slave[Port[dev]] = dev /\ dev \in Devices
      /\ received' = [received EXCEPT ![slave[Port[dev]]][kind] = tempBuff]
  BY DEF WriteArrives, Addressed, TypeOK
<1>2. Writing
  BY <1>1, ThreadKind DEF Reading
<1>3. kind \in {"coils", "hrWrite"}
  BY <1>2 DEF Writing, Kinds, Reads
<1>4. tempBuff \in Seq(Outputs)
  BY <1>2 DEF Thread, WriteBuff
<1>5. received \in [Devices -> [{"coils", "hrWrite"} -> Seq(Outputs)]]
  BY DEF TypeOK
<1>6. QED
  BY <1>1, <1>2, <1>3, <1>4, <1>5, Replacing

LEMMA InputTypedStep ==
    ASSUME TypeOK, Thread, Addressed, Next \/ UNCHANGED vars
    PROVE  InputTyped'
<1>1. InputTyped
  BY DEF TypeOK, InputTyped
<1>2. CASE CopyIn
  BY <1>1, <1>2, CopyInPlace DEF CopyIn, InputTyped
<1>3. CASE ReadAnswers
  <2>1. Reading /\ UNCHANGED <<input, received>>
    BY <1>3, ThreadKind DEF ReadAnswers, Writing
  <2>2. QED
    BY <1>1, <1>3, <2>1, ReadAnswersThread DEF InputTyped
<1>4. CASE WriteArrives
  BY <1>1, <1>4, WriteArrivesAt DEF WriteArrives, InputTyped
<1>5. CASE ConnectFails \/ StartDevice \/ ReadFails \/ PollLock \/ CopyOut \/ PollUnlock
           \/ WriteFails \/ Main \/ UNCHANGED vars
  BY <1>1, <1>5 DEF ConnectFails, StartDevice, ReadFails, PollLock, CopyOut, PollUnlock,
    WriteFails, Main, MainLock, MainCopy, MainUnlock, vars, InputTyped
<1>6. QED
  BY <1>2, <1>3, <1>4, <1>5 DEF Next, Poll

\* main copies one slot of both buffers.
LEMMA MainCopies ==
    ASSUME TypeOK, MainCopy
    PROVE  /\ at \in Slots /\ at' = at + 1 /\ at' \in 0 .. MaxIO
           /\ image' \in [{"bool_input", "int_input"} -> [Slots -> Values \union {Null}]]
           /\ output' \in [{"bool_output", "int_output"} -> [Slots -> 0 .. MaxScans]]
           /\ mainPc = "in" => \A b \in {"bool_input", "int_input"} : \A s \in Slots :
                                 image'[b][s] = IF s = at THEN input[b][s] ELSE image[b][s]
           /\ mainPc = "out" => \A b \in {"bool_output", "int_output"} : \A s \in Slots :
                                  output'[b][s] = IF s = at THEN scan ELSE output[b][s]
<1>1. at \in Slots /\ at' = at + 1 /\ at' \in 0 .. MaxIO
  BY BoundsAssumption DEF MainCopy, Slots
<1>2. /\ input \in [{"bool_input", "int_input"} -> [Slots -> Values \union {Null}]]
      /\ image \in [{"bool_input", "int_input"} -> [Slots -> Values \union {Null}]]
      /\ output \in [{"bool_output", "int_output"} -> [Slots -> 0 .. MaxScans]]
      /\ scan \in 0 .. MaxScans
  BY DEF TypeOK
<1>3. CASE mainPc = "in"
  <2>1. UNCHANGED output
        /\ image' = [b \in {"bool_input", "int_input"} |-> [image[b] EXCEPT ![at] = input[b][at]]]
    BY <1>2, <1>3 DEF MainCopy
  <2>2. ASSUME NEW b \in {"bool_input", "int_input"}
        PROVE  /\ image'[b] \in [Slots -> Values \union {Null}]
               /\ \A s \in Slots : image'[b][s] = IF s = at THEN input[b][s] ELSE image[b][s]
    <3>1. image'[b] = [image[b] EXCEPT ![at] = input[b][at]]
      BY <2>1
    <3>2. image[b] \in [Slots -> Values \union {Null}] /\ input[b][at] \in Values \union {Null}
      BY <1>1, <1>2
    <3>3. QED
      BY <1>1, <3>1, <3>2
  <2>3. QED
    BY <1>1, <1>2, <1>3, <2>1, <2>2
<1>4. CASE mainPc # "in"
  <2>1. UNCHANGED image
        /\ output' = [b \in {"bool_output", "int_output"} |-> [output[b] EXCEPT ![at] = scan]]
    BY <1>2, <1>4 DEF MainCopy
  <2>2. ASSUME NEW b \in {"bool_output", "int_output"}
        PROVE  /\ output'[b] \in [Slots -> 0 .. MaxScans]
               /\ \A s \in Slots : output'[b][s] = IF s = at THEN scan ELSE output[b][s]
    <3>1. output'[b] = [output[b] EXCEPT ![at] = scan]
      BY <2>1
    <3>2. output[b] \in [Slots -> 0 .. MaxScans]
      BY <1>2
    <3>3. QED
      BY <1>1, <1>2, <3>1, <3>2
  <2>3. QED
    BY <1>1, <1>2, <1>4, <2>1, <2>2
<1>5. QED
  BY <1>3, <1>4

LEMMA MainTypedStep ==
    ASSUME TypeOK, Next \/ UNCHANGED vars
    PROVE  MainTyped'
<1>1. MainTyped /\ MaxIO \in Nat /\ MaxScans \in Nat
  BY BoundsAssumption DEF TypeOK, MainTyped
<1>2. CASE Poll
  <2>1. UNCHANGED <<mainVars, output>> /\ (UNCHANGED ioLock \/ ioLock' \in {"none", "poll"})
    BY <1>2 DEF Poll, ConnectFails, StartDevice, ReadFails, ReadAnswers, PollLock, CopyIn,
      CopyOut, PollUnlock, WriteFails, WriteArrives
  <2>2. QED
    BY <1>1, <2>1 DEF mainVars, MainTyped
<1>3. CASE MainLock
  BY <1>1, <1>3 DEF MainLock, MainTyped
<1>4. CASE MainCopy
  <2>1. UNCHANGED <<ioLock, mainPc, scan>>
    BY <1>4 DEF MainCopy
  <2>2. QED
    BY <1>1, <1>4, <2>1, MainCopies DEF MainTyped
<1>5. CASE MainUnlock
  BY <1>1, <1>5 DEF MainUnlock, MainTyped
<1>6. CASE UNCHANGED vars
  BY <1>1, <1>6 DEF vars, mainVars, MainTyped
<1>7. QED
  BY <1>2, <1>3, <1>4, <1>5, <1>6 DEF Next, Main

LEMMA TypeStep ==
    ASSUME TypeOK, Thread, Addressed, Locked, OutputOfOneScan, Next \/ UNCHANGED vars
    PROVE  TypeOK'
<1>1. ThreadTyped' /\ slave' \in [Ports -> Devices]
  BY ThreadStep, AddressedStep
<1>2. LineTyped' /\ InputTyped' /\ MainTyped'
  BY LineStep, InputTypedStep, MainTypedStep
<1>3. QED
  BY <1>1, <1>2 DEF TypeOK, ThreadTyped, LineTyped, InputTyped, MainTyped

-------------------------------------------------------------------------------
(***************************************************************************)
(* The outputs                                                             *)
(***************************************************************************)
LEMMA OutputStep ==
    ASSUME TypeOK, OutputOfOneScan, Next \/ UNCHANGED vars
    PROVE  OutputOfOneScan'
<1>1. DOMAIN output = {"bool_output", "int_output"} /\ at \in 0 .. MaxIO /\ MaxIO \in Nat
  BY BoundsAssumption DEF TypeOK
<1>2. CASE Poll \/ UNCHANGED vars
  <2>1. UNCHANGED <<mainVars, output>>
    BY <1>2 DEF Poll, ConnectFails, StartDevice, ReadFails, ReadAnswers, PollLock, CopyIn,
      CopyOut, PollUnlock, WriteFails, WriteArrives, vars
  <2>2. QED
    BY <2>1 DEF mainVars, OutputOfOneScan
<1>3. CASE MainLock
  <2>1. UNCHANGED output /\ mainPc # "out" /\ at' = 0 /\ \A s \in 0 .. 0 - 1 : FALSE
    BY <1>3 DEF MainLock
  <2>2. QED
    BY <2>1 DEF OutputOfOneScan
<1>4. CASE MainCopy
  <2>1. DOMAIN output' = {"bool_output", "int_output"} /\ UNCHANGED <<mainPc, scan>>
    BY <1>4, MainCopies DEF MainCopy
  <2>2. CASE mainPc = "in"
    BY <1>4, <2>1, <2>2 DEF MainCopy, OutputOfOneScan
  <2>3. CASE mainPc = "out"
    <3>1. ASSUME NEW b \in {"bool_output", "int_output"}, NEW s \in 0 .. at' - 1
          PROVE  output'[b][s] = scan
      <4>1. s \in Slots /\ (s = at \/ s \in 0 .. at - 1)
        BY <1>1, <1>4, MainCopies DEF Slots
      <4>2. QED
        BY <1>1, <1>4, <2>3, <4>1, MainCopies DEF OutputOfOneScan
    <3>2. QED
      BY <2>1, <2>3, <3>1 DEF OutputOfOneScan
  <2>4. QED
    BY <1>4, <2>2, <2>3 DEF MainCopy
<1>5. CASE MainUnlock
  <2>1. UNCHANGED output
    BY <1>5 DEF MainUnlock
  <2>2. CASE mainPc = "in"
    BY <1>5, <2>1, <2>2 DEF MainUnlock, OutputOfOneScan
  <2>3. CASE mainPc = "out"
    <3>1. mainPc' = "inLock" /\ at = MaxIO
      BY <1>5, <2>3 DEF MainUnlock
    <3>2. \A b \in DOMAIN output : \A s \in Slots : output[b][s] = scan
      BY <2>3, <3>1 DEF OutputOfOneScan, Slots
    <3>3. QED
      BY <2>1, <3>1, <3>2 DEF OutputOfOneScan
  <2>4. QED
    BY <1>5, <2>2, <2>3 DEF MainUnlock
<1>6. QED
  BY <1>2, <1>3, <1>4, <1>5 DEF Next, Main

LEMMA MessageStep ==
    ASSUME TypeOK, Thread, Addressed, MessageIsOneScan, Next \/ UNCHANGED vars
    PROVE  MessageIsOneScan'
<1>1. CASE WriteArrives
  <2>1. /\ Writing /\ tempBuff \in Seq(Outputs) /\ kind \in {"coils", "hrWrite"}
        /\ \A d \in Devices : \A k \in {"coils", "hrWrite"} :
             received'[d][k] = IF d = dev /\ k = kind THEN tempBuff ELSE received[d][k]
    BY <1>1, WriteArrivesAt
  <2>2. DOMAIN tempBuff = 1 .. Len(tempBuff)
    BY <2>1, LenProperties
  <2>3. \A j \in DOMAIN tempBuff : /\ tempBuff[j].slot = FirstSlot(dev, kind) + j - 1
                                   /\ tempBuff[j].scan = tempBuff[1].scan
    BY <2>1, <2>2 DEF Thread, WriteBuff
  <2>4. QED
    BY <2>1, <2>3 DEF MessageIsOneScan
<1>2. CASE ~WriteArrives
  <2>1. UNCHANGED received
    BY <1>2 DEF Next, Poll, ConnectFails, StartDevice, ReadFails, ReadAnswers, PollLock, CopyIn,
      CopyOut, PollUnlock, WriteFails, Main, MainLock, MainCopy, MainUnlock, vars
  <2>2. QED
    BY <2>1 DEF MessageIsOneScan
<1>3. QED
  BY <1>1, <1>2

-------------------------------------------------------------------------------
(***************************************************************************)
(* The inputs                                                              *)
(***************************************************************************)
LEMMA SlotsBelongStep ==
    ASSUME TypeOK, Thread, SlotsBelong, Next \/ UNCHANGED vars
    PROVE  SlotsBelong'
<1>1. CASE CopyIn
  <2>1. DOMAIN input = {"bool_input", "int_input"} /\ DOMAIN input' = {"bool_input", "int_input"}
    BY <1>1, CopyInPlace DEF TypeOK
  <2> SUFFICES ASSUME NEW b \in {"bool_input", "int_input"}, NEW s \in Slots, input'[b][s] # Null
               PROVE  Belongs(b, s, input'[b][s])
    BY <2>1 DEF SlotsBelong
  <2>2. CASE b = BufferOf[kind] /\ s = index[b]
    <3>1. input'[b][s] = Head(tempBuff) /\ s = FirstSlot(dev, kind) + Progress
      BY <1>1, <2>2, CopyInPlace
    <3>2. /\ Head(tempBuff).dev = dev /\ Head(tempBuff).kind = kind
          /\ Head(tempBuff).place = Progress + 1 /\ Progress < Size[dev][kind]
      BY <1>1, CopyInThread
    <3>3. Progress \in Nat /\ Size[dev][kind] \in Nat /\ FirstSlot(dev, kind) \in Nat
      BY <1>1, ThreadKind, ReachedAfter DEF CopyIn
    <3>4. Progress + 1 \in 1 .. Size[dev][kind]
          /\ s = FirstSlot(dev, kind) + (Progress + 1) - 1
      BY <3>1, <3>2, <3>3
    <3>5. QED
      BY <2>2, <3>1, <3>2, <3>4 DEF Belongs
  <2>3. CASE ~(b = BufferOf[kind] /\ s = index[b])
    <3>1. input'[b][s] = input[b][s]
      BY <1>1, <2>3, CopyInPlace
    <3>2. QED
      BY <2>1, <3>1 DEF SlotsBelong
  <2>4. QED
    BY <2>2, <2>3
<1>2. CASE ~CopyIn
  <2>1. UNCHANGED input
    BY <1>2 DEF Next, Poll, ConnectFails, StartDevice, ReadFails, ReadAnswers, PollLock, CopyOut,
      PollUnlock, WriteFails, WriteArrives, Main, MainLock, MainCopy, MainUnlock, vars
  <2>2. QED
    BY <2>1 DEF SlotsBelong
<1>3. QED
  BY <1>1, <1>2

\* Outside the section of the thread nothing is being replaced.
LEMMA PollOutside ==
    ASSUME TypeOK, Thread, Next \/ UNCHANGED vars, ~CopyIn, ~CopyOut, ~PollLock, ~PollUnlock
    PROVE  (pc' = "copy" <=> pc = "copy") /\ (pc = "copy" => UNCHANGED <<pollVars, answers>>)
           /\ UNCHANGED input
<1>1. CASE ConnectFails \/ StartDevice \/ ReadFails \/ WriteFails \/ WriteArrives
  <2>1. pc' \in {"device", "request", "lock"}
    BY <1>1, ConnectFailsStarts, StartDeviceStarts, ReadFailsStarts, WriteStarts DEF Started
  <2>2. UNCHANGED input /\ pc # "copy"
    BY <1>1 DEF ConnectFails, StartDevice, ReadFails, WriteFails, WriteArrives
  <2>3. QED
    BY <2>1, <2>2
<1>2. CASE ReadAnswers
  BY <1>2 DEF ReadAnswers
<1>3. CASE Main \/ UNCHANGED vars
  BY <1>3 DEF Main, MainLock, MainCopy, MainUnlock, vars, pollVars
<1>4. QED
  BY <1>1, <1>2, <1>3 DEF Next, Poll

LEMMA InputValues ==
    ASSUME TypeOK, NEW b \in DOMAIN input, NEW s \in Slots, input[b][s] # Null
    PROVE  input[b][s] \in Values
<1>1. input \in [{"bool_input", "int_input"} -> [Slots -> Values \union {Null}]]
  BY DEF TypeOK
<1>2. input[b][s] \in Values \union {Null}
  BY <1>1
<1>3. QED
  BY <1>2

LEMMA CopyInSettles ==
    ASSUME TypeOK, Thread, SlotsBelong, Settled, Replaced, CopyIn
    PROVE  Settled' /\ Replaced'
<1>1. /\ DOMAIN input = {"bool_input", "int_input"}
      /\ DOMAIN input' = {"bool_input", "int_input"}
      /\ UNCHANGED <<pc, dev, kind, answers>> /\ pc = "copy" /\ kind \in Reads
  BY CopyInPlace DEF CopyIn, TypeOK
<1>2. /\ Head(tempBuff).dev = dev /\ Head(tempBuff).kind = kind
      /\ Head(tempBuff).place = Progress + 1 /\ Head(tempBuff).parity = answers[dev][kind]
      /\ Progress' = Progress + 1
  BY CopyInThread
<1>3. \A v : Copying(v)' = Copying(v)
  BY <1>1 DEF Copying
<1>4. ASSUME NEW b \in {"bool_input", "int_input"}, NEW s \in Slots, input'[b][s] # Null,
             ~Copying(input'[b][s])
      PROVE  input'[b][s] = input[b][s]
  <2>1. ~(b = BufferOf[kind] /\ s = index[b])
    BY <1>1, <1>2, <1>4, CopyInPlace DEF Copying
  <2>2. QED
    BY <2>1, CopyInPlace
<1>5. Settled'
  <2> SUFFICES ASSUME NEW b \in {"bool_input", "int_input"}, NEW s \in Slots, NEW t \in Slots,
                      input'[b][s] # Null, input'[b][t] # Null,
                      input'[b][s].dev = input'[b][t].dev,
                      input'[b][s].kind = input'[b][t].kind,
                      ~Copying(input'[b][s])
               PROVE  input'[b][s].parity = input'[b][t].parity
    BY <1>1, <1>3 DEF Settled
  <2>1. ~Copying(input'[b][t])
    BY DEF Copying
  <2>2. input'[b][s] = input[b][s] /\ input'[b][t] = input[b][t]
    BY <1>4, <2>1
  <2>3. QED
    BY <1>1, <2>2 DEF Settled
<1>6. Replaced'
  <2> SUFFICES ASSUME NEW b \in {"bool_input", "int_input"}, NEW s \in Slots,
                      input'[b][s] # Null, Copying(input'[b][s]),
                      input'[b][s].place <= Progress + 1
               PROVE  input'[b][s].parity = answers[dev][kind]
    BY <1>1, <1>2, <1>3 DEF Replaced
  <2>1. CASE b = BufferOf[kind] /\ s = index[b]
    BY <1>2, <2>1, CopyInPlace
  <2>2. CASE ~(b = BufferOf[kind] /\ s = index[b])
    <3> DEFINE v == input[b][s]
    <3>1. input'[b][s] = v
      BY <2>2, CopyInPlace
    <3>2. v \in Values /\ Belongs(b, s, v)
      BY <1>1, <3>1, InputValues DEF SlotsBelong
    <3>3. v.dev = dev /\ v.kind = kind
      BY <3>1 DEF Copying
    <3>4. v.place # Progress + 1
      <4>1. Progress \in Nat /\ FirstSlot(dev, kind) \in Nat
            /\ index[BufferOf[kind]] = FirstSlot(dev, kind) + Progress
        BY <1>1, ThreadKind, ReachedAfter
      <4>2. b = BufferOf[kind] /\ s = FirstSlot(dev, kind) + v.place - 1
        BY <3>2, <3>3 DEF Belongs
      <4>3. QED
        BY <2>2, <4>1, <4>2
    <3>5. v.place <= Progress
      <4>1. v.place \in Nat /\ Progress \in Nat /\ v.place <= Progress + 1
        BY <1>1, <3>1, <3>2, ThreadKind DEF Values
      <4>2. QED
        BY <3>4, <4>1
    <3>6. QED
      BY <1>1, <3>1, <3>5 DEF Replaced
  <2>3. QED
    BY <2>1, <2>2
<1>7. QED
  BY <1>5, <1>6

\* At its end the section of the thread has replaced every place.
LEMMA PollUnlockSettles ==
    ASSUME TypeOK, Thread, SlotsBelong, Settled, Replaced, PollUnlock
    PROVE  Settled' /\ Replaced'
<1>1. UNCHANGED input /\ pc = "copy"
  BY DEF PollUnlock
<1>2. pc' # "copy"
  <2>1. CASE kind \in Reads
    BY <2>1, PollUnlockStarts DEF Started
  <2>2. CASE kind \notin Reads
    BY <2>2 DEF PollUnlock
  <2>3. QED
    BY <2>1, <2>2
<1>3. ASSUME NEW b \in DOMAIN input, NEW s \in Slots, input[b][s] # Null, Copying(input[b][s])
      PROVE  input[b][s].parity = answers[dev][kind]
  <2>1. kind \in Reads /\ input[b][s].dev = dev /\ input[b][s].kind = kind
    BY <1>3 DEF Copying
  <2>2. Progress = Size[dev][kind]
    BY <2>1, PollUnlockStarts
  <2>3. input[b][s].place \in 1 .. Size[dev][kind]
    BY <1>3, <2>1 DEF SlotsBelong, Belongs
  <2>4. Size[dev][kind] \in Nat
    BY <1>1, ThreadKind
  <2>5. input[b][s].place <= Progress
    BY <2>2, <2>3, <2>4
  <2>6. QED
    BY <1>3, <2>5 DEF Replaced
<1>4. ASSUME NEW b \in DOMAIN input, NEW s \in Slots, NEW t \in Slots,
             input[b][s] # Null, input[b][t] # Null,
             input[b][s].dev = input[b][t].dev, input[b][s].kind = input[b][t].kind
      PROVE  input[b][s].parity = input[b][t].parity
  <2>1. CASE Copying(input[b][s])
    <3>1. Copying(input[b][t])
      BY <1>4, <2>1 DEF Copying
    <3>2. QED
      BY <1>3, <1>4, <2>1, <3>1
  <2>2. CASE ~Copying(input[b][s])
    BY <1>4, <2>2 DEF Settled
  <2>3. QED
    BY <2>1, <2>2
<1>5. Settled'
  BY <1>1, <1>4 DEF Settled
<1>6. Replaced'
  BY <1>2 DEF Replaced, Copying
<1>7. QED
  BY <1>5, <1>6

LEMMA PollLockSettles ==
    ASSUME TypeOK, Thread, SlotsBelong, Settled, Replaced, PollLock
    PROVE  Settled' /\ Replaced'
<1>1. UNCHANGED <<input, dev, kind, tempBuff, answers>> /\ pc = "lock" /\ pc' = "copy"
  BY DEF PollLock
<1>2. \A v : ~Copying(v)
  BY <1>1 DEF Copying
<1>3. Settled'
  BY <1>1, <1>2 DEF Settled
<1>4. ASSUME NEW b \in DOMAIN input, NEW s \in Slots, input[b][s] # Null,
             kind \in Reads, input[b][s].dev = dev, input[b][s].kind = kind,
             input[b][s].place <= Progress'
      PROVE  FALSE
  <2>1. Len(tempBuff) = Size[dev][kind] /\ Size[dev][kind] \in Nat
    BY <1>1, <1>4, ThreadKind DEF Reading, ReadBuff, Thread
  <2>2. Progress' = 0
    BY <1>1, <1>4, <2>1 DEF Progress
  <2>3. input[b][s].place \in 1 .. Size[dev][kind]
    BY <1>4 DEF SlotsBelong, Belongs
  <2>4. QED
    BY <1>4, <2>2, <2>3, <2>1
<1>5. Replaced'
  BY <1>1, <1>4 DEF Replaced, Copying
<1>6. QED
  BY <1>3, <1>5

LEMMA SettledStep ==
    ASSUME TypeOK, Thread, SlotsBelong, Settled, Replaced, Next \/ UNCHANGED vars
    PROVE  Settled' /\ Replaced'
<1>1. CASE CopyIn
  BY <1>1, CopyInSettles
<1>2. CASE PollUnlock
  BY <1>2, PollUnlockSettles
<1>3. CASE PollLock
  BY <1>3, PollLockSettles
<1>4. CASE CopyOut
  <2>1. UNCHANGED <<input, pc, kind, dev>> /\ kind \notin Reads
    BY <1>4 DEF CopyOut
  <2>2. QED
    BY <2>1 DEF Settled, Replaced, Copying
<1>5. CASE ~CopyIn /\ ~CopyOut /\ ~PollLock /\ ~PollUnlock
  <2>1. (pc' = "copy" <=> pc = "copy") /\ (pc = "copy" => UNCHANGED <<pollVars, answers>>)
        /\ UNCHANGED input
    BY <1>5, PollOutside
  <2>2. CASE pc = "copy"
    <3>1. UNCHANGED <<pc, dev, kind, tempBuff, answers, input>>
      BY <2>1, <2>2 DEF pollVars
    <3>2. UNCHANGED Progress
      BY <3>1 DEF Progress
    <3>3. QED
      BY <3>1, <3>2 DEF Settled, Replaced, Copying
  <2>3. CASE pc # "copy"
    BY <2>1, <2>3 DEF Settled, Replaced, Copying
  <2>4. QED
    BY <2>2, <2>3
<1>6. QED
  BY <1>1, <1>2, <1>3, <1>4, <1>5

LEMMA ImagedStep ==
    ASSUME TypeOK, Thread, Locked, Settled, Imaged, Next \/ UNCHANGED vars
    PROVE  Imaged'
<1>1. /\ DOMAIN image = {"bool_input", "int_input"} /\ DOMAIN input = DOMAIN image
      /\ at \in 0 .. MaxIO /\ MaxIO \in Nat
  BY BoundsAssumption DEF TypeOK
<1>2. CASE Poll \/ UNCHANGED vars
  <2>1. UNCHANGED mainVars /\ (mainPc = "in" => UNCHANGED input)
    <3>1. CASE CopyIn
      BY <3>1 DEF CopyIn, Locked
    <3>2. CASE ~CopyIn
      BY <1>2, <3>2 DEF Poll, ConnectFails, StartDevice, ReadFails, ReadAnswers, PollLock,
        CopyOut, PollUnlock, WriteFails, WriteArrives, vars
    <3>3. QED
      BY <3>1, <3>2
  <2>2. CASE mainPc = "in"
    BY <2>1, <2>2 DEF mainVars, Imaged
  <2>3. CASE mainPc # "in"
    <3>1. UNCHANGED <<mainPc, image>>
      BY <2>1 DEF mainVars
    <3>2. QED
      BY <2>3, <3>1 DEF Imaged, OneAnswer
  <2>4. QED
    BY <2>2, <2>3
<1>3. CASE MainLock
  <2>1. mainPc # "in" /\ mainPc' \in {"in", "out"} /\ at' = 0 /\ UNCHANGED <<image, input>>
    BY <1>3 DEF MainLock
  <2>2. \A s \in 0 .. 0 - 1 : FALSE
    OBVIOUS
  <2>3. QED
    BY <2>1, <2>2 DEF Imaged, OneAnswer
<1>4. CASE MainCopy
  <2>1. UNCHANGED <<mainPc, input>> /\ DOMAIN image' = {"bool_input", "int_input"}
    BY <1>4, MainCopies DEF MainCopy
  <2>2. CASE mainPc = "in"
    <3>1. ASSUME NEW b \in {"bool_input", "int_input"}, NEW s \in 0 .. at' - 1
          PROVE  image'[b][s] = input[b][s]
      <4>1. s \in Slots /\ (s = at \/ s \in 0 .. at - 1)
        BY <1>1, <1>4, MainCopies DEF Slots
      <4>2. QED
        BY <1>1, <1>4, <2>2, <4>1, MainCopies DEF Imaged
    <3>2. QED
      BY <2>1, <2>2, <3>1 DEF Imaged
  <2>3. CASE mainPc # "in"
    BY <1>4, <2>1, <2>3 DEF MainCopy, Imaged, OneAnswer
  <2>4. QED
    BY <2>2, <2>3
<1>5. CASE MainUnlock
  <2>1. UNCHANGED image /\ mainPc' # "in" /\ at = MaxIO /\ mainPc \in {"in", "out"}
    BY <1>5 DEF MainUnlock
  <2>2. CASE mainPc = "in"
    <3>1. \A b \in {"bool_input", "int_input"} : \A s \in Slots : image[b][s] = input[b][s]
      BY <1>1, <2>1, <2>2 DEF Imaged, Slots
    <3>2. pc # "copy"
      BY <2>2 DEF Locked
    <3>3. OneAnswer(image)
      BY <1>1, <3>1, <3>2 DEF Settled, Copying, OneAnswer
    <3>4. QED
      BY <2>1, <3>3 DEF Imaged, OneAnswer
  <2>3. CASE mainPc # "in"
    BY <2>1, <2>3 DEF Imaged, OneAnswer
  <2>4. QED
    BY <2>2, <2>3
<1>6. QED
  BY <1>2, <1>3, <1>4, <1>5 DEF Next, Main

-------------------------------------------------------------------------------
(***************************************************************************)
(* The theorems                                                            *)
(***************************************************************************)
LEMMA InitIInv == Init => IInv
<1> SUFFICES ASSUME Init
             PROVE  IInv
  OBVIOUS
<1>1. NumDevices \in Nat \ {0} /\ 0 \in Devices /\ 0 \in 0 .. NumDevices
      /\ MaxIO \in Nat /\ MaxScans \in Nat /\ MaxFaults \in Nat
  BY DevicesAssumption, BoundsAssumption DEF Devices
<1>2. SlotsBefore[0] = Zero
  BY <1>1, SlotsBeforeDef DEF Sum, Zero
<1>3. \A p \in Ports : {d \in Devices : Port[d] = p} # {}
  BY DEF Ports
<1>4. \A p \in Ports : slave[p] = Max({d \in Devices : Port[d] = p}) /\ slave[p] \in Devices
                       /\ Port[slave[p]] = p
  <2>1. ASSUME NEW p \in Ports
        PROVE  Max({d \in Devices : Port[d] = p}) \in {d \in Devices : Port[d] = p}
    BY <1>3, MaxIsMember
  <2>2. QED
    BY <2>1 DEF Init
<1>5. TypeOK
  <2>1. slave \in [Ports -> Devices] /\ open \in [Ports -> BOOLEAN]
        /\ isConnected \in [Devices -> BOOLEAN]
    BY <1>4 DEF Init
  <2>2. index \in [Buffers -> 0 .. MaxIO] /\ tempBuff \in Seq(Values)
    BY <1>1 DEF Init, Zero
  <2>3. /\ input \in [{"bool_input", "int_input"} -> [Slots -> Values \union {Null}]]
        /\ image \in [{"bool_input", "int_input"} -> [Slots -> Values \union {Null}]]
        /\ output \in [{"bool_output", "int_output"} -> [Slots -> 0 .. MaxScans]]
    BY <1>1 DEF Init
  <2>4. /\ answers \in [Devices -> [Reads -> {0, 1}]]
        /\ received \in [Devices -> [{"coils", "hrWrite"} -> Seq(Outputs)]]
    BY DEF Init
  <2>5. QED
    BY <1>1, <2>1, <2>2, <2>3, <2>4 DEF Init, TypeOK
<1>6. Position
  BY <1>2 DEF Init, Position
<1>7. Addressed
  <2>1. ASSUME NEW d \in Devices, Sharing(d) = {}
        PROVE  slave[Port[d]] = d
    <3>1. Port[d] \in Ports
      BY DEF Ports
    <3>2. slave[Port[d]] \in Devices /\ Port[slave[Port[d]]] = Port[d]
      BY <1>4, <3>1
    <3>3. QED
      BY <2>1, <3>2, DevicesAssumption DEF Sharing
  <2>2. QED
    BY <2>1 DEF Init, Addressed
<1>8. Locked /\ ReadBuff /\ WriteBuff
  BY DEF Init, Locked, ReadBuff, WriteBuff, Reading, Writing
<1>9. OutputOfOneScan /\ SlotsBelong /\ Settled /\ Replaced /\ Imaged
  BY DEF Init, OutputOfOneScan, SlotsBelong, Settled, Replaced, Imaged, OneAnswer
<1>10. MessageIsOneScan
  BY DEF Init, MessageIsOneScan
<1>11. QED
  BY <1>5, <1>6, <1>7, <1>8, <1>9, <1>10 DEF IInv

LEMMA StepIInv == IInv /\ [Next]_vars => IInv'
<1> SUFFICES ASSUME IInv, Next \/ UNCHANGED vars
             PROVE  IInv'
  OBVIOUS
<1>1. TypeOK /\ Thread /\ Addressed /\ Locked /\ OutputOfOneScan /\ SlotsBelong /\ Settled
      /\ Replaced /\ Imaged /\ MessageIsOneScan
  BY DEF IInv, Thread
<1>2. TypeOK' /\ Thread'
  BY <1>1, TypeStep, ThreadStep
<1>3. Addressed' /\ Locked' /\ OutputOfOneScan' /\ MessageIsOneScan'
  BY <1>1, AddressedStep, LockedStep, OutputStep, MessageStep
<1>4. SlotsBelong' /\ Settled' /\ Replaced' /\ Imaged'
  BY <1>1, SlotsBelongStep, SettledStep, ImagedStep
<1>5. QED
  BY <1>2, <1>3, <1>4 DEF IInv, Thread

LEMMA Invariance == Spec => []IInv
<1>1. QED
  BY InitIInv, StepIInv, PTL DEF Spec

\* The poll of any configuration keeps the types, and its four counters never run
\* past the buffers (querySlaveDevices).
THEOREM TypeCorrect == Spec => []TypeOK
<1>1. IInv => TypeOK
  BY DEF IInv
<1>2. QED
  BY <1>1, Invariance, PTL

\* Whatever connect or transfer fails, each slot of the input buffers only holds
\* values of its own register.
THEOREM SlotsSafe == Spec => []SlotsBelongToRegisters
<1>1. IInv => SlotsBelongToRegisters
  BY DEF IInv, SlotsBelong, Belongs, SlotsBelongToRegisters
<1>2. QED
  BY <1>1, Invariance, PTL

\* The coils and registers written to a device are its own slots, and all of one scan.
THEOREM MessagesSafe == Spec => []MessageIsOneScan
<1>1. IInv => MessageIsOneScan
  BY DEF IInv
<1>2. QED
  BY <1>1, Invariance, PTL

\* A scan never computes on registers of two answers of a device.
THEOREM ScansSafe == Spec => []ScanReadsOneAnswer
<1>1. IInv => ScanReadsOneAnswer
  BY DEF IInv, Imaged, OneAnswer, ScanReadsOneAnswer
<1>2. QED
  BY <1>1, Invariance, PTL
===============================================================================
