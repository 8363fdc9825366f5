--------------------------- MODULE ModbusMapProofs ----------------------------
(***************************************************************************)
(* Proofs about ModbusMap, for tables of every size and messages of every  *)
(* length.                                                                 *)
(***************************************************************************)
EXTENDS ModbusMap, SequenceTheorems, WellFoundedInduction, NaturalsInduction, TLAPS

\* What holds of 0 and of every successor holds of every natural number.
LEMMA Induction ==
    ASSUME NEW S, 0 \in S, \A n \in Nat : n \in S => n + 1 \in S
    PROVE  Nat \subseteq S
<1> SUFFICES ASSUME Nat \ S # {}
             PROVE  FALSE
  OBVIOUS
<1>1. Nat \ S \in SUBSET Nat
  OBVIOUS
<1>2. PICK x \in Nat \ S : \A y \in Nat \ S : ~(<<y, x>> \in OpToRel(<, Nat))
  BY <1>1, NatLessThanWellFounded, WFMin
<1>3. x - 1 \in Nat /\ x - 1 < x /\ x = (x - 1) + 1
  <2>1. x \in Nat /\ x # 0
    BY <1>2
  <2>2. QED
    BY <2>1
<1>4. x - 1 \notin S
  BY <1>2, <1>3
<1>5. <<x - 1, x>> \in OpToRel(<, Nat)
  BY <1>2, <1>3 DEF OpToRel
<1>6. QED
  BY <1>2, <1>3, <1>4, <1>5, Zenon

-------------------------------------------------------------------------------
(***************************************************************************)
(* A message is written word by word                                       *)
(***************************************************************************)
\* The states after each word of a message, as WriteWords defines them.
After(f, i, s, start, count, ws, notNull) ==
  IF i = 0 THEN s ELSE WriteOne(f[i - 1], start, count, ws, notNull, i)

\* f[0], ..., f[count] are the tables as the words of a multiple write change them.
Course(f, s, start, count, ws, notNull) ==
    /\ f[0] = s
    /\ \A i \in 1 .. count : f[i] = WriteOne(f[i - 1], start, count, ws, notNull, i)
    /\ WriteWords(s, start, count, ws, notNull) = f[count]

LEMMA WordByWord ==
    ASSUME NEW s, NEW start, NEW count \in Nat, NEW ws, NEW notNull
    PROVE  \E f : Course(f, s, start, count, ws, notNull)
<1> DEFINE F(f, n) == [i \in 0 .. n |-> After(f, i, s, start, count, ws, notNull)]
           S == {n \in Nat : \E f : f = F(f, n)}
<1>1. 0 \in S
  <2>1. [i \in 0 .. 0 |-> s] = F([i \in 0 .. 0 |-> s], 0)
    BY DEF After
  <2>2. QED
    BY <2>1
<1>2. ASSUME NEW n \in Nat, n \in S
      PROVE  n + 1 \in S
  <2>1. PICK g : g = F(g, n)
    BY <1>2
  <2> DEFINE f == [i \in 0 .. n + 1 |->
                     IF i = n + 1 THEN After(g, i, s, start, count, ws, notNull) ELSE g[i]]
  <2>2. ASSUME NEW i \in 0 .. n + 1
        PROVE  f[i] = After(f, i, s, start, count, ws, notNull)
    <3>1. CASE i = 0
      BY <2>1, <3>1 DEF After
    <3>2. CASE i # 0
      <4>1. i - 1 \in 0 .. n /\ i - 1 # n + 1
        BY <3>2
      <4>2. f[i - 1] = g[i - 1]
        BY <4>1
      <4>3. After(f, i, s, start, count, ws, notNull) = After(g, i, s, start, count, ws, notNull)
        BY <4>2 DEF After
      <4>4. f[i] = After(g, i, s, start, count, ws, notNull)
        BY <2>1
      <4>5. QED
        BY <4>3, <4>4
    <3>3. QED
      BY <3>1, <3>2
  <2>3. f = [i \in 0 .. n + 1 |-> f[i]]
    OBVIOUS
  <2> HIDE DEF f
  <2>4. f = F(f, n + 1)
    BY <2>2, <2>3
  <2>5. \E h : h = F(h, n + 1)
    BY <2>4
  <2>6. QED
    BY <2>5
<1>3. count \in S
  <2> HIDE DEF S
  <2>1. QED
    BY <1>1, <1>2, Induction
<1> DEFINE h == CHOOSE f : f = F(f, count)
<1>4. h = F(h, count)
  BY <1>3
<1>5. WriteWords(s, start, count, ws, notNull) = h[count]
  BY DEF WriteWords, After
<1> HIDE DEF h
<1>6. h[0] = s
  BY <1>4 DEF After
<1>7. \A i \in 1 .. count : h[i] = WriteOne(h[i - 1], start, count, ws, notNull, i)
  BY <1>4 DEF After
<1>8. Course(h, s, start, count, ws, notNull)
  BY <1>5, <1>6, <1>7 DEF Course
<1>9. QED
  BY <1>8

-------------------------------------------------------------------------------
(***************************************************************************)
(* Addresses                                                               *)
(***************************************************************************)
LEMMA Sizes == A \in Nat \ {0} /\ BYTE \in Nat \ {0} /\ BITS \in Nat \ {0} /\ MaxCoils \in Nat \ {0}
               /\ MaxBytes \in Nat /\ MaxRequests \in Nat
  BY SizesAssumption

\* The words of a 64-bit variable belong to it.
LEMMA LongVariable ==
    ASSUME NEW p \in Addr, Is64(p), NEW k \in 0 .. 3
    PROVE  /\ Variable(p) + k \in Addr /\ Is64(Variable(p) + k)
           /\ Variable(Variable(p) + k) = Variable(p)
<1>1. p \in Nat /\ p < 8 * A /\ 4 * A <= p /\ A \in Nat
  BY Sizes DEF Addr, Is64, MIN_64B
<1>2. Variable(p) = p - (p % 4)
  BY DEF Variable
<1>3. p - (p % 4) + k \in Nat /\ p - (p % 4) + k < 8 * A /\ 4 * A <= p - (p % 4) + k
  BY <1>1
<1>4. (p - (p % 4) + k) - ((p - (p % 4) + k) % 4) = p - (p % 4)
  BY <1>1
<1>5. QED
  BY <1>1, <1>2, <1>3, <1>4 DEF Addr, Is64, MIN_64B, Variable

LEMMA LowByteTwice == \A w \in Word : (w % BYTE) * (BYTE + 1) \in Word
<1> SUFFICES ASSUME NEW w \in Word
             PROVE  (w % BYTE) * (BYTE + 1) \in Word
  OBVIOUS
<1>1. w % BYTE \in 0 .. BYTE - 1
  BY Sizes DEF Word
<1>2. ASSUME NEW x \in 0 .. BYTE - 1
      PROVE  x * (BYTE + 1) \in 0 .. BYTE * BYTE - 1
  <2>1. x * (BYTE + 1) <= (BYTE - 1) * (BYTE + 1)
    BY Sizes
  <2>2. (BYTE - 1) * (BYTE + 1) = BYTE * BYTE - 1
    BY Sizes
  <2>3. x * (BYTE + 1) \in Nat
    BY Sizes
  <2>4. QED
    BY <2>1, <2>2, <2>3, Sizes
<1>3. QED
  BY <1>1, <1>2 DEF Word

-------------------------------------------------------------------------------
(***************************************************************************)
(* One word                                                                *)
(***************************************************************************)
RegisterState == [reg : [Addr -> Word], input : [0 .. A - 1 -> Word], crashed : BOOLEAN]

LEMMA PutOne ==
    ASSUME NEW s \in RegisterState, NEW p \in Addr, NEW w \in Word
    PROVE  /\ Put(s, p, w) \in RegisterState /\ Put(s, p, w).crashed = s.crashed
           /\ Put(s, p, w).input = s.input
           /\ Put(s, p, w).reg[p] = w
           /\ \A q \in Addr \ {p} : Put(s, p, w).reg[q] = s.reg[q]
<1>1. Put(s, p, w) = [reg |-> [s.reg EXCEPT ![p] = w], input |-> s.input, crashed |-> s.crashed]
  BY DEF Put, RegisterState
<1>2. [s.reg EXCEPT ![p] = w] \in [Addr -> Word]
  BY DEF RegisterState
<1>3. QED
  BY <1>1, <1>2 DEF RegisterState

LEMMA PutInput ==
    ASSUME NEW s \in RegisterState, NEW w \in Word
    PROVE  [s EXCEPT !.input[0] = w] \in RegisterState
           /\ [s EXCEPT !.input[0] = w].crashed = s.crashed
           /\ [s EXCEPT !.input[0] = w].reg = s.reg
<1>1. [s EXCEPT !.input[0] = w]
        = [reg |-> s.reg, input |-> [s.input EXCEPT ![0] = w], crashed |-> s.crashed]
  BY DEF RegisterState
<1>2. [s.input EXCEPT ![0] = w] \in [0 .. A - 1 -> Word]
  BY DEF RegisterState
<1>3. QED
  BY <1>1, <1>2 DEF RegisterState

\* A 16-bit register other than 1024 takes the word.
LEMMA Put16One ==
    ASSUME NEW s \in RegisterState, NEW p \in Addr, NEW w \in Word
    PROVE  /\ Put16(s, p, w) \in RegisterState /\ Put16(s, p, w).crashed = s.crashed
           /\ p # A => Put16(s, p, w).reg[p] = w
           /\ \A q \in Addr \ {p} : Put16(s, p, w).reg[q] = s.reg[q]
<1>1. CASE p # A \/ beyond = "int_memory"
  BY <1>1, PutOne DEF Put16
<1>2. CASE p = A /\ beyond = "int_input"
  BY <1>2, PutInput DEF Put16
<1>3. CASE p = A /\ beyond # "int_memory" /\ beyond # "int_input"
  BY <1>3 DEF Put16
<1>4. QED
  BY <1>1, <1>2, <1>3

LEMMA PutFallbackOne ==
    ASSUME NEW s \in RegisterState, NEW p \in Addr, NEW w \in Word
    PROVE  /\ PutFallback(s, p, w) \in RegisterState /\ PutFallback(s, p, w).crashed = s.crashed
           /\ \A q \in Addr \ {p} : PutFallback(s, p, w).reg[q] = s.reg[q]
  BY PutOne DEF PutFallback

LEMMA CrashedWord ==
    ASSUME NEW s \in RegisterState
    PROVE  [s EXCEPT !.crashed = TRUE].crashed
<1>1. [s EXCEPT !.crashed = TRUE].crashed = TRUE
  BY Zenon DEF RegisterState
<1>2. QED
  BY <1>1

\* The process dies when the pointer checked is another one than the pointer used.
LEMMA Write32One ==
    ASSUME NEW s \in RegisterState, ~s.crashed, NEW p \in Addr, NEW w \in Word,
           NEW notNull \in BOOLEAN
    PROVE  LET t == Write32(s, p, w, notNull) IN
           /\ t \in RegisterState
           /\ t.crashed => ~HasPointer(p) /\ notNull
           /\ ~t.crashed /\ notNull => t.reg[p] = w
           /\ \A q \in Addr \ {p} : t.reg[q] = s.reg[q]
<1>1. CASE ~notNull
  <2>1. Write32(s, p, w, notNull) = PutFallback(s, p, w)
    BY <1>1 DEF Write32
  <2>2. QED
    BY <1>1, <2>1, PutFallbackOne
<1>2. CASE notNull /\ HasPointer(p)
  <2>1. Write32(s, p, w, notNull) = Put(s, p, w)
    BY <1>2 DEF Write32
  <2>2. QED
    BY <2>1, PutOne
<1>3. CASE notNull /\ ~HasPointer(p)
  <2>1. Write32(s, p, w, notNull) = [s EXCEPT !.crashed = TRUE]
    BY <1>3 DEF Write32
  <2>2. [s EXCEPT !.crashed = TRUE] \in RegisterState
    BY DEF RegisterState
  <2>3. [s EXCEPT !.crashed = TRUE].reg = s.reg
    BY DEF RegisterState
  <2>4. QED
    BY <1>3, <2>1, <2>2, <2>3, CrashedWord
<1>4. QED
  BY <1>1, <1>2, <1>3

\* Word p of a 64-bit variable is put at q, the place of start in that variable.
Onto(start, p, q) == /\ Is64(p) /\ HasPointer(p) /\ p % 4 # 0
                     /\ Is64(start) /\ start % 4 # 0 /\ q = Variable(p) + (start % 4)

\* A first word, and one at the place of start, is put where it belongs; apart from it
\* only the place of start in its variable may change, of the registers with a pointer.
LEMMA Write64One ==
    ASSUME NEW s \in RegisterState, NEW start \in Addr, IsWide(start), NEW count \in Word,
           NEW p \in Addr, Is64(p), NEW w \in Word
    PROVE  LET t == Write64(s, start, count, p, w) IN
           /\ t \in RegisterState /\ t.crashed = s.crashed
           /\ HasPointer(p) /\ (p % 4 = 0 \/ (Is64(start) /\ p % 4 = start % 4)) => t.reg[p] = w
           /\ \A q \in Addr \ {p} : HasPointer(q) /\ ~Onto(start, p, q) => t.reg[q] = s.reg[q]
<1>1. start % 4 \in 0 .. 3
  BY Sizes DEF Addr
<1>2. Variable(p) + (start % 4) \in Addr
  BY <1>1, LongVariable
<1>3. CASE ~HasPointer(p)
  <2>1. Write64(s, start, count, p, w) = PutFallback(s, start, count)
    BY <1>3 DEF Write64
  <2>2. ASSUME NEW q \in Addr, HasPointer(q)
        PROVE  PutFallback(s, start, count).reg[q] = s.reg[q]
    <3>1. CASE q = start
      <4>1. Variable(start) \in Located
        BY <2>2, <3>1 DEF HasPointer
      <4>2. QED
        BY <4>1 DEF PutFallback
    <3>2. CASE q # start
      BY <3>2, PutFallbackOne
    <3>3. QED
      BY <3>1, <3>2
  <2>3. QED
    BY <1>3, <2>1, <2>2, PutFallbackOne
<1>4. CASE HasPointer(p) /\ p % 4 = 0
  <2>1. Write64(s, start, count, p, w) = Put(s, p, w)
    BY <1>4 DEF Write64
  <2>2. QED
    BY <2>1, PutOne
<1>5. CASE HasPointer(p) /\ p % 4 # 0 /\ Is64(start) /\ start % 4 # 0
  <2> DEFINE r == Variable(p) + (start % 4)
  <2>1. Write64(s, start, count, p, w) = Put(s, r, w)
    BY <1>5 DEF Write64
  <2>2. r \in Addr /\ \A q : Onto(start, p, q) <=> q = r
    BY <1>2, <1>5 DEF Onto
  <2>3. p % 4 = start % 4 => r = p
    <3>1. Variable(p) = p - (p % 4) /\ p \in Nat /\ p % 4 \in 0 .. 3
      BY DEF Variable, Addr
    <3>2. QED
      BY <3>1
  <2> HIDE DEF r
  <2>4. /\ Put(s, r, w) \in RegisterState /\ Put(s, r, w).crashed = s.crashed
        /\ Put(s, r, w).reg[r] = w
        /\ \A q \in Addr \ {r} : Put(s, r, w).reg[q] = s.reg[q]
    BY <2>2, PutOne
  <2>5. QED
    BY <1>5, <2>1, <2>2, <2>3, <2>4
<1>6. CASE HasPointer(p) /\ p % 4 # 0 /\ ~(Is64(start) /\ start % 4 # 0)
  <2>1. Write64(s, start, count, p, w) = s
    BY <1>6 DEF Write64
  <2>2. QED
    BY <1>6, <2>1
<1>7. QED
  BY <1>3, <1>4, <1>5, <1>6

LEMMA WordRange ==
    ASSUME NEW start \in Starts, NEW i \in Nat \ {0}, start + i - 1 \in Addr
    PROVE  start \in Addr
  BY Sizes DEF Starts, Addr

\* The registers that take the word meant for them.
Direct(start, p, notNull) ==
  /\ p # A /\ HasPointer(p)
  /\ IsWide(p) /\ ~Is64(p) => notNull
  /\ Is64(p) => p % 4 = 0 \/ (Is64(start) /\ p % 4 = start % 4)

\* One word of a message: where it may leave something, and when the process dies.
LEMMA WriteOneWord ==
    ASSUME NEW s \in RegisterState, NEW start \in Starts, NEW count \in Word,
           NEW ws \in Seq(Word), Len(ws) < 2 * A, NEW notNull \in BOOLEAN, NEW i \in 1 .. Len(ws)
    PROVE  LET t == WriteOne(s, start, count, ws, notNull, i)
               p == start + i - 1 IN
           /\ t \in RegisterState
           /\ s.crashed => t = s
           /\ t.crashed /\ ~s.crashed =>
                p \in Addr /\ IsWide(p) /\ ~Is64(p) /\ ~HasPointer(p) /\ notNull
           /\ ~t.crashed /\ p \in Addr /\ Direct(start, p, notNull) => t.reg[p] = ws[i]
           /\ \A q \in Addr \ {p} : HasPointer(q) /\ ~(p \in Addr /\ Onto(start, p, q))
                => t.reg[q] = s.reg[q]
<1> DEFINE p == start + i - 1
<1>1. ws[i] \in Word /\ i \in Nat \ {0} /\ i < 2 * A
  BY ElementOfSeq, LenProperties, Sizes
<1>2. CASE s.crashed \/ p \notin Addr
  <2>1. WriteOne(s, start, count, ws, notNull, i) = s
    BY <1>2 DEF WriteOne
  <2> HIDE DEF p
  <2>2. QED
    BY <1>2, <2>1 DEF p
<1>3. CASE ~s.crashed /\ p \in Addr /\ Is64(p)
  <2>1. start \in Addr /\ IsWide(start)
    <3>1. start \in Addr
      BY <1>1, <1>3, WordRange
    <3>2. start \in Addr /\ start \in Nat /\ A \in Nat
      BY <3>1, Sizes DEF Addr
    <3>3. start + i - 1 >= 4 * A
      BY <1>3 DEF Is64, MIN_64B
    <3>4. start >= 2 * A
      BY <1>1, <3>2, <3>3
    <3>5. QED
      BY <3>2, <3>4 DEF IsWide, MIN_32B
  <2>2. WriteOne(s, start, count, ws, notNull, i) = Write64(s, start, count, p, ws[i])
    BY <1>3 DEF WriteOne
  <2> HIDE DEF p
  <2>3. LET t == Write64(s, start, count, p, ws[i]) IN
        /\ t \in RegisterState /\ t.crashed = s.crashed
        /\ HasPointer(p) /\ (p % 4 = 0 \/ (Is64(start) /\ p % 4 = start % 4)) => t.reg[p] = ws[i]
        /\ \A q \in Addr \ {p} : HasPointer(q) /\ ~Onto(start, p, q) => t.reg[q] = s.reg[q]
    BY <1>1, <1>3, <2>1, Write64One
  <2> DEFINE t == Write64(s, start, count, p, ws[i])
  <2> HIDE DEF t
  <2>4. /\ t \in RegisterState /\ t.crashed = s.crashed
        /\ HasPointer(p) /\ (p % 4 = 0 \/ (Is64(start) /\ p % 4 = start % 4)) => t.reg[p] = ws[i]
        /\ \A q \in Addr \ {p} : HasPointer(q) /\ ~Onto(start, p, q) => t.reg[q] = s.reg[q]
    BY <2>3 DEF t
  <2>5. Direct(start, p, notNull) => t.reg[p] = ws[i]
    BY <1>3, <2>4 DEF Direct
  <2>6. WriteOne(s, start, count, ws, notNull, i) = t
    BY <2>2 DEF t
  <2>7. QED
    BY <1>3, <2>4, <2>5, <2>6, Zenon DEF p
<1>4. CASE ~s.crashed /\ p \in Addr /\ ~Is64(p) /\ IsWide(p)
  <2>1. WriteOne(s, start, count, ws, notNull, i) = Write32(s, p, ws[i], notNull)
    BY <1>4 DEF WriteOne
  <2> HIDE DEF p
  <2>2. LET t == Write32(s, p, ws[i], notNull) IN
        /\ t \in RegisterState
        /\ t.crashed => ~HasPointer(p) /\ notNull
        /\ ~t.crashed /\ notNull => t.reg[p] = ws[i]
        /\ \A q \in Addr \ {p} : t.reg[q] = s.reg[q]
    BY <1>1, <1>4, Write32One
  <2>3. Direct(start, p, notNull) => notNull
    BY <1>4 DEF Direct
  <2>4. QED
    BY <1>4, <2>1, <2>2, <2>3 DEF p
<1>5. CASE ~s.crashed /\ p \in Addr /\ ~Is64(p) /\ ~IsWide(p)
  <2>1. WriteOne(s, start, count, ws, notNull, i) = Put16(s, p, ws[i])
    BY <1>5 DEF WriteOne
  <2> HIDE DEF p
  <2>2. /\ Put16(s, p, ws[i]) \in RegisterState /\ Put16(s, p, ws[i]).crashed = s.crashed
        /\ p # A => Put16(s, p, ws[i]).reg[p] = ws[i]
        /\ \A q \in Addr \ {p} : Put16(s, p, ws[i]).reg[q] = s.reg[q]
    BY <1>1, <1>5, Put16One
  <2>3. Direct(start, p, notNull) => p # A
    BY DEF Direct
  <2>4. QED
    BY <1>5, <2>1, <2>2, <2>3 DEF p
<1>6. QED
  BY <1>2, <1>3, <1>4, <1>5

-------------------------------------------------------------------------------
(***************************************************************************)
(* A whole message                                                         *)
(***************************************************************************)
\* The addresses whose words the process dies from.
Mixed(start, p) == /\ p \in Addr /\ IsWide(p) /\ ~Is64(p) /\ ~HasPointer(p)
                   /\ IsWide(start) => HasPointer(start)

LEMMA CheckedPointer ==
    ASSUME NEW start, NEW notNull \in Checked(start)
    PROVE  notNull \in BOOLEAN /\ (notNull /\ IsWide(start) => HasPointer(start))
<1>1. \A p : HasPointer(p) \in BOOLEAN
  BY Zenon DEF HasPointer
<1>2. CASE IsWide(start)
  BY <1>1, <1>2 DEF Checked
<1>3. CASE ~IsWide(start)
  BY <1>1, <1>3 DEF Checked
<1>4. QED
  BY <1>2, <1>3

\* A register that is not disturbed takes the word meant for it, and no stray word
\* replaces that.
LEMMA Undisturbed ==
    ASSUME NEW start \in Starts, NEW count, NEW notNull \in Checked(start),
           NEW q \in Addr \ Disturbed(start, count), q # A, HasPointer(q)
    PROVE  /\ q \in Positions(start, count) => Direct(start, q, notNull)
           /\ \A p \in Positions(start, count) \intersect Addr :
                p # q /\ Onto(start, p, q) => q \in Positions(start, count) /\ ~(p > q)
<1>1. /\ q \notin {p \in Positions(start, count) \intersect Addr :
                     IsWide(p) /\ ~Is64(p) /\ FALSE \in Checked(start)}
      /\ q \notin Stray(start, count) /\ q \notin Misplaced(start, count)
  BY DEF Disturbed
<1>2. ASSUME q \in Positions(start, count)
      PROVE  Direct(start, q, notNull)
  <2>1. IsWide(q) /\ ~Is64(q) => notNull
    <3>1. SUFFICES ASSUME IsWide(q), ~Is64(q)
                   PROVE  notNull
      OBVIOUS
    <3>2. FALSE \notin Checked(start)
      BY <1>1, <1>2, <3>1
    <3>3. QED
      BY <3>2, CheckedPointer
  <2>2. Is64(q) => q % 4 = 0 \/ (Is64(start) /\ q % 4 = start % 4)
    BY <1>1, <1>2 DEF Stray
  <2>3. QED
    BY <2>1, <2>2 DEF Direct
<1>3. ASSUME NEW p \in Positions(start, count) \intersect Addr, p # q, Onto(start, p, q)
      PROVE  q \in Positions(start, count) /\ ~(p > q)
  <2>1. p % 4 # start % 4
    <3>1. SUFFICES ASSUME p % 4 = start % 4
                   PROVE  FALSE
      OBVIOUS
    <3>2. q = (p - (p % 4)) + (p % 4) /\ p \in Nat /\ p % 4 \in 0 .. 3
      BY <1>3, <3>1 DEF Onto, Variable, Addr
    <3>3. q = p
      BY <3>2
    <3>4. QED
      BY <1>3, <3>3
  <2>2. p \in Stray(start, count)
    BY <1>3, <2>1 DEF Onto, Stray
  <2>3. Is64(start) /\ start % 4 # 0 /\ q = Variable(p) + (start % 4)
    BY <1>3 DEF Onto
  <2>4. QED
    BY <1>1, <2>2, <2>3 DEF Misplaced
<1>4. QED
  BY <1>2, <1>3

LEMMA MessageWritten ==
    ASSUME NEW s \in RegisterState, ~s.crashed, NEW start \in Starts, NEW count \in Word,
           NEW ws \in Seq(Word), Len(ws) = count, count < 2 * A, NEW notNull \in Checked(start)
    PROVE  LET t == WriteWords(s, start, count, ws, notNull) IN
           /\ t \in RegisterState
           /\ t.crashed => \E p \in Positions(start, count) : Mixed(start, p)
           /\ ~t.crashed => \A q \in Addr \ Disturbed(start, count) : q # A /\ HasPointer(q) =>
                t.reg[q] = IF q \in Positions(start, count) THEN ws[q - start + 1] ELSE s.reg[q]
<1>1. count \in Nat /\ start \in Nat
  BY Sizes DEF Word, Starts
<1>b. notNull \in BOOLEAN /\ (notNull /\ IsWide(start) => HasPointer(start))
  BY CheckedPointer
<1>c. PICK f : Course(f, s, start, count, ws, notNull)
  BY <1>1, WordByWord
<1>2. /\ f[0] = s
      /\ \A i \in 1 .. count : f[i] = WriteOne(f[i - 1], start, count, ws, notNull, i)
      /\ WriteWords(s, start, count, ws, notNull) = f[count]
  BY <1>c DEF Course
\* After i words: a word that is still to come may have been replaced by a stray one.
<1> DEFINE Good(i) ==
      /\ f[i] \in RegisterState
      /\ f[i].crashed => \E p \in Positions(start, count) : Mixed(start, p)
      /\ ~f[i].crashed => \A q \in Addr \ Disturbed(start, count) : q # A /\ HasPointer(q) =>
           /\ q \in Positions(start, i) => f[i].reg[q] = ws[q - start + 1]
           /\ q \notin Positions(start, count) => f[i].reg[q] = s.reg[q]
    S == {i \in Nat : i <= count => Good(i)}
<1>3. 0 \in S
  <2>1. \A q : q \notin Positions(start, 0)
    BY <1>1 DEF Positions
  <2>2. QED
    BY <1>2, <2>1
<1>4. ASSUME NEW i \in Nat, i \in S
      PROVE  i + 1 \in S
  <2> SUFFICES ASSUME i + 1 <= count
               PROVE  Good(i + 1)
    OBVIOUS
  <2> DEFINE u == f[i]
             t == f[i + 1]
             p == start + (i + 1) - 1
  <2>1. Good(i) /\ i + 1 \in 1 .. count /\ i + 1 \in 1 .. Len(ws) /\ (i + 1) - 1 = i
    BY <1>1, <1>4
  <2>2. t = WriteOne(u, start, count, ws, notNull, i + 1) /\ u \in RegisterState
    BY <1>2, <2>1
  <2>3. p \in Positions(start, count) /\ p = start + i
    BY <1>1, <2>1 DEF Positions
  <2>4. /\ t \in RegisterState
        /\ u.crashed => t = u
        /\ t.crashed /\ ~u.crashed => Mixed(start, p)
        /\ ~t.crashed /\ p \in Addr /\ Direct(start, p, notNull) => t.reg[p] = ws[i + 1]
        /\ \A q \in Addr \ {p} : HasPointer(q) /\ ~(p \in Addr /\ Onto(start, p, q))
             => t.reg[q] = u.reg[q]
    <3> DEFINE r == WriteOne(u, start, count, ws, notNull, i + 1)
               x == start + (i + 1) - 1
    <3> HIDE DEF u
    <3>1. /\ r \in RegisterState
          /\ u.crashed => r = u
          /\ r.crashed /\ ~u.crashed =>
               x \in Addr /\ IsWide(x) /\ ~Is64(x) /\ ~HasPointer(x) /\ notNull
          /\ ~r.crashed /\ x \in Addr /\ Direct(start, x, notNull) => r.reg[x] = ws[i + 1]
          /\ \A q \in Addr \ {x} : HasPointer(q) /\ ~(x \in Addr /\ Onto(start, x, q))
               => r.reg[q] = u.reg[q]
      BY <1>b, <2>1, <2>2, WriteOneWord
    <3>2. t = r
      BY <2>2 DEF u
    <3> HIDE DEF t, r
    <3>3. QED
      BY <1>b, <3>1, <3>2, Zenon DEF Mixed
  <2> HIDE DEF t, u, p
  <2>5. t.crashed => \E r \in Positions(start, count) : Mixed(start, r)
    BY <2>1, <2>3, <2>4 DEF u
  <2>6. ASSUME ~t.crashed, NEW q \in Addr \ Disturbed(start, count), q # A, HasPointer(q)
        PROVE  /\ q \in Positions(start, i + 1) => t.reg[q] = ws[q - start + 1]
               /\ q \notin Positions(start, count) => t.reg[q] = s.reg[q]
    <3>1. ~u.crashed
      BY <2>4, <2>6
    <3>2. CASE q = p
      <4>1. Direct(start, q, notNull)
        BY <2>3, <2>6, <3>2, Undisturbed
      <4>2. t.reg[q] = ws[i + 1]
        BY <2>4, <2>6, <3>2, <4>1
      <4>3. q \in Positions(start, count) /\ q - start + 1 = i + 1
        BY <1>1, <2>3, <3>2
      <4>4. QED
        BY <4>2, <4>3
    <3>3. CASE q # p
      <4>1. q \in Positions(start, i + 1) <=> q \in Positions(start, i)
        BY <1>1, <2>3, <3>3 DEF Positions, Addr
      <4>2. CASE p \in Addr /\ Onto(start, p, q)
        <5>1. q \in Positions(start, count) /\ ~(p > q)
          BY <2>3, <2>6, <3>3, <4>2, Undisturbed
        <5>2. q \notin Positions(start, i + 1)
          BY <1>1, <2>3, <3>3, <5>1 DEF Positions, Addr
        <5>3. QED
          BY <5>1, <5>2
      <4>3. CASE ~(p \in Addr /\ Onto(start, p, q))
        <5>1. t.reg[q] = u.reg[q]
          BY <2>4, <2>6, <3>3, <4>3
        <5>2. QED
          BY <2>1, <2>6, <3>1, <4>1, <5>1 DEF u
      <4>4. QED
        BY <4>2, <4>3
    <3>4. QED
      BY <3>2, <3>3
  <2>7. QED
    BY <2>4, <2>5, <2>6 DEF t
<1>5. count \in S
  <2> HIDE DEF S
  <2>1. QED
    BY <1>1, <1>3, <1>4, Induction
<1>6. Good(count)
  BY <1>1, <1>5
<1>7. QED
  BY <1>2, <1>6

\* A word the process dies from lies in a variable behind the start of its message.
LEMMA MixedIsBehind ==
    ASSUME NEW start \in Starts, NEW p \in Nat, start <= p, Mixed(start, p)
    PROVE  Variable(p) > start
<1>1. start \in Nat /\ A \in Nat /\ p < 4 * A /\ 2 * A <= p
  BY Sizes DEF Starts, Mixed, IsWide, Is64, MIN_32B, MIN_64B
<1>2. Variable(p) = p - (p % 2) /\ Variable(p) \notin Located
  BY DEF Mixed, Variable, HasPointer
<1>3. CASE ~IsWide(start)
  <2>1. start < 2 * A
    BY <1>1, <1>3 DEF IsWide, MIN_32B
  <2>2. 2 * A <= p - (p % 2)
    BY <1>1
  <2>3. QED
    BY <1>1, <1>2, <2>1, <2>2
<1>4. CASE IsWide(start)
  <2>1. ~Is64(start)
    BY <1>1 DEF Is64, MIN_64B
  <2>2. Variable(start) = start - (start % 2) /\ Variable(start) \in Located
    BY <1>4, <2>1 DEF Mixed, Variable, HasPointer
  <2>3. start - (start % 2) # p - (p % 2)
    BY <1>2, <2>2
  <2>4. p - (p % 2) > start
    BY <1>1, <2>3
  <2>5. QED
    BY <1>2, <2>4
<1>5. QED
  BY <1>3, <1>4

-------------------------------------------------------------------------------
(***************************************************************************)
(* The inductive invariant                                                 *)
(***************************************************************************)
\* While the process lives, every register with a pointer that no request has
\* disturbed holds the word that was asked for last.
AsAsked ==
  ~crashed => \A p \in Addr \ (unsure \union {A}) : HasPointer(p) => reg[p] = asked[p]

IInv == TypeOK /\ CrashNeedsMixedRequest /\ AsAsked

LEMMA MessageTypes ==
    /\ \A count \in Counts : count \in Word /\ count \in Nat
    /\ \A ws \in Data : /\ ws \in Seq(Word) /\ Len(ws) \in Nat /\ Len(ws) < 2 * A
                        /\ ws # <<>> => ws[1] \in Word
    /\ \A bs \in CoilData : bs \in Seq({0, 1}) /\ Len(bs) \in Nat
<1>1. ASSUME NEW count \in Counts
      PROVE  count \in Word /\ count \in Nat
  BY DataAssumption, Sizes DEF Word
<1>2. ASSUME NEW ws \in Data
      PROVE  /\ ws \in Seq(Word) /\ Len(ws) \in Nat /\ Len(ws) < 2 * A
             /\ ws # <<>> => ws[1] \in Word
  <2>1. ws \in Seq(Word) /\ Len(ws) < 2 * A
    BY DataAssumption DEF Word
  <2>2. Len(ws) \in Nat /\ (ws # <<>> => 1 \in 1 .. Len(ws))
    BY <2>1, LenProperties, EmptySeq
  <2>3. QED
    BY <2>1, <2>2, ElementOfSeq
<1>3. ASSUME NEW bs \in CoilData
      PROVE  bs \in Seq({0, 1}) /\ Len(bs) \in Nat
  BY DataAssumption, LenProperties
<1>4. QED
  BY <1>1, <1>2, <1>3

LEMMA InitIInv == Init => IInv
<1> SUFFICES ASSUME Init
             PROVE  IInv
  OBVIOUS
<1>1. 0 \in Word
  <2>1. BYTE * BYTE >= 1
    BY Sizes
  <2>2. QED
    BY <2>1, Sizes DEF Word
<1>2. reg \in [Addr -> Word] /\ input \in [0 .. A - 1 -> Word] /\ coil \in [Coil -> {0, 1}]
  BY <1>1 DEF Init
<1>3. response.error = "none" /\ response.data = <<>> /\ response.data \in Seq(Word)
  BY DEF Init, Ok
<1>4. TypeOK
  <2>1. beyond \in {"int_memory", "int_input", "null"} /\ asked = reg /\ unsure \subseteq Addr
    BY DEF Init
  <2>2. handled \in 0 .. MaxRequests
    BY Sizes DEF Init
  <2>3. crashed \in BOOLEAN
    BY Zenon DEF Init
  <2>4. QED
    BY <1>2, <1>3, <2>1, <2>2, <2>3 DEF TypeOK
<1>5. CrashNeedsMixedRequest /\ AsAsked
  BY DEF Init, CrashNeedsMixedRequest, AsAsked
<1>6. QED
  BY <1>4, <1>5 DEF IInv

\* The history and the registers of a request that does not write registers.
LEMMA RegistersStay ==
    ASSUME IInv, NEW fc, NEW start, NEW count, Request(fc, start, count),
           UNCHANGED <<reg, input, crashed, history>>, coil' \in [Coil -> {0, 1}],
           response'.error \in {"none", "function", "address", "value"},
           response'.data \in Seq(Word)
    PROVE  IInv'
<1>1. ~crashed /\ handled' \in 0 .. MaxRequests /\ UNCHANGED beyond
  BY Sizes DEF Request, IInv, TypeOK
<1>2. TypeOK'
  BY <1>1 DEF IInv, TypeOK, history
<1>3. CrashNeedsMixedRequest'
  BY <1>1 DEF CrashNeedsMixedRequest
<1>4. AsAsked'
  BY DEF IInv, AsAsked, history
<1>5. QED
  BY <1>2, <1>3, <1>4 DEF IInv

LEMMA ErrorTypes ==
    /\ Ok.error = "none" /\ Ok.data \in Seq(Word)
    /\ \A e : Error(e).error = e /\ Error(e).data \in Seq(Word)
<1>1. <<>> \in Seq(Word)
  OBVIOUS
<1>2. QED
  BY <1>1 DEF Ok, Error

LEMMA ReadWordType ==
    ASSUME TypeOK, NEW p \in Addr
    PROVE  ReadWord(p) \in Word
<1>1. reg[p] \in Word /\ input[0] \in Word /\ 0 \in Word
  <2>1. 0 \in 0 .. A - 1
    BY Sizes
  <2>2. BYTE * BYTE >= 1
    BY Sizes
  <2>3. QED
    BY <2>1, <2>2, Sizes DEF TypeOK, Word
<1>2. CASE p = A
  <2>1. beyond \in {"int_memory", "int_input", "null"}
    BY DEF TypeOK
  <2>2. [int_memory |-> reg[p], int_input |-> input[0], null |-> 0][beyond] \in Word
    BY <1>1, <2>1
  <2>3. QED
    BY <1>2, <2>2 DEF ReadWord
<1>3. CASE p # A /\ HasPointer(p)
  BY <1>1, <1>3 DEF ReadWord
<1>4. CASE p # A /\ ~HasPointer(p)
  BY <1>1, <1>4, LowByteTwice DEF ReadWord
<1>5. QED
  BY <1>2, <1>3, <1>4

LEMMA AnswerType ==
    ASSUME NEW count \in Nat, NEW f, \A i \in 1 .. count : f[i] \in Word,
           f = [i \in 1 .. count |-> f[i]]
    PROVE  Answer(f).error = "none" /\ Answer(f).data \in Seq(Word)
<1>1. f \in Seq(Word)
  OBVIOUS
<1>2. QED
  BY <1>1 DEF Answer

\* The addresses of a read that is not refused lie in its table.
LEMMA InTable ==
    ASSUME NEW size \in Nat, NEW start \in Nat, NEW count \in Nat, ~PastEnd(size, start, count),
           NEW i \in 1 .. count
    PROVE  start + i - 1 \in 0 .. size - 1
  BY DEF PastEnd

LEMMA ReadHoldingType ==
    ASSUME TypeOK, NEW start \in Starts, NEW count \in Counts, ReadHoldingRegisters(start, count)
    PROVE  response'.error \in {"none", "address"} /\ response'.data \in Seq(Word)
<1>1. start \in Nat /\ count \in Nat /\ 8 * A \in Nat
  BY MessageTypes, Sizes DEF Starts
<1>2. CASE response' = Error("address")
  BY <1>2, ErrorTypes
<1>3. CASE ~PastEnd(8 * A, start, count)
           /\ response' = Answer([i \in 1 .. count |-> ReadWord(start + i - 1)])
  <2> DEFINE f == [i \in 1 .. count |-> ReadWord(start + i - 1)]
  <2>1. ASSUME NEW i \in 1 .. count
        PROVE  f[i] \in Word
    <3>1. start + i - 1 \in Addr
      BY <1>1, <1>3, InTable DEF Addr
    <3>2. QED
      BY <3>1, ReadWordType
  <2>2. f = [i \in 1 .. count |-> f[i]]
    OBVIOUS
  <2>3. response' = Answer(f)
    BY <1>3
  <2> HIDE DEF f
  <2>4. QED
    BY <1>1, <2>1, <2>2, <2>3, AnswerType
<1>4. QED
  BY <1>2, <1>3 DEF ReadHoldingRegisters, ReadTable

LEMMA ReadInputType ==
    ASSUME TypeOK, NEW start \in Starts, NEW count \in Counts, ReadInputRegisters(start, count)
    PROVE  response'.error \in {"none", "address"} /\ response'.data \in Seq(Word)
<1>1. start \in Nat /\ count \in Nat /\ A \in Nat
  BY MessageTypes, Sizes DEF Starts
<1>2. CASE response' = Error("address")
  BY <1>2, ErrorTypes
<1>3. CASE ~PastEnd(A, start, count)
           /\ response' = Answer([i \in 1 .. count |-> input[start + i - 1]])
  <2> DEFINE f == [i \in 1 .. count |-> input[start + i - 1]]
  <2>1. ASSUME NEW i \in 1 .. count
        PROVE  f[i] \in Word
    <3>1. start + i - 1 \in 0 .. A - 1
      BY <1>1, <1>3, InTable
    <3>2. QED
      BY <3>1 DEF TypeOK
  <2>2. f = [i \in 1 .. count |-> f[i]]
    OBVIOUS
  <2>3. response' = Answer(f)
    BY <1>3
  <2> HIDE DEF f
  <2>4. QED
    BY <1>1, <2>1, <2>2, <2>3, AnswerType
<1>4. QED
  BY <1>2, <1>3 DEF ReadInputRegisters, ReadTable

LEMMA BytesType == \A count \in Nat : Bytes(count) \in Nat /\ Bytes(count) * BITS \in Nat
<1> SUFFICES ASSUME NEW count \in Nat
             PROVE  Bytes(count) \in Nat /\ Bytes(count) * BITS \in Nat
  OBVIOUS
<1>1. count + BITS - 1 \in Nat
  BY Sizes
<1>2. Bytes(count) \in Nat
  BY <1>1, Sizes DEF Bytes
<1>3. QED
  BY <1>2, Sizes

\* A coil has two values, both of them words: a byte has more than one value.
LEMMA BitsAreWords == 0 \in Word /\ 1 \in Word
<1>1. BYTE * BYTE >= 2
  BY Sizes, SizesAssumption
<1>2. QED
  BY <1>1, Sizes DEF Word

LEMMA ReadCoilsType ==
    ASSUME TypeOK, NEW start \in CoilStarts, NEW count \in Counts, ReadCoils(start, count)
    PROVE  response'.error \in {"none", "address"} /\ response'.data \in Seq(Word)
<1>1. start \in Nat /\ count \in Nat /\ MaxCoils \in Nat /\ Bytes(count) * BITS \in Nat
  BY MessageTypes, Sizes, BytesType DEF CoilStarts
<1>2. CASE response' = Error("address")
  BY <1>2, ErrorTypes
<1>3. CASE ~PastEnd(MaxCoils, start, Bytes(count) * BITS)
           /\ response' = Answer([i \in 1 .. Bytes(count) * BITS |-> coil[start + i - 1]])
  <2> DEFINE n == Bytes(count) * BITS
             f == [i \in 1 .. n |-> coil[start + i - 1]]
  <2>1. ASSUME NEW i \in 1 .. n
        PROVE  f[i] \in Word
    <3>1. start + i - 1 \in Coil
      BY <1>1, <1>3, InTable DEF Coil
    <3>2. coil[start + i - 1] \in {0, 1}
      BY <3>1 DEF TypeOK
    <3>3. QED
      BY <3>2, BitsAreWords
  <2>2. f = [i \in 1 .. n |-> f[i]]
    OBVIOUS
  <2>3. response' = Answer(f)
    BY <1>3
  <2>4. n \in Nat
    BY <1>1
  <2> HIDE DEF f, n
  <2>5. QED
    BY <2>1, <2>2, <2>3, <2>4, AnswerType
<1>4. QED
  BY <1>2, <1>3 DEF ReadCoils, ReadTable

\* Each read is answered with words, or refused.
LEMMA ReadRequestStep ==
    ASSUME IInv, ReadRequest
    PROVE  IInv'
<1>1. TypeOK
  BY DEF IInv
<1>2. PICK start \in Starts, count \in Counts :
        /\ \/ Request("readRegisters", start, count) /\ ReadHoldingRegisters(start, count)
           \/ Request("readInputs", start, count) /\ ReadInputRegisters(start, count)
           \/ start \in CoilStarts /\ Request("readCoils", start, count)
                                   /\ ReadCoils(start, count)
        /\ UNCHANGED <<reg, input, coil, crashed, history>>
  BY DEF ReadRequest
<1>3. response'.error \in {"none", "address"} /\ response'.data \in Seq(Word)
  BY <1>1, <1>2, ReadHoldingType, ReadInputType, ReadCoilsType
<1>4. coil' \in [Coil -> {0, 1}] /\ response'.error \in {"none", "function", "address", "value"}
  BY <1>1, <1>2, <1>3 DEF TypeOK
<1>5. QED
  BY <1>2, <1>3, <1>4, RegistersStay

LEMMA MalformedStep ==
    ASSUME IInv, Malformed
    PROVE  IInv'
<1>1. Request("malformed", 0, 0) /\ UNCHANGED <<reg, input, coil, crashed, history>>
  BY DEF Malformed
<1>2. response'.error \in {"none", "function", "address", "value"} /\ response'.data \in Seq(Word)
  <2>1. response' = Error("function") \/ response' = Error("value")
    BY DEF Malformed
  <2>2. QED
    BY <2>1, ErrorTypes
<1>3. coil' \in [Coil -> {0, 1}]
  BY <1>1 DEF IInv, TypeOK
<1>4. QED
  BY <1>1, <1>2, <1>3, RegistersStay

LEMMA WriteCoilStep ==
    ASSUME IInv, WriteCoilRequest
    PROVE  IInv'
<1>1. PICK start \in CoilStarts, b \in {0, 1} :
        /\ Request("writeCoil", start, 1) /\ WriteCoil(start, b)
        /\ UNCHANGED <<reg, input, crashed, history>>
  BY DEF WriteCoilRequest
<1>2. coil \in [Coil -> {0, 1}]
  BY DEF IInv, TypeOK
<1>3. coil' \in [Coil -> {0, 1}] /\ (response' = Ok \/ response' = Error("address"))
  BY <1>1, <1>2 DEF WriteCoil
<1>4. response'.error \in {"none", "function", "address", "value"} /\ response'.data \in Seq(Word)
  BY <1>3, ErrorTypes
<1>5. QED
  BY <1>1, <1>3, <1>4, RegistersStay

LEMMA WriteCoilsStep ==
    ASSUME IInv, WriteCoilsRequest
    PROVE  IInv'
<1>1. PICK start \in CoilStarts, count \in Counts, bs \in CoilData :
        /\ Request("writeCoils", start, count) /\ WriteMultipleCoils(start, count, bs)
        /\ UNCHANGED <<reg, input, crashed, history>>
  BY DEF WriteCoilsRequest
<1>2. coil \in [Coil -> {0, 1}]
  BY DEF IInv, TypeOK
<1>3. bs \in Seq({0, 1}) /\ Len(bs) \in Nat /\ start \in Nat
  BY MessageTypes DEF CoilStarts
<1>4. coil' \in [Coil -> {0, 1}]
        /\ (response' = Ok \/ response' = Error("address") \/ response' = Error("value"))
  <2>1. CASE Len(bs) # Bytes(count) * BITS
    BY <1>1, <1>2, <2>1 DEF WriteMultipleCoils
  <2>2. CASE Len(bs) = Bytes(count) * BITS
    <3>1. coil' = [c \in Coil |->
                     IF c \in Positions(start, Len(bs)) THEN bs[c - start + 1] ELSE coil[c]]
      BY <1>1, <2>2 DEF WriteMultipleCoils
    <3>2. ASSUME NEW c \in Coil
          PROVE  (IF c \in Positions(start, Len(bs)) THEN bs[c - start + 1] ELSE coil[c]) \in {0, 1}
      <4>1. CASE c \in Positions(start, Len(bs))
        <5>1. c - start + 1 \in 1 .. Len(bs)
          BY <1>3, <4>1 DEF Positions
        <5>2. bs[c - start + 1] \in {0, 1}
          BY <1>3, <5>1, ElementOfSeq
        <5>3. QED
          BY <4>1, <5>2
      <4>2. CASE c \notin Positions(start, Len(bs))
        BY <1>2, <4>2
      <4>3. QED
        BY <4>1, <4>2
    <3>3. coil' \in [Coil -> {0, 1}]
      BY <3>1, <3>2
    <3>4. QED
      BY <1>1, <2>2, <3>3 DEF WriteMultipleCoils
  <2>3. QED
    BY <2>1, <2>2
<1>5. response'.error \in {"none", "function", "address", "value"} /\ response'.data \in Seq(Word)
  BY <1>4, ErrorTypes
<1>6. QED
  BY <1>1, <1>4, <1>5, RegistersStay

LEMMA RegistersType ==
    ASSUME TypeOK
    PROVE  /\ Registers \in RegisterState /\ ~Registers.crashed
           /\ Registers.reg = reg /\ Registers.input = input
  BY DEF Registers, RegisterState, TypeOK

LEMMA WriteRegisterStep ==
    ASSUME IInv, WriteRegisterRequest
    PROVE  IInv'
<1>1. PICK start \in Starts, ws \in Data :
        /\ ws # <<>> /\ Request("write", start, 1) /\ WriteRegister(start, ws[1])
        /\ UNCHANGED <<coil, crashed>>
  BY DEF WriteRegisterRequest
<1>2. TypeOK /\ ws[1] \in Word /\ ~crashed
  BY <1>1, MessageTypes DEF IInv, Request
<1>3. CASE start \notin Addr
  <2>1. UNCHANGED <<reg, input, coil, crashed, history>> /\ response' = Error("address")
    BY <1>1, <1>3 DEF WriteRegister
  <2>2. coil' \in [Coil -> {0, 1}]
    BY <1>2, <2>1 DEF TypeOK
  <2>3. response'.error = "address" /\ response'.data \in Seq(Word)
    BY <2>1, ErrorTypes
  <2>4. response'.error \in {"none", "function", "address", "value"}
    BY <2>3
  <2>5. QED
    BY <1>1, <2>1, <2>2, <2>3, <2>4, RegistersStay
<1>4. CASE start \in Addr
  <2> DEFINE s == WriteWord(Registers, start, ws[1])
  <2>1. /\ s \in RegisterState
        /\ start # A => s.reg[start] = ws[1]
        /\ \A q \in Addr \ {start} : s.reg[q] = reg[q]
    BY <1>2, <1>4, RegistersType, PutOne, Put16One DEF WriteWord
  <2>2. /\ reg' = s.reg /\ input' = s.input /\ response' = Ok
        /\ asked' = [asked EXCEPT ![start] = ws[1]]
        /\ unsure' = unsure \ {start}
    BY <1>1, <1>4 DEF WriteRegister
  <2> HIDE DEF s
  <2>3. reg' \in [Addr -> Word] /\ input' \in [0 .. A - 1 -> Word]
    BY <2>1, <2>2 DEF RegisterState
  <2>4. asked \in [Addr -> Word] /\ asked' \in [Addr -> Word]
    BY <1>2, <1>4, <2>2 DEF TypeOK
  <2>5. unsure' \subseteq Addr
    BY <1>2, <2>2 DEF TypeOK
  <2>6. response'.error = "none" /\ response'.data \in Seq(Word)
    BY <2>2, ErrorTypes
  <2>7. handled' \in 0 .. MaxRequests /\ UNCHANGED beyond
    BY <1>1, <1>2, Sizes DEF Request, TypeOK
  <2>8. TypeOK'
    BY <1>1, <1>2, <2>3, <2>4, <2>5, <2>6, <2>7 DEF TypeOK
  <2>9. CrashNeedsMixedRequest'
    BY <1>1, <1>2 DEF CrashNeedsMixedRequest
  <2>10. ASSUME NEW p \in Addr \ (unsure' \union {A}), HasPointer(p)
         PROVE  reg'[p] = asked'[p]
    <3>1. CASE p = start
      BY <1>4, <2>1, <2>2, <2>4, <3>1
    <3>2. CASE p # start
      <4>1. p \notin unsure
        BY <2>2, <3>2, <2>10
      <4>2. reg[p] = asked[p]
        BY <1>2, <2>10, <4>1 DEF IInv, AsAsked
      <4>3. QED
        BY <1>4, <2>1, <2>2, <2>4, <3>2, <4>2
    <3>3. QED
      BY <3>1, <3>2
  <2>11. AsAsked'
    BY <2>10 DEF AsAsked
  <2>12. QED
    BY <2>8, <2>9, <2>11 DEF IInv
<1>5. QED
  BY <1>3, <1>4

\* A multiple write: it dies only of a word in a variable behind its start, and
\* leaves what was asked for, undisturbed registers apart.
LEMMA WriteRegistersStep ==
    ASSUME IInv, WriteRegistersRequest
    PROVE  IInv'
<1>1. PICK start \in Starts, count \in Counts, ws \in Data :
        /\ Request("writeMultiple", start, count)
        /\ WriteMultipleRegisters(start, count, ws)
        /\ UNCHANGED coil
  BY DEF WriteRegistersRequest
<1>2. /\ TypeOK /\ count \in Word /\ count \in Nat /\ ~crashed /\ start \in Nat
      /\ ws \in Seq(Word) /\ Len(ws) < 2 * A
  BY <1>1, MessageTypes DEF IInv, Request, Starts
<1>3. CASE Len(ws) # count
  <2>1. UNCHANGED <<reg, input, coil, crashed, history>> /\ response' = Error("value")
    BY <1>1, <1>3 DEF WriteMultipleRegisters
  <2>2. coil' \in [Coil -> {0, 1}]
    BY <1>2, <2>1 DEF TypeOK
  <2>3. response'.error = "value" /\ response'.data \in Seq(Word)
    BY <2>1, ErrorTypes
  <2>4. response'.error \in {"none", "function", "address", "value"}
    BY <2>3
  <2>5. QED
    BY <1>1, <2>1, <2>2, <2>3, <2>4, RegistersStay
<1>4. CASE Len(ws) = count
  <2>1. PICK notNull \in Checked(start) :
           LET s == WriteWords(Registers, start, count, ws, notNull) IN
           /\ reg' = s.reg /\ input' = s.input /\ crashed' = s.crashed
           /\ response' = IF PastEnd(8 * A, start, count) THEN Error("address") ELSE Ok
           /\ asked' = [p \in Addr |-> IF p \in Positions(start, count)
                                        THEN ws[p - start + 1] ELSE asked[p]]
           /\ unsure' = (unsure \ Positions(start, count))
                          \union Disturbed(start, count)
    BY <1>1, <1>4 DEF WriteMultipleRegisters
  <2> DEFINE s == WriteWords(Registers, start, count, ws, notNull)
  <2>2. /\ s \in RegisterState
        /\ s.crashed => \E p \in Positions(start, count) : Mixed(start, p)
        /\ ~s.crashed => \A q \in Addr \ Disturbed(start, count) : q # A /\ HasPointer(q) =>
             s.reg[q] = IF q \in Positions(start, count) THEN ws[q - start + 1] ELSE reg[q]
    BY <1>2, <1>4, RegistersType, MessageWritten
  <2>3. reg' = s.reg /\ input' = s.input /\ crashed' = s.crashed
    BY <2>1
  <2> HIDE DEF s
  <2>4. reg' \in [Addr -> Word] /\ input' \in [0 .. A - 1 -> Word] /\ crashed' \in BOOLEAN
    BY <2>2, <2>3 DEF RegisterState
  <2>5. asked' \in [Addr -> Word]
    <3>1. ASSUME NEW p \in Addr
          PROVE  (IF p \in Positions(start, count) THEN ws[p - start + 1] ELSE asked[p]) \in Word
      <4>1. CASE p \in Positions(start, count)
        <5>1. p - start + 1 \in 1 .. Len(ws)
          BY <1>2, <1>4, <4>1 DEF Positions
        <5>2. ws[p - start + 1] \in Word
          BY <1>2, <5>1, ElementOfSeq
        <5>3. QED
          BY <4>1, <5>2
      <4>2. CASE p \notin Positions(start, count)
        BY <1>2, <4>2 DEF TypeOK
      <4>3. QED
        BY <4>1, <4>2
    <3>2. QED
      BY <2>1, <3>1
  <2>6. unsure' \subseteq Addr
    <3>1. Disturbed(start, count) \subseteq Addr
      BY DEF Disturbed, Stray, Misplaced
    <3>2. QED
      BY <1>2, <2>1, <3>1 DEF TypeOK
  <2>7. response'.error \in {"none", "function", "address", "value"} /\ response'.data \in Seq(Word)
    BY <2>1, ErrorTypes
  <2>8. handled' \in 0 .. MaxRequests /\ UNCHANGED beyond
    BY <1>1, <1>2, Sizes DEF Request, TypeOK
  <2>9. TypeOK'
    BY <1>1, <1>2, <2>4, <2>5, <2>6, <2>7, <2>8 DEF TypeOK
  <2>10. CrashNeedsMixedRequest'
    <3> SUFFICES ASSUME crashed'
                 PROVE  /\ request'.fc = "writeMultiple"
                        /\ \E p \in Positions(request'.start, request'.count) :
                             /\ IsWide(p) /\ ~Is64(p) /\ ~HasPointer(p)
                             /\ Variable(p) > request'.start
      BY DEF CrashNeedsMixedRequest, Asked
    <3>1. request' = [fc |-> "writeMultiple", start |-> start, count |-> count]
      BY <1>1 DEF Request
    <3>2. PICK p \in Positions(start, count) : Mixed(start, p)
      BY <2>2, <2>3
    <3>3. p \in Nat /\ start <= p
      BY <1>2, <3>2 DEF Positions
    <3>4. Variable(p) > start
      BY <3>2, <3>3, MixedIsBehind
    <3>5. IsWide(p) /\ ~Is64(p) /\ ~HasPointer(p)
      BY <3>2 DEF Mixed
    <3>6. QED
      BY <3>1, <3>2, <3>4, <3>5
  <2>11. AsAsked'
    <3> SUFFICES ASSUME ~crashed', NEW p \in Addr \ (unsure' \union {A}), HasPointer(p)
                 PROVE  reg'[p] = asked'[p]
      BY DEF AsAsked
    <3>1. unsure' = (unsure \ Positions(start, count)) \union Disturbed(start, count)
          /\ asked' = [q \in Addr |-> IF q \in Positions(start, count)
                                        THEN ws[q - start + 1] ELSE asked[q]]
      BY <2>1
    <3>2. p \notin Disturbed(start, count) /\ p # A
          /\ (p \notin Positions(start, count) => p \notin unsure)
      BY <3>1
    <3>3. asked'[p] = IF p \in Positions(start, count) THEN ws[p - start + 1] ELSE asked[p]
      BY <3>1
    <3>4. reg'[p] = IF p \in Positions(start, count) THEN ws[p - start + 1] ELSE reg[p]
      BY <2>2, <2>3, <3>2
    <3>5. p \notin Positions(start, count) => reg[p] = asked[p]
      BY <1>2, <3>2 DEF IInv, AsAsked
    <3>6. QED
      BY <3>3, <3>4, <3>5
  <2>12. QED
    BY <2>9, <2>10, <2>11 DEF IInv
<1>5. QED
  BY <1>3, <1>4

LEMMA StepIInv == IInv /\ [Next]_vars => IInv'
<1> SUFFICES ASSUME IInv, Next \/ UNCHANGED vars
             PROVE  IInv'
  OBVIOUS
<1>1. CASE UNCHANGED vars
  <2>1. TypeOK'
    BY <1>1 DEF IInv, TypeOK, vars, history
  <2>2. CrashNeedsMixedRequest'
    BY <1>1 DEF IInv, CrashNeedsMixedRequest, Asked, vars
  <2>3. AsAsked'
    BY <1>1 DEF IInv, AsAsked, vars, history
  <2>4. QED
    BY <2>1, <2>2, <2>3 DEF IInv
<1>2. QED
  BY <1>1, ReadRequestStep, MalformedStep, WriteCoilStep, WriteCoilsStep, WriteRegisterStep,
     WriteRegistersStep DEF Next

LEMMA Invariance == Spec => []IInv
<1>1. QED
  BY InitIInv, StepIInv, PTL DEF Spec

-------------------------------------------------------------------------------
(***************************************************************************)
(* The theorems                                                            *)
(***************************************************************************)
\* The tables keep their size and their words whatever requests arrive.
THEOREM TypeCorrect == Spec => []TypeOK
<1>1. IInv => TypeOK
  BY DEF IInv
<1>2. QED
  BY <1>1, Invariance, PTL

\* WriteMultipleRegisters kills the process only from a message that starts in front
\* of an unlocated 32-bit variable it reaches; no other request does.
THEOREM CrashesExplained == Spec => []CrashNeedsMixedRequest
<1>1. IInv => CrashNeedsMixedRequest
  BY DEF IInv
<1>2. QED
  BY <1>1, Invariance, PTL

\* ReadHoldingRegisters answers, for every register with a pointer that no earlier
\* request has disturbed, the word that was written last.
THEOREM ReadsAnswerWhatWasWritten == Spec => ReadsAreAsAsked
<1> DEFINE Right == request'.fc = "readRegisters" /\ response'.error = "none" =>
       \A i \in DOMAIN response'.data :
         LET p == request'.start + i - 1 IN
         p \notin unsure \union {A} /\ HasPointer(p) => response'.data[i] = asked[p]
<1>1. IInv /\ [Next]_vars => [Right]_vars
  <2> SUFFICES ASSUME IInv, Next, request'.fc = "readRegisters", response'.error = "none"
               PROVE  \A i \in DOMAIN response'.data :
                        LET p == request'.start + i - 1 IN
                        p \notin unsure \union {A} /\ HasPointer(p) => response'.data[i] = asked[p]
    OBVIOUS
  <2>1. PICK start \in Starts, count \in Counts :
          Request("readRegisters", start, count) /\ ReadHoldingRegisters(start, count)
    BY DEF Next, Malformed, ReadRequest, WriteRegisterRequest, WriteRegistersRequest,
      WriteCoilRequest, WriteCoilsRequest, Request
  <2>2. request'.start = start /\ ~crashed /\ start \in Nat /\ count \in Nat
    BY <2>1, MessageTypes DEF Request, Starts
  <2>3. response' # Error("address")
    BY ErrorTypes
  <2>4. ~PastEnd(8 * A, start, count)
        /\ response' = Answer([i \in 1 .. count |-> ReadWord(start + i - 1)])
    BY <2>1, <2>3 DEF ReadHoldingRegisters, ReadTable
  <2>5. response'.data = [i \in 1 .. count |-> ReadWord(start + i - 1)]
    BY <2>4 DEF Answer
  <2>6. ASSUME NEW i \in 1 .. count, start + i - 1 \notin unsure \union {A},
               HasPointer(start + i - 1)
        PROVE  response'.data[i] = asked[start + i - 1]
    <3>1. start + i - 1 \in Addr
      <4>1. 8 * A \in Nat
        BY Sizes
      <4>2. QED
        BY <2>2, <2>4, <2>6, <4>1, InTable DEF Addr
    <3>2. ReadWord(start + i - 1) = reg[start + i - 1]
      BY <2>6 DEF ReadWord
    <3>3. reg[start + i - 1] = asked[start + i - 1]
      BY <2>2, <2>6, <3>1 DEF IInv, AsAsked
    <3>4. QED
      BY <2>5, <3>2, <3>3
  <2>7. DOMAIN response'.data = 1 .. count
    BY <2>5
  <2>8. QED
    BY <2>2, <2>6, <2>7
<1>2. QED
  BY <1>1, Invariance, PTL DEF Spec, ReadsAreAsAsked

\* The coils of a message, in whole bytes, are less than a byte more than asked for.
LEMMA WholeBytes ==
    ASSUME NEW count \in Nat
    PROVE  Bytes(count) * BITS \in Nat /\ Bytes(count) * BITS <= count + BITS - 1
<1> DEFINE x == count + BITS - 1
           q == x \div BITS
<1>1. x \in Nat /\ BITS \in Nat \ {0}
  BY Sizes
<1> HIDE DEF x
<1>2. q \in Nat /\ BITS * q <= x
  BY <1>1
<1> HIDE DEF q
<1>3. q * BITS = BITS * q /\ q * BITS \in Nat
  BY <1>1, <1>2
<1>4. Bytes(count) = q
  BY DEF Bytes, q, x
<1>5. QED
  BY <1>1, <1>2, <1>3, <1>4 DEF x

\* An exception leaves everything as it was, unless the request ends past its table, and
\* a write of coils reaches less than a byte past the coils that were asked for.
THEOREM WritesStayInRange == Spec => OnlyWhatIsAsked
<1> DEFINE Last == request'.start + request'.count - 1
           Refused == response'.error # "none" /\ (reg' # reg \/ coil' # coil) =>
                        IF request'.fc = "writeMultiple" THEN Last \notin Addr
                        ELSE Last + BITS - 1 \notin Coil
           Near == \A c \in Coil : coil'[c] # coil[c] => c \in request'.start .. Last + BITS - 1
<1>1. IInv /\ [Next]_vars => [Refused /\ Near]_vars
  <2> SUFFICES ASSUME IInv, Next
               PROVE  Refused /\ Near
    OBVIOUS
  <2>1. coil \in [Coil -> {0, 1}]
    BY DEF IInv, TypeOK
  <2>2. CASE reg' = reg /\ coil' = coil
    BY <2>2
  <2>3. CASE WriteRegisterRequest
    <3>1. PICK start \in Starts, ws \in Data :
            WriteRegister(start, ws[1]) /\ UNCHANGED <<coil, crashed>>
      BY <2>3 DEF WriteRegisterRequest
    <3>2. reg' = reg \/ response' = Ok
      BY <3>1 DEF WriteRegister
    <3>3. QED
      BY <3>1, <3>2, ErrorTypes
  <2>4. CASE WriteRegistersRequest
    <3>1. PICK start \in Starts, count \in Counts, ws \in Data :
            /\ Request("writeMultiple", start, count)
            /\ WriteMultipleRegisters(start, count, ws)
            /\ UNCHANGED coil
      BY <2>4 DEF WriteRegistersRequest
    <3>2. start \in Nat /\ count \in Nat
      BY MessageTypes DEF Starts
    <3>3. request'.fc = "writeMultiple" /\ Last = start + count - 1
      BY <3>1 DEF Request
    <3>4. reg' = reg \/ response' = Ok \/ PastEnd(8 * A, start, count)
      BY <3>1 DEF WriteMultipleRegisters
    <3>5. PastEnd(8 * A, start, count) => Last \notin Addr
      BY <3>2, <3>3, Sizes DEF PastEnd, Addr
    <3>6. QED
      BY <3>1, <3>3, <3>4, <3>5, ErrorTypes
  <2>5. CASE WriteCoilRequest
    <3>1. PICK start \in CoilStarts, b \in {0, 1} :
            /\ Request("writeCoil", start, 1) /\ WriteCoil(start, b)
            /\ UNCHANGED <<reg, input, crashed, history>>
      BY <2>5 DEF WriteCoilRequest
    <3>2. request'.start = start /\ Last = start
      BY <3>1 DEF Request, CoilStarts
    <3>3. CASE start \in Coil
      <4>1. coil' = [coil EXCEPT ![start] = b] /\ response' = Ok
        BY <3>1, <3>3 DEF WriteCoil
      <4>2. \A c \in Coil : coil'[c] # coil[c] => c = start
        BY <2>1, <4>1
      <4>3. start \in Nat /\ start \in start .. start + BITS - 1
        BY Sizes DEF CoilStarts
      <4>4. QED
        BY <3>2, <4>1, <4>2, <4>3, ErrorTypes
    <3>4. CASE start \notin Coil
      BY <2>2, <3>1, <3>4 DEF WriteCoil
    <3>5. QED
      BY <3>3, <3>4
  <2>6. CASE WriteCoilsRequest
    <3>1. PICK start \in CoilStarts, count \in Counts, bs \in CoilData :
            /\ Request("writeCoils", start, count) /\ WriteMultipleCoils(start, count, bs)
            /\ UNCHANGED <<reg, input, crashed, history>>
      BY <2>6 DEF WriteCoilsRequest
    <3>2. start \in Nat /\ count \in Nat
      BY MessageTypes DEF CoilStarts
    <3>3. request'.fc = "writeCoils" /\ request'.start = start /\ Last = start + count - 1
      BY <3>1 DEF Request
    <3>4. CASE Len(bs) # Bytes(count) * BITS
      BY <2>2, <3>1, <3>4 DEF WriteMultipleCoils
    <3>5. CASE Len(bs) = Bytes(count) * BITS
      <4>1. Len(bs) \in Nat /\ Len(bs) <= count + BITS - 1
        BY <3>2, <3>5, WholeBytes
      <4>2. coil' = [c \in Coil |->
                       IF c \in Positions(start, Len(bs)) THEN bs[c - start + 1] ELSE coil[c]]
            /\ (response' = Ok \/ PastEnd(MaxCoils, start, Len(bs)))
        BY <3>1, <3>5 DEF WriteMultipleCoils
      <4>3. \A c \in Coil : coil'[c] # coil[c] => c \in Positions(start, Len(bs))
        BY <4>2
      <4>4. Positions(start, Len(bs)) \subseteq start .. Last + BITS - 1
        BY <3>2, <3>3, <4>1, Sizes DEF Positions
      <4>5. PastEnd(MaxCoils, start, Len(bs)) => Last + BITS - 1 \notin Coil
        BY <3>2, <3>3, <4>1, Sizes DEF PastEnd, Coil
      <4>6. QED
        BY <3>1, <3>3, <4>2, <4>3, <4>4, <4>5, ErrorTypes
    <3>6. QED
      BY <3>4, <3>5
  <2>7. Malformed \/ ReadRequest => reg' = reg /\ coil' = coil
    BY DEF Malformed, ReadRequest
  <2>8. QED
    BY <2>2, <2>3, <2>4, <2>5, <2>6, <2>7 DEF Next
<1>2. QED
  BY <1>1, Invariance, PTL DEF Spec, OnlyWhatIsAsked
===============================================================================
