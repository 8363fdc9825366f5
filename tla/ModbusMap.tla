----------------------------- MODULE ModbusMap ------------------------------
(***************************************************************************)
(* The Modbus/TCP slave of the PLC runtime (modbus.cpp): how a request     *)
(* reads and writes the variables of the PLC program.  A request is        *)
(* handled in one critical section of bufferLock, so it is one action.     *)
(*                                                                         *)
(* Scaled: MIN_16B_RANGE is the constant A, a byte has BYTE values and     *)
(* BITS coils, and a request carries at most MaxBytes bytes of data.       *)
(*   0 .. A-1 analog outputs      2A .. 4A-1 32-bit memory, 2 words each   *)
(*   A .. 2A-1 16-bit memory      4A .. 8A-1 64-bit memory, 4 words each   *)
(* A variable the PLC program does not declare has no pointer.  mapUnusedIO *)
(* gives it a cell of mb_holding_regs if it has 16 bits; a wide one stays  *)
(* NULL, and the handlers fall back to mb_holding_regs.                    *)
(***************************************************************************)
EXTENDS Naturals, Sequences

CONSTANTS A, BYTE, BITS, MaxBytes,
          Located,       \* first addresses of the variables of the program
          MaxCoils,      \* size of the table of coils
          Counts,        \* counts that requests ask for
          Data,          \* sequences of words that requests carry
          CoilData,      \* sequences of coil values, in whole bytes
          Null,
          MaxRequests    \* bound on the requests of a run

ASSUME SizesAssumption ==
  /\ {A, BITS, MaxCoils} \subseteq Nat \ {0} /\ BYTE \in Nat \ {0, 1}
  /\ {MaxBytes, MaxRequests} \subseteq Nat /\ Counts \subseteq Nat
ASSUME LocatedAssumption == Located \subseteq 0 .. 8 * A - 1
\* What a message carries: a count of the size of a word, coil values, and words, far
\* fewer than there are 32-bit registers (their bytes are counted in one byte).
ASSUME DataAssumption ==
  /\ Counts \subseteq 0 .. BYTE * BYTE - 1
  /\ \A ws \in Data : ws \in Seq(0 .. BYTE * BYTE - 1) /\ Len(ws) < 2 * A
  /\ CoilData \subseteq Seq({0, 1})

VARIABLES
  reg,       \* words of the variables, at the address the handlers mean
  input,     \* int_input
  coil,      \* bool_output
  beyond,    \* what int_output[1024], one past the array, points at
  crashed,
  request, response, handled,
  asked,     \* history: the words that accepted requests asked for
  unsure     \* history: addresses that a request may have left otherwise

history == <<asked, unsure>>
vars == <<reg, input, coil, beyond, crashed, request, response, handled, history>>

Word == 0 .. BYTE * BYTE - 1
Addr == 0 .. 8 * A - 1
Coil == 0 .. MaxCoils - 1
MIN_32B == 2 * A
MIN_64B == 4 * A
IsWide(p) == p >= MIN_32B
Is64(p) == p >= MIN_64B

\* First address of the variable that address p belongs to.
Variable(p) == IF Is64(p) THEN p - (p % 4) ELSE IF IsWide(p) THEN p - (p % 2) ELSE p
HasPointer(p) == ~IsWide(p) \/ Variable(p) \in Located

Ok == [error |-> "none", data |-> <<>>]
Error(e) == [error |-> e, data |-> <<>>]
Answer(d) == [error |-> "none", data |-> d]

\* The pointer int_output[1024] is read from whatever the linker put there.
Init ==
  /\ reg = [p \in Addr |-> 0] /\ input = [i \in 0 .. A - 1 |-> 0]
  /\ coil = [c \in Coil |-> 0]
  /\ beyond \in {"int_memory", "int_input", "null"}
  /\ crashed = FALSE
  /\ request = Null /\ response = Ok /\ handled = 0
  /\ asked = reg /\ unsure = {}

Positions(start, count) == start .. start + count - 1
\* Mutant: the last address counts as past the end.
PastEnd_OffByOne(size, start, count) == count > 0 /\ start + count >= size

PastEnd(size, start, count) == count > 0 /\ start + count > size
Bytes(coils) == (coils + BITS - 1) \div BITS

(***************************************************************************)
(* Reads.                                                                  *)
(***************************************************************************)
\* Mutant: a fallback cell is not cut to a byte.
ReadWord_Word(p) ==
  IF p = A THEN [int_memory |-> reg[p], int_input |-> input[0], null |-> 0][beyond]
  ELSE IF HasPointer(p) THEN reg[p]
  ELSE reg[p] * (BYTE + 1)

\* A holding register.  1024 takes the branch of the analog outputs.  An unlocated
\* wide register answers with its low byte twice.
ReadWord(p) ==
  IF p = A THEN [int_memory |-> reg[p], int_input |-> input[0], null |-> 0][beyond]
  ELSE IF HasPointer(p) THEN reg[p]
  ELSE (reg[p] % BYTE) * (BYTE + 1)

\* ReadHoldingRegisters, ReadInputRegisters, ReadCoils: a table of the given size.
ReadTable(size, Value(_), start, count, bytes) ==
  IF bytes > MaxBytes \/ PastEnd(size, start, count) THEN Error("address")
  ELSE Answer([i \in 1 .. count |-> Value(start + i - 1)])

ReadHoldingRegisters(start, count) ==
  response' = ReadTable(8 * A, ReadWord, start, count, 2 * count)

ReadInputRegisters(start, count) ==
  LET Value(i) == input[i] IN
  response' = ReadTable(A, Value, start, count, 2 * count)

\* Whole bytes are answered: the count is rounded up.
ReadCoils(start, count) ==
  LET Value(c) == coil[c] IN
  response' = ReadTable(MaxCoils, Value, start, Bytes(count) * BITS, Bytes(count))

(***************************************************************************)
(* Writes.  A state of the registers is a record, so that the words of one *)
(* request can be folded into it.                                          *)
(***************************************************************************)
Registers == [reg |-> reg, input |-> input, crashed |-> FALSE]

Put(s, p, w) == [s EXCEPT !.reg[p] = w]

\* A 16-bit register, *pointer = w.
Put16(s, p, w) ==
  IF p # A \/ beyond = "int_memory" THEN Put(s, p, w)
  ELSE IF beyond = "int_input" THEN [s EXCEPT !.input[0] = w]
  ELSE s

\* mb_holding_regs[p] = w shows up at p only if p has no pointer of its own.
PutFallback(s, p, w) ==
  IF Variable(p) \in Located THEN s ELSE Put(s, p, w)

\* What the null check of a multiple write finds for a 32-bit register: it looks at
\* the variable of start, which one address in front of the array is still the first
\* one (C rounds to 0), and whatever is stored below the array otherwise.
Checked(start) ==
  IF IsWide(start) THEN {HasPointer(start)}
  ELSE IF start = MIN_32B - 1 THEN {HasPointer(MIN_32B)}
  ELSE BOOLEAN

\* Words of 64-bit variables that a multiple write puts elsewhere: all but the first
\* of a variable go to the place of start in its variable, if that is not the first,
\* and nowhere otherwise.
Stray(start, count) ==
  {p \in Positions(start, count) \intersect Addr :
     Is64(p) /\ HasPointer(p) /\ p % 4 # 0 /\ ~(Is64(start) /\ p % 4 = start % 4)}

\* Where a stray word is left, if no word of the message follows there.
Misplaced(start, count) ==
  IF ~Is64(start) \/ start % 4 = 0 THEN {}
  ELSE {q \in Addr : \E p \in Stray(start, count) :
          /\ q = Variable(p) + (start % 4)
          /\ p > q \/ q \notin Positions(start, count)}

\* What a multiple write may leave otherwise than asked: stray words and what they are
\* written over, and 32-bit registers whose check may find NULL.
Disturbed(start, count) ==
  {p \in Positions(start, count) \intersect Addr :
     IsWide(p) /\ ~Is64(p) /\ FALSE \in Checked(start)}
    \union Stray(start, count) \union Misplaced(start, count)

\* WriteRegister: the word in its variable, or in mb_holding_regs.
WriteWord(s, p, w) == IF IsWide(p) THEN Put(s, p, w) ELSE Put16(s, p, w)

WriteRegister(start, w) ==
  IF start \in Addr
    THEN LET s == WriteWord(Registers, start, w) IN
         /\ reg' = s.reg /\ input' = s.input /\ response' = Ok
         /\ asked' = [asked EXCEPT ![start] = w]
         /\ unsure' = unsure \ {start}
    ELSE UNCHANGED <<reg, input, history>> /\ response' = Error("address")

\* Mutant: the pointer of a 32-bit register is not checked.
Write32_NoCheck(s, p, w, notNull) ==
  IF HasPointer(p) THEN Put(s, p, w) ELSE [s EXCEPT !.crashed = TRUE]

\* One word of WriteMultipleRegisters.  The pointer that is used for a 32-bit register
\* need not be the one that was checked.
Write32(s, p, w, notNull) ==
  IF ~notNull THEN PutFallback(s, p, w)
  ELSE IF HasPointer(p) THEN Put(s, p, w)
  ELSE [s EXCEPT !.crashed = TRUE]

\* Mutant: the first word as well is chosen by start.
Write64_ByStart(s, start, count, p, w) ==
  IF ~HasPointer(p) THEN PutFallback(s, start, count)
  ELSE IF Is64(start) THEN Put(s, Variable(p) + (start % 4), w)
  ELSE s

\* The first word of a 64-bit register is chosen by its position, the others by start;
\* without a pointer the count is stored, at mb_holding_regs[start].
Write64(s, start, count, p, w) ==
  IF ~HasPointer(p) THEN PutFallback(s, start, count)
  ELSE IF p % 4 = 0 THEN Put(s, p, w)
  ELSE IF Is64(start) /\ start % 4 # 0 THEN Put(s, Variable(p) + (start % 4), w)
  ELSE s

\* The word with number i of the message.
WriteOne(s, start, count, ws, notNull, i) ==
  LET p == start + i - 1 IN
  IF s.crashed \/ p \notin Addr THEN s
  ELSE IF Is64(p) THEN Write64(s, start, count, p, ws[i])
  ELSE IF IsWide(p) THEN Write32(s, p, ws[i], notNull)
  ELSE Put16(s, p, ws[i])

WriteWords(s, start, count, ws, notNull) ==
  LET after[i \in 0 .. count] ==
        IF i = 0 THEN s ELSE WriteOne(after[i - 1], start, count, ws, notNull, i)
  IN  after[count]

\* The words inside the tables are written even if others are outside.
WriteMultipleRegisters(start, count, ws) ==
  IF Len(ws) # count
    THEN response' = Error("value") /\ UNCHANGED <<reg, input, crashed, history>>
    ELSE \E notNull \in Checked(start) :
           LET s == WriteWords(Registers, start, count, ws, notNull) IN
           /\ reg' = s.reg /\ input' = s.input /\ crashed' = s.crashed
           /\ response' = IF PastEnd(8 * A, start, count) THEN Error("address") ELSE Ok
           /\ asked' = [p \in Addr |-> IF p \in Positions(start, count)
                                        THEN ws[p - start + 1] ELSE asked[p]]
           /\ unsure' = (unsure \ Positions(start, count))
                          \union Disturbed(start, count)

WriteCoil(start, b) ==
  IF start \in Coil
    THEN coil' = [coil EXCEPT ![start] = b] /\ response' = Ok
    ELSE UNCHANGED coil /\ response' = Error("address")

\* Every bit of the last byte is written, also those past count.
WriteMultipleCoils(start, count, bs) ==
  IF Len(bs) # Bytes(count) * BITS
    THEN response' = Error("value") /\ UNCHANGED coil
    ELSE /\ coil' = [c \in Coil |->
              IF c \in Positions(start, Len(bs)) THEN bs[c - start + 1] ELSE coil[c]]
         /\ response' = IF PastEnd(MaxCoils, start, Len(bs)) THEN Error("address") ELSE Ok

(***************************************************************************)
(* processModbusMessage: one request, or the PLC program.                  *)
(***************************************************************************)
Request(fc, start, count) ==
  /\ ~crashed /\ handled < MaxRequests /\ handled' = handled + 1
  /\ request' = [fc |-> fc, start |-> start, count |-> count]
  /\ UNCHANGED beyond

Starts == 0 .. 8 * A
CoilStarts == 0 .. MaxCoils

\* A message that is too short, or of no known function.
Malformed ==
  /\ Request("malformed", 0, 0)
  /\ response' \in {Error("function"), Error("value")}
  /\ UNCHANGED <<reg, input, coil, crashed, history>>

ReadRequest ==
  \E start \in Starts, count \in Counts :
    /\ \/ Request("readRegisters", start, count) /\ ReadHoldingRegisters(start, count)
       \/ Request("readInputs", start, count) /\ ReadInputRegisters(start, count)
       \/ start \in CoilStarts /\ Request("readCoils", start, count)
                               /\ ReadCoils(start, count)
    /\ UNCHANGED <<reg, input, coil, crashed, history>>

WriteRegisterRequest ==
  \E start \in Starts, ws \in Data :
    /\ ws # <<>>
    /\ Request("write", start, 1) /\ WriteRegister(start, ws[1])
    /\ UNCHANGED <<coil, crashed>>

WriteRegistersRequest ==
  \E start \in Starts, count \in Counts, ws \in Data :
    /\ Request("writeMultiple", start, count)
    /\ WriteMultipleRegisters(start, count, ws)
    /\ UNCHANGED coil

WriteCoilRequest ==
  \E start \in CoilStarts, b \in {0, 1} :
    /\ Request("writeCoil", start, 1) /\ WriteCoil(start, b)
    /\ UNCHANGED <<reg, input, crashed, history>>

WriteCoilsRequest ==
  \E start \in CoilStarts, count \in Counts, bs \in CoilData :
    /\ Request("writeCoils", start, count) /\ WriteMultipleCoils(start, count, bs)
    /\ UNCHANGED <<reg, input, crashed, history>>

Next == \/ Malformed \/ ReadRequest \/ WriteRegisterRequest
        \/ WriteRegistersRequest \/ WriteCoilRequest \/ WriteCoilsRequest

Spec == Init /\ [][Next]_vars

(***************************************************************************)
(* Properties                                                              *)
(***************************************************************************)
Asked == Positions(request.start, request.count)

TypeOK ==
  /\ reg \in [Addr -> Word] /\ input \in [0 .. A - 1 -> Word]
  /\ coil \in [Coil -> {0, 1}] /\ crashed \in BOOLEAN
  /\ beyond \in {"int_memory", "int_input", "null"}
  /\ response.error \in {"none", "function", "address", "value"}
  /\ response.data \in Seq(Word)
  /\ handled \in 0 .. MaxRequests
  /\ asked \in [Addr -> Word] /\ unsure \subseteq Addr

\* A read answers the word that was asked for last, for every register with a pointer
\* but 1024; wide registers without one answer otherwise (their low byte twice).  Words
\* of multiple writes are excused where the handler loses them (Disturbed): those of a
\* 64-bit variable after its first one that are not at the place of start, three of the
\* four if a whole variable is written (modbus.cpp:796-810), what they are written over,
\* and 32-bit words if the variable of start has no pointer.  Every word of a single
\* write, the first words of 64-bit variables and all other words of multiple writes
\* must be there.
ReadsAreAsAsked ==
  [][request'.fc = "readRegisters" /\ response'.error = "none" =>
       \A i \in DOMAIN response'.data :
         LET p == request'.start + i - 1 IN
         p \notin unsure \union {A} /\ HasPointer(p) => response'.data[i] = asked[p]]_vars

\* The process only dies from a multiple write to an unlocated 32-bit register
\* that starts in front of that variable: what the null check lets through.
CrashNeedsMixedRequest ==
  crashed => /\ request.fc = "writeMultiple"
             /\ \E p \in Asked : /\ IsWide(p) /\ ~Is64(p) /\ ~HasPointer(p)
                                  /\ Variable(p) > request.start

\* A request that is answered with an exception has changed nothing, unless its
\* range begins inside a table and ends outside.  A write of coils changes the coils
\* asked for and, because of the rounding to whole bytes, less than a byte of coils
\* after them.
OnlyWhatIsAsked ==
  [][LET last == request'.start + request'.count - 1 IN
     /\ response'.error # "none" /\ (reg' # reg \/ coil' # coil) =>
          IF request'.fc = "writeMultiple" THEN last \notin Addr
          ELSE last + BITS - 1 \notin Coil
     /\ \A c \in Coil : coil'[c] # coil[c] => c \in request'.start .. last + BITS - 1]_vars

=============================================================================
