---------------------------- MODULE ModbusMaster ----------------------------
(***************************************************************************)
(* The Modbus master of the PLC runtime (modbus_master.cpp): the thread    *)
(* querySlaveDevices polls the slave devices in the order of mb_devices    *)
(* and passes their values through four buffers, shared with the scan      *)
(* cycle of main under ioLock.  The slots of a buffer are not addressed:   *)
(* the thread counts through them, device after device.                    *)
(*                                                                         *)
(* A value read is tagged with its device, its kind, its place in the      *)
(* answer and the parity of the answer; a value written is tagged with its *)
(* slot and the scan that computed it.                                     *)
(***************************************************************************)
EXTENDS Naturals, Sequences, FiniteSets, FiniteSetsExt

CONSTANTS NumDevices,
          Tcp,           \* the devices on TCP; the others are on serial lines
          Port,          \* Port[d]: TCP connection or serial line of a device
          Size,          \* Size[d][k]: registers of kind k that device d has
          MaxIO,         \* MAX_MB_IO, slots of a buffer
          MaxScans,      \* bound: scans that compute new outputs
          MaxFaults,     \* bound: connects and transfers that fail
          Null

Devices == 0 .. NumDevices - 1
Kinds   == {"di", "coils", "ir", "hrRead", "hrWrite"}
Reads   == {"di", "ir", "hrRead"}
Order   == <<"di", "coils", "ir", "hrRead", "hrWrite">>
Slots   == 0 .. MaxIO - 1
Buffers == {"bool_input", "bool_output", "int_input", "int_output"}
BufferOf == [di |-> "bool_input", coils |-> "bool_output", ir |-> "int_input",
             hrRead |-> "int_input", hrWrite |-> "int_output"]

Ports == {Port[d] : d \in Devices}

\* Slots that device d has in each buffer, and those of the devices in front of it.
Needs(d) == [bool_input  |-> Size[d]["di"],
             bool_output |-> Size[d]["coils"],
             int_input   |-> Size[d]["ir"] + Size[d]["hrRead"],
             int_output  |-> Size[d]["hrWrite"]]
SlotsBefore[d \in 0 .. NumDevices] ==
  [b \in Buffers |-> IF d = 0 THEN 0 ELSE SlotsBefore[d - 1][b] + Needs(d - 1)[b]]

ASSUME DevicesAssumption ==
  /\ NumDevices \in Nat \ {0} /\ Tcp \subseteq Devices
  /\ \A d \in Tcp : \A e \in Devices \ {d} : Port[d] # Port[e]
  /\ Size \in [Devices -> [Kinds -> Nat]]
ASSUME BoundsAssumption == {MaxIO, MaxScans, MaxFaults} \subseteq Nat
\* The code counts on a configuration whose registers fit into the buffers.
ASSUME FitsAssumption == \A b \in Buffers : SlotsBefore[NumDevices][b] <= MaxIO
ASSUME NullAssumption == Null \notin Kinds

VARIABLES
  isConnected,
  open, slave,       \* per port: its mb_ctx is open, and the slave it addresses
  ioLock,            \* "none", "main" or "poll"
  pc, dev, kind,     \* the thread: its control point, its device, the transfer
  index,             \* the four ..._index counters
  tempBuff,          \* values of the transfer
  mainPc, at,        \* main, and the slot it copies next
  input,             \* bool_input_buf and int_input_buf
  output,            \* bool_output_buf and int_output_buf
  image,             \* what the scan reads: bool_input and int_input from 100 on
  scan,              \* number of the last scan, the value of its outputs
  answers,           \* parity of the answers of each device and kind
  received,          \* what each device holds in its coils and registers
  faults

mbVars   == <<isConnected, open, slave>>
pollVars == <<pc, dev, kind, index, tempBuff>>
mainVars == <<mainPc, at, image, scan>>
vars == <<mbVars, ioLock, pollVars, mainVars, input, output, answers, received, faults>>

Sharing(d) == {e \in Devices \ {d} : d \notin Tcp /\ Port[e] = Port[d]}
PortConnected(d) == \E e \in Sharing(d) : isConnected[e]
Zero == [b \in Buffers |-> 0]

\* The kinds of device d that have registers, in their order from place i on.
NextKind(d, i) ==
  LET used == {j \in i .. Len(Order) : Size[d][Order[j]] # 0} IN
  IF used = {} THEN Null ELSE Order[Min(used)]
After(k) == CHOOSE i \in 1 .. Len(Order) + 1 : i > 1 /\ Order[i - 1] = k

\* initializeMB: of the devices on one line the last one sets the slave.
Init ==
  /\ isConnected = [d \in Devices |-> FALSE]
  /\ open = [p \in Ports |-> FALSE]
  /\ slave = [p \in Ports |-> Max({d \in Devices : Port[d] = p})]
  /\ ioLock = "none"
  /\ pc = "device" /\ dev = 0 /\ kind = Null /\ index = Zero /\ tempBuff = <<>>
  /\ mainPc = "inLock" /\ at = 0
  /\ input = [b \in {"bool_input", "int_input"} |-> [s \in Slots |-> Null]]
  /\ output = [b \in {"bool_output", "int_output"} |-> [s \in Slots |-> 0]]
  /\ image = input /\ scan = 0
  /\ answers = [d \in Devices |-> [k \in Reads |-> 0]]
  /\ received = [d \in Devices |-> [k \in {"coils", "hrWrite"} |-> <<>>]]
  /\ faults = 0

(***************************************************************************)
(* The thread querySlaveDevices.                                           *)
(***************************************************************************)
\* The next device; behind the last one a new poll begins and resets the indices.
NextDevice(idx) ==
  /\ pc' = "device" /\ kind' = Null /\ tempBuff' = <<>>
  /\ dev' = (dev + 1) % NumDevices
  /\ index' = IF dev + 1 = NumDevices THEN Zero ELSE idx

\* The first transfer from place i on, or the next device.
Transfer(i, idx) ==
  IF NextKind(dev, i) = Null THEN NextDevice(idx)
  ELSE /\ kind' = NextKind(dev, i)
       /\ pc' = IF kind' \in Reads THEN "request" ELSE "lock"
       /\ index' = idx /\ tempBuff' = <<>> /\ UNCHANGED dev

Advance(idx, k, n) == [idx EXCEPT ![BufferOf[k]] = @ + n]

\* Behind a device that cannot be reached the indices are those behind its slots.
SkipDevice == [b \in Buffers |-> index[b] + Needs(dev)[b]]

\* Mutant: the slave is not set again on a shared line.
SetSlave_Never == UNCHANGED slave

\* On a shared line, mb_ctx is set to the slave of this device.
SetSlave ==
  slave' = IF Sharing(dev) = {} THEN slave ELSE [slave EXCEPT ![Port[dev]] = dev]

ConnectFails ==
  /\ pc = "device" /\ ~isConnected[dev] /\ ~PortConnected(dev)
  /\ faults < MaxFaults /\ faults' = faults + 1
  /\ SetSlave /\ NextDevice(SkipDevice)
  /\ UNCHANGED <<isConnected, open, ioLock, mainVars, input, output, answers, received>>

StartDevice ==
  /\ pc = "device"
  /\ IF isConnected[dev] \/ PortConnected(dev)
       THEN UNCHANGED <<isConnected, open>>
       ELSE /\ isConnected' = [isConnected EXCEPT ![dev] = TRUE]
            /\ open' = [open EXCEPT ![Port[dev]] = TRUE]
  /\ SetSlave /\ Transfer(1, index)
  /\ UNCHANGED <<ioLock, mainVars, input, output, answers, received, faults>>

\* Mutant: isConnected is not cleared.
Disconnect_KeepsFlag ==
  /\ open' = [open EXCEPT ![Port[dev]] = @ /\ dev \notin Tcp]
  /\ UNCHANGED isConnected

\* A TCP connection is closed, and the other transfers of the device fail as well.
Disconnect ==
  IF dev \in Tcp
    THEN /\ open' = [open EXCEPT ![Port[dev]] = FALSE]
         /\ isConnected' = [isConnected EXCEPT ![dev] = FALSE]
    ELSE UNCHANGED <<isConnected, open>>

\* A transfer fails: on the wire, or because its port is closed.
Fault == IF open[Port[dev]] THEN faults < MaxFaults /\ faults' = faults + 1
                            ELSE UNCHANGED faults

\* Mutant: the slots of a read that failed are not passed over.
ReadFails_NoSkip ==
  /\ pc = "request" /\ Fault /\ Disconnect
  /\ Transfer(After(kind), index)
  /\ UNCHANGED <<slave, ioLock, mainVars, input, output, answers, received>>

ReadFails ==
  /\ pc = "request" /\ Fault /\ Disconnect
  /\ Transfer(After(kind), Advance(index, kind, Size[dev][kind]))
  /\ UNCHANGED <<slave, ioLock, mainVars, input, output, answers, received>>

\* The slave that mb_ctx addresses answers with its registers.
ReadAnswers ==
  /\ pc = "request" /\ open[Port[dev]]
  /\ LET d == slave[Port[dev]] IN
     /\ answers' = [answers EXCEPT ![d][kind] = 1 - @]
     /\ tempBuff' = [j \in 1 .. Size[dev][kind] |->
                      [dev |-> d, kind |-> kind, place |-> j, parity |-> answers'[d][kind]]]
  /\ pc' = "lock"
  /\ UNCHANGED <<mbVars, ioLock, dev, kind, index, mainVars, input, output, received,
                 faults>>

\* Mutant: the thread copies without ioLock.
PollLock_NoLock ==
  /\ pc = "lock" /\ pc' = "copy"
  /\ UNCHANGED <<mbVars, ioLock, dev, kind, index, tempBuff, mainVars, input, output,
                 answers, received, faults>>

PollLock ==
  /\ pc = "lock" /\ ioLock = "none"
  /\ ioLock' = "poll" /\ pc' = "copy"
  /\ UNCHANGED <<mbVars, dev, kind, index, tempBuff, mainVars, input, output, answers,
                 received, faults>>

\* One value between tempBuff and the buffer; a read consumes tempBuff.
CopyIn ==
  /\ pc = "copy" /\ kind \in Reads /\ tempBuff # <<>>
  /\ input' = [input EXCEPT ![BufferOf[kind]][index[BufferOf[kind]]] = Head(tempBuff)]
  /\ tempBuff' = Tail(tempBuff) /\ index' = Advance(index, kind, 1)
  /\ UNCHANGED <<mbVars, ioLock, pc, dev, kind, mainVars, output, answers, received,
                 faults>>

CopyOut ==
  /\ pc = "copy" /\ kind \notin Reads /\ Len(tempBuff) < Size[dev][kind]
  /\ LET slot == index[BufferOf[kind]] IN
     tempBuff' = Append(tempBuff, [slot |-> slot, scan |-> output[BufferOf[kind]][slot]])
  /\ index' = Advance(index, kind, 1)
  /\ UNCHANGED <<mbVars, ioLock, pc, dev, kind, mainVars, input, output, answers,
                 received, faults>>

PollUnlock ==
  /\ pc = "copy"
  /\ Len(tempBuff) = IF kind \in Reads THEN 0 ELSE Size[dev][kind]
  /\ ioLock' = IF ioLock = "poll" THEN "none" ELSE ioLock
  /\ IF kind \in Reads THEN Transfer(After(kind), index)
     ELSE pc' = "send" /\ UNCHANGED <<dev, kind, index, tempBuff>>
  /\ UNCHANGED <<mbVars, mainVars, input, output, answers, received, faults>>

WriteFails ==
  /\ pc = "send" /\ Fault /\ Disconnect
  /\ Transfer(After(kind), index)
  /\ UNCHANGED <<slave, ioLock, mainVars, input, output, answers, received>>

WriteArrives ==
  /\ pc = "send" /\ open[Port[dev]]
  /\ received' = [received EXCEPT ![slave[Port[dev]]][kind] = tempBuff]
  /\ Transfer(After(kind), index)
  /\ UNCHANGED <<mbVars, ioLock, mainVars, input, output, answers, faults>>

Poll == \/ ConnectFails \/ StartDevice \/ ReadFails \/ ReadAnswers \/ PollLock
        \/ CopyIn \/ CopyOut \/ PollUnlock \/ WriteFails \/ WriteArrives

(***************************************************************************)
(* The scan cycle of main.                                                 *)
(***************************************************************************)
MainLock ==
  /\ mainPc \in {"inLock", "outLock"} /\ ioLock = "none"
  /\ ioLock' = "main" /\ at' = 0
  /\ mainPc' = IF mainPc = "inLock" THEN "in" ELSE "out"
  /\ UNCHANGED <<mbVars, pollVars, image, scan, input, output, answers, received, faults>>

\* updateBuffersIn_MB and updateBuffersOut_MB, one slot of both buffers.
MainCopy ==
  /\ mainPc \in {"in", "out"} /\ at \in Slots
  /\ at' = at + 1
  /\ IF mainPc = "in"
       THEN /\ image' = [b \in DOMAIN image |-> [image[b] EXCEPT ![at] = input[b][at]]]
            /\ UNCHANGED output
       ELSE /\ output' = [b \in DOMAIN output |-> [output[b] EXCEPT ![at] = scan]]
            /\ UNCHANGED image
  /\ UNCHANGED <<mbVars, ioLock, pollVars, mainPc, scan, input, answers, received, faults>>

\* Unlock; after the input the program computes the outputs of the next scan.
MainUnlock ==
  /\ mainPc \in {"in", "out"} /\ at = MaxIO
  /\ ioLock' = "none" /\ at' = 0
  /\ IF mainPc = "in"
       THEN mainPc' = "outLock" /\ scan' = IF scan < MaxScans THEN scan + 1 ELSE scan
       ELSE mainPc' = "inLock" /\ UNCHANGED scan
  /\ UNCHANGED <<mbVars, pollVars, image, input, output, answers, received, faults>>

Main == MainLock \/ MainCopy \/ MainUnlock

Next == Poll \/ Main

\* Both threads run, get the mutex in turn, and devices answer when nothing fails.
Spec == Init /\ [][Next]_vars /\ SF_vars(Poll) /\ SF_vars(Main)

(***************************************************************************)
(* Properties                                                              *)
(***************************************************************************)
\* First slot of kind k of device d, by the sizes alone: the devices in front of d
\* have theirs first, and input registers come before holding registers.
FirstSlot(d, k) ==
  SlotsBefore[d][BufferOf[k]] + IF k = "hrRead" THEN Size[d]["ir"] ELSE 0

\* Types; no index runs past the buffers.
Values  == [dev : Devices, kind : Reads, place : Nat, parity : {0, 1}]
Outputs == [slot : Nat, scan : 0 .. MaxScans]
TypeOK ==
  /\ isConnected \in [Devices -> BOOLEAN]
  /\ open \in [Ports -> BOOLEAN] /\ slave \in [Ports -> Devices]
  /\ ioLock \in {"none", "main", "poll"} /\ dev \in Devices
  /\ pc \in {"device", "request", "lock", "copy", "send"}
  /\ kind \in Kinds \union {Null} /\ index \in [Buffers -> 0 .. MaxIO]
  /\ tempBuff \in Seq(Values) \union Seq(Outputs)
  /\ mainPc \in {"inLock", "in", "outLock", "out"} /\ at \in 0 .. MaxIO
  /\ {input, image} \subseteq [{"bool_input", "int_input"} -> [Slots -> Values \union {Null}]]
  /\ output \in [{"bool_output", "int_output"} -> [Slots -> 0 .. MaxScans]]
  /\ answers \in [Devices -> [Reads -> {0, 1}]]
  /\ received \in [Devices -> [{"coils", "hrWrite"} -> Seq(Outputs)]]
  /\ scan \in 0 .. MaxScans /\ faults \in 0 .. MaxFaults

\* Whatever fails, a slot only ever holds the value of the register it belongs to.
SlotsBelongToRegisters ==
  \A b \in DOMAIN input : \A s \in Slots : input[b][s] # Null =>
    LET v == input[b][s] IN
    BufferOf[v.kind] = b /\ s = FirstSlot(v.dev, v.kind) + v.place - 1

\* A device gets the outputs that belong to it, all of one scan.
MessageIsOneScan ==
  \A d \in Devices : \A k \in {"coils", "hrWrite"} :
    LET m == received[d][k] IN
    \A j \in DOMAIN m : /\ m[j].slot = FirstSlot(d, k) + j - 1
                        /\ m[j].scan = m[1].scan

\* The program never computes on registers of two different answers.
ScanReadsOneAnswer ==
  mainPc = "outLock" =>
    \A b \in DOMAIN image : \A s, t \in Slots :
      LET v == image[b][s]
          w == image[b][t] IN
      v # Null /\ w # Null /\ v.dev = w.dev /\ v.kind = w.kind => v.parity = w.parity

\* Once nothing fails any more, every device gets the outputs of the last scan,
\* also after it was disconnected.
OutputsArrive ==
  (<>[](scan = MaxScans)) =>
    <>[](\A d \in Devices : \A k \in {"coils", "hrWrite"} :
           /\ Len(received[d][k]) = Size[d][k]
           /\ \A j \in DOMAIN received[d][k] : received[d][k][j].scan = MaxScans)

=============================================================================
