------------------------------ MODULE PlcInput ------------------------------
(***************************************************************************)
(* Input and output of the packetized PLC (hardware_layers/blank.cpp): a   *)
(* scan starts COMPUTE_OFFSET into a cycle of CYCLE_TIME, when one packet  *)
(* of every input stream has arrived for it, and sends packets that carry  *)
(* the oldest timestamp and the largest packet id of its inputs.           *)
(*                                                                         *)
(* The devices send one packet of each stream per cycle, numbered by the   *)
(* cycle.  The network and the DMA channel keep the packets of a stream in *)
(* order, delay them by at most MaxDelay and may lose them; packets wait   *)
(* while the runtime does not receive.  Time is the synchronized time of   *)
(* get_current_local_sync_ts.                                              *)
(*                                                                         *)
(* The scan and the command handlers of the DNP3 outstation (dnp3.cpp)     *)
(* share the variables of the program under bufferLock.  What a command    *)
(* writes is left out; its reads for reports (update_vals) as well.        *)
(***************************************************************************)
EXTENDS Integers, Sequences, FiniteSets, FiniteSetsExt

CONSTANTS Streams,         \* indices of the input streams, 0 among them
          CYCLE_TIME, COMPUTE_OFFSET,
          SendOffset,      \* when in a cycle the device of a stream sends
          MaxDelay,        \* from a device to the receive loop
          ScanTime,        \* longest time from the start of a scan to its output
          MaxCycles,       \* bound: cycles of the run
          MaxLost,         \* bound: packets lost in the network
          MaxOperates      \* bound: commands of the DNP3 master

ASSUME StreamsAssumption == 0 \in Streams /\ IsFiniteSet(Streams)
ASSUME TimesAssumption ==
  /\ CYCLE_TIME \in Nat \ {0} /\ {MaxDelay, ScanTime} \subseteq Nat
  /\ COMPUTE_OFFSET \in 0 .. CYCLE_TIME - 1
  /\ SendOffset \in [Streams -> 0 .. CYCLE_TIME - 1]
ASSUME BoundsAssumption == {MaxCycles, MaxLost, MaxOperates} \subseteq Nat

\* What the schedule of the network and the program promise: a packet that is sent
\* after the compute time of its cycle arrives until the next one, and a scan is
\* over by then.
Punctual ==
  /\ \A s \in Streams : COMPUTE_OFFSET <= SendOffset[s] =>
        SendOffset[s] + MaxDelay <= COMPUTE_OFFSET + CYCLE_TIME
  /\ ScanTime <= CYCLE_TIME

\* And that a packet that is sent before the compute time of its cycle arrives by then.
Prompt ==
  \A s \in Streams : SendOffset[s] < COMPUTE_OFFSET =>
    SendOffset[s] + MaxDelay <= COMPUTE_OFFSET

VARIABLES
  now,
  inFlight,          \* per stream, send times of the packets not received yet
  input_timestamp,   \* per stream, tx_timestamp of the last packet taken, or 0
  input_pkt_id,      \* and its packet id
  next_compute_ts,
  pc,                \* main: about to take bufferLock for "input", "program" or
                     \* "output", or holding it to "receive", "wait" or "send"
  scanEnd,           \* when the running scan is over at the latest
  bufferLock,        \* "free", "main", "dnp3", or "lost" by a handler that returned
  operate, operates, \* the command of the running Operate or None, and how many
  outOfRange,        \* history: a 16-bit value for an index beyond the range
  output,            \* timestamp and id of the last packet sent, both 0 at first, and
                     \* its number, so that a packet sent again is another output
  lost, scans        \* packets lost, scans started

inputs == <<input_timestamp, input_pkt_id, next_compute_ts>>
mainVars == <<pc, scanEnd>>
dnpVars == <<operate, operates, outOfRange>>
vars == <<now, inFlight, inputs, mainVars, bufferLock, dnpVars, output, lost, scans>>

\* Commands by what their handler does: Binary latches a coil, Int16 writes a 16-bit
\* register, Wide the others; Beyond are those for an index that is too large.
Commands == {"Binary", "Int16", "Int16Beyond", "Wide", "WideBeyond"}
None == "None"

JunkId == MaxCycles + 2
Cycle(ts) == ts \div CYCLE_TIME
InCycle(k, offset) == k * CYCLE_TIME + offset

\* Packets are sent from cycle 1 on: no packet has timestamp 0.  The timestamps
\* are cleared by initializeHardware, the ids are what malloc returned.
Init ==
  /\ now = CYCLE_TIME /\ inFlight = [s \in Streams |-> <<>>]
  /\ input_timestamp = [s \in Streams |-> 0] /\ next_compute_ts = 0
  /\ input_pkt_id \in [Streams -> {0, JunkId}]
  /\ pc = "input" /\ scanEnd = 0 /\ bufferLock = "free"
  /\ operate = None /\ operates = 0 /\ outOfRange = FALSE
  /\ output = [number |-> 0, ts |-> 0, id |-> 0]
  /\ lost = 0 /\ scans = 0

\* Time passes unless something is due now.
Due == \/ pc = "receive" /\ \E s \in Streams :
            inFlight[s] # <<>> /\ Head(inFlight[s]) + MaxDelay <= now
       \/ pc = "wait" /\ next_compute_ts <= now
       \/ pc = "send" /\ scanEnd <= now
       \/ pc \in {"input", "program", "output"} /\ bufferLock = "free"
       \/ bufferLock = "dnp3"

Tick ==
  /\ now < InCycle(MaxCycles + 1, 0) /\ ~Due
  /\ now' = now + 1
  /\ inFlight' = [s \in Streams |->
       IF now % CYCLE_TIME = SendOffset[s] THEN Append(inFlight[s], now)
                                           ELSE inFlight[s]]
  /\ UNCHANGED <<inputs, mainVars, bufferLock, dnpVars, output, lost, scans>>

Lose(s) ==
  /\ inFlight[s] # <<>> /\ lost < MaxLost
  /\ inFlight' = [inFlight EXCEPT ![s] = Tail(@)]
  /\ lost' = lost + 1
  /\ UNCHANGED <<now, inputs, mainVars, bufferLock, dnpVars, output, scans>>

\* Mutant: any packet of a stream will do.
Complete_AnyCycle(timestamps, next) == \A s \in Streams : timestamps[s] # 0

\* Mutant: the window is two cycles long.
Complete_TwoCycles(timestamps, next) ==
  /\ \A s \in Streams : timestamps[s] >= next - 2 * CYCLE_TIME
  /\ timestamps[0] # 0

\* send_packet: all streams have a packet from the cycle before the compute time.
Complete(timestamps, next) ==
  /\ \A s \in Streams : timestamps[s] >= next - CYCLE_TIME
  /\ timestamps[0] # 0

\* Mutant: packets that are there already are enough.
InputLock_Again ==
  /\ pc = "input" /\ bufferLock = "free" /\ bufferLock' = "main"
  /\ pc' = IF Complete(input_timestamp, next_compute_ts) THEN "wait" ELSE "receive"
  /\ UNCHANGED <<now, inFlight, inputs, scanEnd, dnpVars, output, lost, scans>>

\* updateBuffersIn holds bufferLock until it has its packets and the compute time has
\* come.  It waits for a packet first, also if those it has would do.
InputLock ==
  /\ pc = "input" /\ bufferLock = "free"
  /\ pc' = "receive" /\ bufferLock' = "main"
  /\ UNCHANGED <<now, inFlight, inputs, scanEnd, dnpVars, output, lost, scans>>

\* Mutant: packets sent after this cycle's compute time are late as well.
ComputeTimes_ThisCycle(tx) ==
  LET this == InCycle(Cycle(tx), COMPUTE_OFFSET) IN
  IF this >= now THEN {this} ELSE {}

\* The compute time a packet is for: this cycle's if that is still to come, the
\* next cycle's if it was sent after this cycle's, none (late) otherwise.
ComputeTimes(tx) ==
  LET this == InCycle(Cycle(tx), COMPUTE_OFFSET) IN
  IF this >= now THEN {this}
  ELSE IF COMPUTE_OFFSET <= tx % CYCLE_TIME THEN {this + CYCLE_TIME}
  ELSE {}

\* updateBuffersIn takes one packet; a late one is dropped.
Receive(s) ==
  /\ pc = "receive" /\ inFlight[s] # <<>>
  /\ inFlight' = [inFlight EXCEPT ![s] = Tail(@)]
  /\ LET tx == Head(inFlight[s]) IN
       \/ ComputeTimes(tx) = {} /\ UNCHANGED <<inputs, pc>>
       \/ \E next \in ComputeTimes(tx) :
            /\ next_compute_ts' = next
            /\ input_timestamp' = [input_timestamp EXCEPT ![s] = tx]
            /\ input_pkt_id' = [input_pkt_id EXCEPT ![s] = Cycle(tx)]
            /\ pc' = IF Complete(input_timestamp', next) THEN "wait" ELSE pc
  /\ UNCHANGED <<now, scanEnd, bufferLock, dnpVars, output, lost, scans>>

\* The compute time has come: updateBuffersIn returns.
StartScan ==
  /\ pc = "wait" /\ now >= next_compute_ts
  /\ pc' = "program" /\ scanEnd' = now + ScanTime /\ scans' = scans + 1
  /\ bufferLock' = "free"
  /\ UNCHANGED <<now, inFlight, inputs, dnpVars, output, lost>>

\* The program runs, with bufferLock taken and given back.
RunProgram ==
  /\ pc = "program" /\ bufferLock = "free" /\ pc' = "output"
  /\ UNCHANGED <<now, inFlight, inputs, scanEnd, bufferLock, dnpVars, output, lost, scans>>

OutputLock ==
  /\ pc = "output" /\ bufferLock = "free"
  /\ pc' = "send" /\ bufferLock' = "main"
  /\ UNCHANGED <<now, inFlight, inputs, scanEnd, dnpVars, output, lost, scans>>

\* updateBuffersOut sends send_timestamp and send_pkt_id on every output stream, if
\* the program or a command has switched the output on.
EndScan(on) ==
  /\ pc = "send"
  /\ output' = IF ~on THEN output
               ELSE [number |-> output.number + 1,
                     ts |-> Min({input_timestamp[s] : s \in Streams}),
                     id |-> Max({input_pkt_id[s] : s \in Streams})]
  /\ pc' = "input" /\ bufferLock' = "free"
  /\ UNCHANGED <<now, inFlight, inputs, scanEnd, dnpVars, lost, scans>>

Main == InputLock \/ (\E s \in Streams : Receive(s)) \/ StartScan \/ RunProgram
        \/ OutputLock \/ (\E on \in BOOLEAN : EndScan(on))

(***************************************************************************)
(* CommandCallback::Operate, called by the one thread of the DNP3 manager. *)
(***************************************************************************)
Request(c) ==
  /\ operate = None /\ operates < MaxOperates
  /\ operate' = c /\ operates' = operates + 1
  /\ UNCHANGED <<now, inFlight, inputs, mainVars, bufferLock, outOfRange, output, lost, scans>>

\* The range of wide registers is checked before the lock is taken; so is the code of a
\* command for a coil, with the same effect.
OperateRefused ==
  /\ operate = "WideBeyond" /\ operate' = None
  /\ UNCHANGED <<now, inFlight, inputs, mainVars, bufferLock, operates, outOfRange, output,
                 lost, scans>>

OperateLock ==
  /\ operate \notin {None, "WideBeyond"} /\ bufferLock = "free"
  /\ bufferLock' = "dnp3"
  /\ UNCHANGED <<now, inFlight, inputs, mainVars, dnpVars, output, lost, scans>>

\* Mutant: a 16-bit register is written and the handler returns at once.
OperateReturns_Early ==
  /\ bufferLock = "dnp3" /\ operate' = None
  /\ bufferLock' = IF operate \in {"Int16", "Int16Beyond"} THEN "lost" ELSE "free"
  /\ outOfRange' = (outOfRange \/ operate = "Int16Beyond")
  /\ UNCHANGED <<now, inFlight, inputs, mainVars, operates, output, lost, scans>>

\* The handler writes and unlocks; the one for 16-bit values returns OUT_OF_RANGE
\* without.
OperateReturns ==
  /\ bufferLock = "dnp3" /\ operate' = None
  /\ bufferLock' = IF operate = "Int16Beyond" THEN "lost" ELSE "free"
  /\ outOfRange' = (outOfRange \/ operate = "Int16Beyond")
  /\ UNCHANGED <<now, inFlight, inputs, mainVars, operates, output, lost, scans>>

Outstation == (\E c \in Commands : Request(c)) \/ OperateRefused \/ OperateLock
              \/ OperateReturns

Next == Tick \/ (\E s \in Streams : Lose(s)) \/ Main \/ Outstation

Spec == Init /\ [][Next]_vars

(***************************************************************************)
(* Properties                                                              *)
(***************************************************************************)
\* Types; no timestamp is from the future, and no scan is more than a cycle away.
TypeOK ==
  /\ now \in Nat /\ inFlight \in [Streams -> Seq(Nat)]
  /\ input_timestamp \in [Streams -> 0 .. now] /\ input_pkt_id \in [Streams -> Nat]
  /\ next_compute_ts \in 0 .. now + CYCLE_TIME /\ scanEnd \in Nat
  /\ pc \in {"input", "receive", "wait", "program", "output", "send"}
  /\ bufferLock \in {"free", "main", "dnp3", "lost"} /\ outOfRange \in BOOLEAN
  /\ bufferLock = "main" <=> pc \in {"receive", "wait", "send"}
  /\ operate \in Commands \union {None} /\ operates \in Nat
  /\ output \in [number : Nat, ts : Nat, id : Nat] /\ lost \in Nat /\ scans \in Nat

\* A scan computes on packets of one cycle: all of them were sent in the
\* CYCLE_TIME before the compute time ("Only send when receive packets of the
\* same time cycle", blank.cpp:395).
InputsOfOneCycle ==
  pc \notin {"input", "receive"} => \A s \in Streams :
    input_timestamp[s] \in next_compute_ts - CYCLE_TIME .. next_compute_ts - 1

\* No packet is sent twice or out of order: each output, one with the same timestamp
\* and id included (it has another number), must have a later timestamp and a larger id
\* than the one before it.
OutputsMoveForward ==
  [][output' # output => /\ output'.ts > output.ts /\ output'.id > output.id]_output

\* A lost packet costs the scan of its cycle and no other, and a command none: the
\* compute times that have passed are scanned, except one for each lost packet and the
\* first, for which a stream may have sent before the run.  Only a 16-bit command for
\* an index out of range ends all scans (dnp3.cpp:136 returns with bufferLock held).
LossCostsOneScan ==
  Cycle(now - COMPUTE_OFFSET - 1) <= scans + lost + 1 \/ outOfRange
=============================================================================
