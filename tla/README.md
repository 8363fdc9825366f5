# A verification development for the Ziggo TSN switch

The repository holds the processing-system (PS) software of a TSN switch: an
IEEE 802.1AS time-aware bridge with four external ports
(`src/Software/Time-Synchronization`), and a PLC runtime that uses the switch
(`src/Software/Packetized-PLC-IO`). The FPGA logic (PL) is not in the
repository: its timestamp units, DMA and switch fabric are modelled from how
the software uses them and marked external. Paths of the time-sync
software are relative to `src/Software/Time-Synchronization`, those of the PLC
runtime to `src/Software/Packetized-PLC-IO`.

## 1. Inventory

Time synchronization:

| component | state it keeps | operations | properties that make it correct |
|---|---|---|---|
| **PTP receive path** `dma_proxy/`, `time_sync/eth_frame.c`, `tsn_drivers/tsu.c` | ring of `FIFO_SIZE` frames (`front`, `rear`, `size`, arrays) under `buf_queue_lock`; DMA buffer; TSU receive FIFOs | `DMA_rx_thread`/`process_packet`/`push_queue`; `recv_ptp_frame`/`pop_queue`/`tsu_rx_get_timestamp` | bounded FIFO across two threads; a frame gets its own timestamp; no frame blocks the main loop |
| **Sync relay** `md_sync_receive`, `port_sync_sync_receive`, `site_sync_sync`, `port_sync_sync_send`, `md_sync_send`, `clock_master_sync_send` | per port: machine state, received flags, sequence id, pending sample; `syncReceiptTimeoutTime` | Sync, Follow_Up, transmit timestamp, timeout, clock tick | Follow_Up pairs with its Sync; relayed time was measured; a sample leaves the bridge |
| **Peer delay** `md_pdelay_req`, `md_pdelay_resp` | exchange id, t1..t4, lost-response counter | Req, Resp, Resp_Follow_Up, transmit timestamps, interval timer | a delay is computed from one exchange; the exchange is retried for ever; the responder does not get stuck |
| **Port roles** `port_announce_information(_ext)`, `port_state_selection`, `port_announce_transmit` | per port priority vectors, `infoIs`, `reselect`/`selected`/`updtInfo`; `selectedState[]`, `gmPresent`, path trace | Announce, receipt timeouts, reselection, transmission | roles agree with the best announced clock; no timing loop; the network settles after a failure |
| **Local clock** `clock_slave_sync`, `clock_master_sync_receive`, `tsn_drivers/rtc.c` | circular list of slave times, rate ratio, RTC offset and period | apply a sample, update master time | offset from the sample, rate from the right window, the rate settles |
| **Arithmetic** `tsn_drivers/ptp_types.c` | none | add, subtract, compare of 16/64/16-bit times | agrees with integer arithmetic up to a known error |
| **Configuration** `config.c`, `topo.cpp`, `tsn_drivers/gcl.c`, `switch_rules.c` | hardware registers, written once | parse JSON, write GCL and MAC rules | layout of the registers |

PLC runtime:

| component | state it keeps | operations | properties that make it correct |
|---|---|---|---|
| **Packet input and output** `hardware_layers/blank.cpp` | last timestamp and id per stream, `next_compute_ts` | `updateBuffersIn`, `updateBuffersOut` | a scan computes on packets of one cycle; outputs never go backwards; a loss costs one scan |
| **DNP3 outstation** `dnp3.cpp` | `bufferLock` while a command is handled | `Operate` for five kinds of commands, `update_vals` | gives `bufferLock` back |
| **Persistent storage** `persistent_storage.cpp` | `persistent.file`, per thread a copy of `int_memory` | `startPstorage`, `readPersistentStorage` | the file holds one scan, survives a restart, and is kept up to date |
| **Servers and life cycle** `server.cpp`, `interactive_server.cpp`, `main.cpp` | run flags, descriptors, handler threads | accept, handle, start and stop commands, shutdown | answers reach the asker; commands end; outputs are disabled at the end |
| **Modbus slave** `modbus.cpp` | located variables, `mb_holding_regs` | eight function codes | reads answer what was written; an exception changes nothing; no request ends the process |
| **Modbus master** `modbus_master.cpp` | four shared buffers under `ioLock`, connection flags | `querySlaveDevices`, `updateBuffersIn_MB/Out_MB` | each slot keeps to its register across failures; outputs arrive |
| EtherNet/IP and PCCC, other hardware layers, `lib/`, copies of the switch drivers | – | – | not modelled, section 7 |

**How they interact.** All 802.1AS machines run in one thread, the loop of
`TimeSyncMainLoop` (`time_sync_main_loop.c:375`): update the master time, run
the timeouts of every machine, take at most one frame from the receive queue
and call the machine it is for, select port states, poll the transmit TSU of
every port. The machines call each other synchronously (Sync: receive → site →
slave clock and every sending port) and share `PerPTPInstanceGlobal` and
`PerPortGlobal`. The only other thread is `DMA_rx_thread`, which fills the
queue. A handler and the run loops behind it are therefore one atomic step;
the receive queue is where finer interleaving matters.

The PLC runtime is a separate process with many threads: `main` (the scan
cycle), the interactive server that starts and stops the others, the Modbus
server with a detached thread per client, the DNP3 manager, storage threads, and
the Modbus master. They share the variables of the PLC program under
`bufferLock`, which `updateBuffersIn` holds while it waits for packets; the
buffers of the Modbus master have `ioLock`. It reads the synchronized time from the
RTC that the time-sync process sets.

**What is hard.** Two threads and a mutex; timestamps that arrive in FIFOs
beside the frames they belong to, and later than the frames; answers that come
before the transmit timestamp; lost messages and timestamps; sequence ids that
wrap; a timer per exchange racing its answers; roles that change in the middle
of a two-step transmission; several bridges that reselect on old announces; limbs
of a time value that carry one early; a file rewritten in place by any number of threads; threads that
outlive the server that made them; a failed device in the middle of a poll
whose slots are counted, not addressed. The list with lines is `hazards` in
`PROJECT.json`.

## 2. Modules

| module | models | notes |
|---|---|---|
| `FrameFifo` | what the receive queue promises | abstract specification: `Push`, `Overflow`, `CopyFront`, `ReleaseFront` |
| `RxPath` | receive path, two threads and hardware | implements `FrameFifo` (`ImplementsFifo`) |
| `SyncRelay` | transport of time through one bridge | the machines of all ports and the clock master |
| `Pdelay` | peer delay over one link | requester at one end, responder at the other |
| `Bmca` | best master clock algorithm of several bridges | every port's announce machines, port state selection, links, seconds, failures |
| `ScaledNs` | `UScaledNs` limb by limb | widths of the limbs are constants |
| `ClockSlave` | ClockSlaveSync and the RTC | on `ScaledNs` |
| `PlcInput` | packet input, scan and output in time, DNP3 commands beside it | `bufferLock` |
| `PlcStorage` | the storage file across restarts | storage threads, `main`, interactive server |
| `PlcServers` | Modbus server, its handlers, commands, shutdown | descriptors as the operating system gives them out |
| `ModbusMap` | what a Modbus request reads and writes | addresses, words and bytes scaled down |
| `ModbusMaster` | the poll of the slave devices | four buffers, `ioLock`, scan cycle, failures |
| `MC...` | values of function constants for TLC | no definitions of their own beyond values |
| `RxPathProofs`, `SyncRelayProofs`, `PdelayProofs`, `PlcInputProofs`, `PlcStorageProofs`, `PlcServersProofs`, `ModbusMapProofs`, `ModbusMasterProofs` | theorems | section 6; `SyncRelayProofs` also about `ScaledNs` and `ClockSlave`, `PdelayProofs` also about `Bmca` |

### RxPath
`front, rear, size, bufArray, lenArray` are the fields of `buffer_queue`,
`lock` the owner of `buf_queue_lock`. `rxPc`/`mainPc` are control points:
`size += 1` and `size -= 1` are split into a load (`PushCopy`, `PopCopy`) and a
store (`PushStore`, `PopStore`), so a missing lock would be found.
`recv_ptp_frame` is `MainLock`, `PopNothing`/`PopCopy`/`PopStore`, then
`DeliverGeneral` for messages without timestamp or `FetchTimestamp` for event
messages: the read of the port's TSU FIFO is repeated until type and sequence
id match, and waits while the FIFO is empty. External: frames arrive and are
stamped (`Arrive`), are lost before the DMA buffer (`Drop`), reach it in port
order (`DmaComplete`).

`Path(p)` lists the frames that are not dispatched yet by their place on the way
of port `p`: the one being matched, the ring, the DMA buffer, the frames in
flight. `TimestampsFollowFrames` says that the TSU FIFO of the port holds exactly
one stamp for each event frame of the port on that path, in the same order.

### SyncRelay
One step per input of the main loop, with every call it causes. A time value is
the identity of the transmission it came from: `relayed` numbers the samples
SiteSyncSync accepted, a Follow_Up carries such a number. `SiteSyncReceive` is
`site_sync_sync_sm_recv_pss` with ClockSlaveSync (`slaveSample`) and
PortSyncSyncSend for each port; `RecvMDSync` and `RecvTxTimestamp` are
MDSyncSend's two inputs with its run loop. `Reselect` assigns any roles that
`updtStatesTree` can produce. `portOper`/`ptpPortEnabled` are fixed by the
configuration (`Enabled`), `asCapable` is always 1 (`time_sync_main_loop.c:264`).
`PortSyncSyncSend` is only run when it receives a sample, so its other timers
never act.

### Pdelay
`req` and `resp` are the two records of the machines; the transition functions
`RunWaitResp`, `RunWaitFollowUp`, `EnterReset`, ... compose into `Run`, the loop
of `md_pdelay_req_sm_run`. A timestamp is the exchange it was taken in, so
"t1..t4 belong to one exchange" can be said. The responder's `CRASHED` state is
the dereference of `rcvdPdelayReqPtr` after it was set to NULL, which
`NoNullRequest` shows is not reached. `IntervalElapses` is
`pdelayReqInterval` passing since the last request; the first request is sent by
the initialisation with `pdelayIntervalTimer` still 0, so both cases of
`elapsed` are initial.

### Bmca
`bridge[b]` holds what the three machines of a bridge share: `gm`
(`gmPriority`), `path` (`pathTrace`), `sync` (`syncReceiptTimeoutTime`, in
seconds left), and per port the PortAnnounceInformation state, `infoIs`,
`selectedState`, `portPriority`, the announce deadline, the pending Announce
and the flags `selected`, `reselect`, `updtInfo`, `newInfo`. One iteration of the main
loop is one step (`Iterate`): `Poll` of every port in order
(`PaiRun`, `PatRun`), at most one received Announce, `Select`. The operators are the
actions of the machines: `Aged`, `Update`, `SuperiorMaster`, `Repeated`,
`Inferior`, `ReceiptTimeout`, and `PortStateUpdate`, `GmPriority`, `PathTrace`
of `updtStatesTree`.

A system identity is a rank, so comparing two priority vectors (`Superior`)
is a comparison of small numbers; `StepsKey` keeps what `memcmp` makes of the
little-endian `stepsRemoved`. What the code always sets together is kept once
(see the head of the module). Time is in seconds, the announce interval:
`Tick` ages the deadlines and lets Syncs through wherever a chain of MASTER and
SLAVE ports carries them (`Synchronized`, `SyncAfter`: one variable for the whole
instance, written for any port that hears a Sync, and set to *never* by a
clock master that sends).

Simplifications. The module starts after the first iteration, when every port
has aged and was selected MASTER; `syncReceiptTimeoutTime` is not initialised
by the code, so its first value is a choice (`InitialSync`). Two bridges share
at most one link: `sourcePortNumber` of received vectors is never set
and would decide between parallel links. A second passes only when no
Announce is on its way and no bridge has work left, that is, the loops are
faster than the timers. A bridge restarts when its neighbours have timed it out.

### ScaledNs and ClockSlave
`Subtract`, `Add` and `Compare` work limb by limb as the code does, borrow from
the limb above and carry when a limb *reaches* its largest value
(`EarlyCarry`). `ClockSlave` is one step per sample
(`RecvPss`: `updateSlaveTime`, `SendSyncIndication` with the circular list and
`updateSlavePeriod`). A sample brings the master time in two parts: whole
nanoseconds in `preciseOriginTimestamp`, and fractions with possibly some whole
nanoseconds (`CorrectionNs`) in `followUpCorrectionField`.
Since `ScaledNs`, `ClockSlave` and `Bmca` share proof modules with other
specifications, their initial predicates, specifications and type invariants carry
the component's name (`ClockSpec`, `ClockTypeOK`, `BmcaSpec`, ...). Rates are multiples of `1/Step`; the threshold
of 1e-3 at `clock_slave_sync_sm.c:63` is `1/Limit`. The double arithmetic of the
ratio is integer arithmetic rounded the way the register is. The source of
samples is a master that may jump, or the local clock itself when no port is
slave (`ChangeSource`).

### PlcInput
Time is an integer and packets are their send times. `Receive` is one turn of the
receive loop in `updateBuffersIn` (which compute time a packet is for, late
packets, the join of all streams); `StartScan`, `RunProgram`, `OutputLock` and
`EndScan` are the rest of the cycle, each with what it does to `bufferLock`.
`Request`, `OperateLock`, `OperateReturns` and `OperateRefused` are a DNP3
command, by what its handler does with the lock; a critical section of a handler
takes no time. Time does not pass while a step is due, so a scan is never
later than `ScanTime` says.

What the program counts on but nowhere checks is said by two predicates on the
configured times. `Punctual`: a packet sent after the compute time of its cycle
arrives before the next compute time, and a scan is over by then. `Prompt`: a
packet sent before the compute time of its cycle arrives by it. Without
`Punctual` a scan may mix cycles (`InputsOfOneCycle` fails with a scan time or a
delay longer than a cycle); without `Prompt` a late packet costs scans
although none was lost. The theorems have them as hypotheses; `MCPlcInput`
assumes them.

### PlcStorage
`main` starts up (`MapUnusedIO`, `ReadFile`, `Restore`) and scans; a storage
thread takes its first copy, compares and copies under `bufferLock`, truncates
the file (`Open`) and writes it (`Write`). `Fail` is an `fopen` or `fwrite` that
fails and ends the thread, or an `fclose` that fails unnoticed and leaves the file truncated:
stdio holds all registers in its buffer until then. `Restart` ends the process at any
point; only the file survives. A register is written one per step, so a
copy without the lock would mix scans.

### PlcServers
The acceptor, up to `Handlers` detached handler threads, clients, the
interactive server and `main` are separate actors. Descriptors are numbers given
out lowest first; a handler keeps a number and the socket behind it may change.
`mixed` records that a handler may have read the wrong descriptor from the array on
the stack of `startServer`, which is a fault of the code listed as a hazard; the
properties say what holds without it. A `startServer` that finds its flag cleared
before its first client closes a `client_fd` it never set, or gives it to a
handler; `Garbage` is any descriptor then. Commands of the interactive server are taken
one at a time, although its test of `processing_command` is not atomic.

### ModbusMap
One action per request. The address space is scaled (`A` for 1024, `BYTE` for
256, `BITS` for 8) with the formulas of the code kept, for instance
`position - MIN_32B_RANGE` divided by two. A register without a variable falls
back to `mb_holding_regs`. Requests are the eight function codes over every start
address and a few counts around the limits, zero included. Counts and words are 16 bits
wide and a coil is 0 or 1 (`DataAssumption`). `Checked` is what a multiple write can
find when it tests the pointer of `start` for a 32-bit word: exact where `start` is in the 32-bit
table or one in front of it, any memory below the array otherwise.

### ModbusMaster
`querySlaveDevices` walks the kinds of each device in order; the buffer indices
advance by the number of slots a device has, also when it is skipped
(`SkipDevice`, `ReadFails`). A value read is tagged with where it was read, a
value written with the scan that computed it. Devices fail and recover; a serial
port is a shared context whose slave number is a variable. `SlotsBefore` sums the
slots of the devices in front of one; the code never compares that sum with the
size of its buffers, so a configuration that fits is an assumption
(`FitsAssumption`).

## 3. Runs

| run | question | answer |
|---|---|---|
| `rx` | is the ring sound and a FIFO under both threads, do stamps stay with frames, is each queued frame handled, with frames dropped on the way? | yes, if every event frame is stamped |
| `sync` | do Follow_Ups match their Syncs and carry measured time, across losses and role changes, and does each sample go out? | yes, until the id wraps |
| `sync_wrap` | and at the wrap? | no: the port is stuck |
| `pdelay` | is a delay computed from one exchange, is the lost-response threshold acted on, does measuring go on after disturbances? | yes, except in the two states `StaleResp` and `Overrun` |
| `bmca_ring` | do three bridges in a ring keep out of timing loops and settle on the best running clock after a failure? | yes |
| `bmca_loop` | is a believed grandmaster at most eight hops away? | no: a stopped clock's announces circulate |
| `clock` | is the offset within 3 ns of the source, the window right, does the rate settle? | yes, unless a jump was taken for a rate error |
| `plc_input` | does a scan use packets of one cycle, do outputs move forward, what does a loss or a command cost? | one scan per loss; no scan per command, except the DNP3 command that keeps `bufferLock` |
| `plc_storage` | does the file hold one scan, is it restored, does it catch up? | yes, from a whole file and if no thread copies before it is read; it can then go back only while two storage threads run |
| `plc_servers` | do answers go home, do requests and commands end, are outputs disabled at the end? | yes, if no descriptor was mixed up; a late request may switch an output on again |
| `modbus_map` | do reads answer writes, when does a request change what it was not asked for, when does it end the process? | yes, except for the words that multiple writes lose, listed below |
| `modbus_master` | do slots keep to their registers, is a message of one scan, do outputs arrive after faults? | yes |

The runs that end in a violation (`sync_wrap`, `bmca_loop`) are listed with the
line they contradict under `findings` in `PROJECT.json`. Where the code does not
keep a promise in a case that is known, the property names that case. The property
then says where the fault ends; it does not show that the fault is absent:

* `DelayIsMeasured`, `ResponderReturns`: when the RTC is past one second at the
  start, a Pdelay_Resp handled in RESET spoils the next exchange, and that the
  one after it (`StaleResp`); a second Pdelay_Req before the first answer's timestamp leaves
  the responder waiting (`Overrun`); so does a lost timestamp.
* `RateSettles`: a jump of the master time below 1e-3 of the window counts as a
  rate error; two of them can leave a rate that is never corrected.
* `LossCostsOneScan`: an Int16 command out of range returns with `bufferLock` held.
* `OlderScanNeedsTwoThreads`: a second storage thread. Both it and
  `RestoresWhatWasSaved` speak of lives of the process that start with a whole file
  and in which no storage thread makes a copy before `readPersistentStorage` is through
  (`trusted`, set anew by each start). The file is not whole if the
  life before ended between `fopen` and `fwrite`, or if `fclose` failed unnoticed; a
  thread that copies too early writes zeros over the saved values.
* `FileCatchesUp`: a failing `fopen`, `fwrite` or `fclose`.
* `OutputsEndDisabled`: handlers outlive the server that main waits for, so a
  request of a client may leave the coil on.
* `AnswersGoHome`, `RequestsAreAnswered`: descriptors that were mixed up; the length
  of an answer is only promised as long as no other handler has been at work, be it that it
  has ended since.
* `ReadsAreAsAsked`: an unlocated wide register answers its low byte twice, and register
  1024 is read from behind an array, so both are left out. A multiple write loses words
  (`Disturbed`): of each located 64-bit variable it reaches, those after
  the first, except the one at the place that `start` has in its variable. This
  is so in *ordinary aligned* requests as well: four words written to 4096
  reach only the first word, because `modbus.cpp:791-810` tests `Start` where it
  means `position`. If `start` is not at the first place, the lost words are written
  over the word at its place. And of 32-bit variables all words are lost if the pointer of the variable *at
  start* is NULL, or what is read for it in front of the array.
* `CrashNeedsMixedRequest`: a 32-bit variable without a pointer behind a `start` that passes
  the check.
* `OnlyWhatIsAsked`: requests that start inside a table and end outside.

## 4. Bounds

* `RxPath`: `FIFO_SIZE = 2` is the smallest ring that wraps and can be neither
  empty nor full; with up to two frames in flight per port, four frames per run and
  frames of another protocol (`VLAN`) between them, the ring wraps, fills and
  overflows. Two ports share the queue, so that one port's frames must not
  consume the other's stamps. A sequence id is not reused by a message type
  within a run: ids are 16 bits and a reuse needs 65536 queued frames.
* `SyncRelay`: two ports, two upstream transmissions, one tick, two role
  changes: the smallest number in which a port is slave, then master, with a
  Sync outstanding and a sample pending. The id does not wrap in `sync`
  (`SeqMod` 8 from 1) and wraps in `sync_wrap` (4 from 3); the initial id is random in the code.
* `Pdelay`: `SeqMod` 6, with wrap; an exchange that still has messages on the way
  does not meet its id again, as with 65536 ids. `AllowedLostResponses` is 1
  where the code has 255; `MaxInFlight` bounds messages on the way when an interval ends.
* `Bmca`: three bridges in a ring are the smallest network with two paths to
  the grandmaster and a port that must be PASSIVE or MASTER against another
  bridge; bridge 3 may not be grandmaster (`priority1` 255), so
  `gmPresent` is false there until it hears another bridge. One stop, one restart and
  one lost Announce at any time. `SyncTimeout` is 5 instead of 24 seconds in the ring
  (longer than the announce timeout, which is what matters: the announces expire
  first) and 24 in `bmca_loop`. In `bmca_loop` no clock is better than the one
  that stops, and the ring behind it is what the announces go round.
* `ClockSlave`: `MAXLENGTH` 3 and five samples let the list wrap and start
  again; limbs of 2, 10 and 1 bits make every carry and borrow happen, with a master
  that starts beyond the first turn of the middle limb; up to two whole
  nanoseconds in the correction field; one Sync at a time is lost; jumps are small
  (taken for a rate error) or large, forwards and back.
* `PlcInput`: three streams, one of which sends after the compute time and so for the next
  cycle; six cycles, three losses, two commands: a stream can miss several
  cycles in a row and recover. A cycle is six ticks, `MaxDelay` and `ScanTime` two:
  a scan ends before the next compute time, which `InputsOfOneCycle` needs
  (`blank.cpp:376` does not check that the compute time it moves to is still to come):
  the values satisfy `Punctual` and `Prompt`.
* `PlcStorage`: two registers, two threads per life, two lives, two scans in
  all, one failure, three commands: enough for two threads with copies of different
  scans, and for a restart in the middle of either's write.
* `PlcServers`: two clients, of which one writes, two descriptors (so that one
  is given out again after it was closed), two handlers, one command at any time.
* `ModbusMap`: three variables of every width, of which the program declares one
  each, the middle one of the wide widths; two requests in a row.
* `ModbusMaster`: one TCP device and two on a serial line, with different kinds;
  one scan that computes new outputs (polls and scans go on), two faults.

## 5. Fairness

* `RxPath`: both threads poll without sleeping on a two-core processor, so each
  keeps running (weak fairness of the thread); a thread spinning on the mutex
  gets it eventually (strong fairness of the lock steps), which the pthread
  mutex does not guarantee in theory and a two-thread system with unlocked
  phases between the critical sections gives in practice.
* `SyncRelay`: weak fairness of `PollTxTimestamp(p)` only: the loop polls every
  port in every iteration.
* `Pdelay`: weak fairness of the polls and handlers of both loops and of time.
  Disturbances (losses, late messages) end at some point (`CalmDown`), from then on
  answers come within the interval, so
  `DelayIsMeasured` is about the time after them.
* `Bmca`: weak fairness of each bridge's loop and of time. Losses, stops and
  restarts are bounded, so `Converges` is about the time after the last of them.
* `PlcStorage`, `ModbusMaster`: strong fairness of `main` and of each thread:
  they sleep or wait outside their critical sections, and the mutex is given to
  a thread that waits for it again and again.
* `PlcServers`: weak fairness of acceptor, handlers, commander and `main`, that
  is, packets keep coming (else `updateBuffersIn` keeps `bufferLock`) and
  threads run. Clients and commands have none.
* `PlcInput` and `ClockSlave` have safety properties only; that scans happen is a safety property
  there, because time is a variable (`LossCostsOneScan`).

## 6. Proofs

The theorems of the eight proof modules hold for every value of the constants that
satisfies the named assumptions of their specification, and, where a theorem
has a hypothesis on the constants (`~TsuMayLose`, `Punctual`, `Prompt`), that one.
The values of the runs satisfy them all. `OffsetsAreClose` has a hypothesis on the
behaviour instead (`[]TimesFit`, below).

**RxPathProofs.** `TypeCorrect`, `RingIsSound` (`Spec => []RingSound`) and
`RingImplementsFifo` (`Spec => ImplementsFifo`). `TypeOK` alone is not inductive:
that `size' = rxSize + 1` stays below `FIFO_SIZE` needs the loaded size to be
current, which needs the other thread to be out of its critical section, which
needs the lock to say who is inside; that the popped frame is a PTP frame needs
the live slots to hold frames, which needs `rear = (front + size) % FIFO_SIZE`.
These are the conjuncts of `RingSound`; `IInv == TypeOK /\ RingSound` is
inductive. The index lemmas `SlotMod`, `SlotsDiffer`, `NextSlot` and `NextRear`
carry the arithmetic modulo `FIFO_SIZE`. For the refinement each ring action is
mapped by a lemma of its own: `PushCopy` stutters because the rear slot is not
live, `PushStore` appends, `PopCopy` and `PopStore` take the front.

`StampsFollowFrames` (`~TsuMayLose => (Spec => []TimestampsFollowFrames)`) builds on
the refinement: a port's path is a function of the queued frames
(`PathIsPathOf`), so that each step is a move of frames along it. A move that maps
the places of event frames to earlier places of the same frames, in order, keeps
the property (`MovesKeepStamps`); `PushMoves`, `PopMoves`, `TransferMoves`,
`DropMoves` give that map for each step. What is left are the steps that
touch the stamps: an arrival brings a new one (`ArrivalKeepsStamps`, which needs
`Origin`: every stamp is of a frame that arrived, and no frame arrives twice),
and a fetch takes the first, which is that of the frame in front or of no frame
of the path (`MatchKeepsStamps`, `DiscardKeepsStamps`). If the TSU may lose a
stamp the property is false, and TLC finds the state.

**SyncRelayProofs.** `FollowUpsArePaired` (`TwoStepPairs`), `FollowUpsAreGenuine`
(`FollowUpIsGenuine`), `OneStaleSync` (`AtMostOneStaleSync`), `TypeCorrect` and
`TimeoutIsArmed` (`TimeoutIsOfASync`: once a Sync of the slave port is the sample relayed
last, the sync receipt timeout is that of a received Sync; between a reselection
and that Sync it may still be off). `Machines` says of every MDSyncSend how its state, its
outstanding Sync, its id and what it has sent belong together; a Sync is
outstanding exactly if the number of messages sent is odd. `Matched` says that
what MDSyncReceive passes on comes from one transmission, `Genuine` that a
pending sample is not older than the one its Sync was sent for; `Stale` bounds
the Syncs sent after the role is lost by whether a sample is pending.

The second part of the module is about `ScaledNs` and `ClockSlave`, for limbs
of any width: `ClockTyping` (`ClockTypeOK`), `WindowsSlide` (`WindowSlides`) and
`OffsetsAreClose` (`ClockSpec /\ []TimesFit => OffsetIsClose`). The lemmas come first:
for numbers that fit, `Compare` is the order (`CompareIsExact`), `Subtract` is exact
when nothing is negative (`SubtractIsExact`), and `Add` is exact up to one unit
of the middle limb, lost when a limb reaches its largest value early
(`AddIsExact` without that carry). `TimesFit` says that the master and local times,
with the delay added, are below the range of the limbs (2^80 ns in the code, where
times count from 1970 or from power on), that the correction field is less than the time it is
part of, and that the offset needs only the register of the ns (2^64); every state
of the run `clock` satisfies it. The early carries of the
additions, of which two can meet, and the fraction of a nanosecond that
`set_rtc_sync_offset` drops leave the 3 ns of the property. `WindowSlides` needs
the invariant that slot *i* holds the last sample that was stored in it: the head
is then the oldest of the samples between head and tail, also after the
list has wrapped or was restarted at its tail.

**PdelayProofs.** `NullIsNeverAnswered` (`NoNullRequest`), `MeasuringIsWithdrawn`
(`MeasuringIsRecent`), `DelayIsOfOneExchange` (`OneExchange`) and `TypeCorrect`. A run of MDPdelayReq either keeps the id
or sends the next request (`Advances`), and counts every RESET while the port
measures (`Counted`). `NoNullRequest` needs the order of the requests: those
on the way have increasing ids and the id only wraps when none is
(`Order`), so a request for which the responder waits cannot be withdrawn.
`OneExchange` needs `Measuring`: the answers on the link are in the order of the
requests and not newer than the last one (`Answers`), and each timestamp the requester has
stored is that of the Resp it holds, in every state of the machine (`Exchange`),
because t2, t3 and t4 are overwritten whether or not they are waited for.

The second part of the module is about `Bmca`: `BmcaTyping` (`BmcaTypeOK`) and
`OwnInformationCurrent` (`OwnInformationIsCurrent`), for any number of bridges, any
links and any number of failures, restarts and losses. The invariant
(`BmcaInv`) calls a bridge `Sound` when it is well typed and the own information of
each port that is selected and has no update pending is its `masterPriority`, and
asks that every bridge be Sound, running or stopped, and every link hold Announces.
A network satisfies it at any point *inside* an iteration as well, which
is what the proof uses: `PortChanges` says which change of a port keeps a bridge
Sound, and one lemma per action of PortAnnounceInformation and
PortAnnounceTransmit applies it. `SelectIsSound` is the step where the property
could fail, because `gmPriority` changes under all ports:
`portStateUpdate` must ask for an update wherever the new `masterPriority`
differs, and a pending request must not be forgotten (`PortStateUpdateType`). That
`gmPriority` is a vector of the network needs a best candidate to exist: `Superior`
compares four fields in order, and `BestVector` finds the least field after
field (`Least`, from the well-foundedness of the naturals).

**PlcInputProofs.** `TypeCorrect`; under `Punctual`, `ScansAreOfOneCycle`
(`InputsOfOneCycle`) and `OutputsAreInOrder` (`OutputsMoveForward`: outputs are numbered, so
that the same packet sent again is a step of its own and excluded); under `Punctual`
and `Prompt`, `OnlyLossesCostScans` (`LossCostsOneScan`). `TInv` adds to the types
that the packets in flight of a stream are one cycle apart and later than the
one taken last (`Packets`), and where `bufferLock` may be lost. `IInv` adds
that a packet for the next cycle is not late (`Fresh`), that between two scans
all packets to come are after one compute time (`Between`), and that from the
join on `next_compute_ts` is a compute time that has the inputs of its cycle and no output
yet (`Scanning`). `Counted` compares scans and losses with every compute time that has
passed; its last clause counts the one that is being scanned. Multiples of the
cycle are handled by `Division` and facts per number, since the solver knows no products.

**PlcStorageProofs.** `FileHoldsOneScan` (`FileIsOneScan`), `StartRestoresFile`
(`RestoresWhatWasSaved`), `OneThreadGoesForward` (`OlderScanNeedsTwoThreads`), the last two
for lives that are `trusted`, and
`TypeCorrect`. The memory holds one scan whenever `bufferLock` is not with the program
(`MemoryIsOneScan`, `LockIsHeld`), so a copy made under the lock does
(`BufferIsOneScan`), and so does the file. `Trust` relates the file to what was saved last, `NotFuture`
and `Forward` order the copies of a single thread.

**PlcServersProofs.** `CoilsAreAskedFor` (`OutputsEndDisabled`),
`AnswersAreDelivered` (`AnswersGoHome`) and `TypeCorrect`. `Own` says that while
nothing was mixed up each handler holds an open descriptor of its own that leads
to the client it serves (`Holds`), no two share one (`Apart`), and an accepted
socket that has no handler yet belongs to nobody (`Accepted`); that the array of
arguments survives until it was read needs `Ended`, which says when
`startServer` may be started again. That the lowest free descriptor is free rests on
the well-foundedness of the naturals (`MinIsMember`).

**ModbusMapProofs.** `TypeCorrect`, `CrashesExplained` (`CrashNeedsMixedRequest`),
`ReadsAnswerWhatWasWritten` (`ReadsAreAsAsked`) and `WritesStayInRange`
(`OnlyWhatIsAsked`), for tables of every size and messages of every length. A
multiple write is a recursive function over the words of the message; `After` says
what its first *i* words have done, and holds for every *i* by induction. `IInv`
is `TypeOK`, the explanation of a crash, and `AsAsked`: a register that is not
disturbed holds what was written last.

**ModbusMasterProofs.** `TypeCorrect` (no index past the buffers), `SlotsSafe`
(`SlotsBelongToRegisters`), `MessagesSafe` (`MessageIsOneScan`) and `ScansSafe`
(`ScanReadsOneAnswer`), for any devices, kinds and sizes that fit. `Position` is the heart:
at each place of the poll the four running indices are `SlotsBefore` of the device plus
the kinds in front, *whichever of them failed or were skipped*. From it, that each slot
belongs to its register (`SlotsBelong`); `Settled` and `Replaced` say which part
of an answer is in the buffer while it is copied under `ioLock`.

Induction over words and devices: the induction theorems of the library take
an operator, so both modules prove `Induction` for a *set* of numbers from the
well-foundedness of `<` (`WFMin`), and define the set for which the claim holds.

**Only model-checked.** Liveness (`QueuedIsHandled`, `SampleReachesNeighbour`,
`DelayIsMeasured`, `ResponderReturns`, `FileCatchesUp`, `OutputsArrive`,
`RequestsAreAnswered`, `CommandsEnd`, `Converges`): the prover has no ENABLED.
`NoTimingLoop` rests on the order in which the announces of a whole network
expire and are passed on; it is checked for the ring, and whether it holds
in a larger network depends on delays. `RateSettles` does not hold for all constants
that the specification admits: how far rounding and the limbs that carry early move a rate
depends on their widths and on the time between Syncs.

## 7. Not modelled

* `PortAnnounceInformationExt` (roles configured from outside), the transmit side
  of the DMA channel, `uscaledns_mul`/`_div` and the double arithmetic.
* Gate control lists, MAC rules, topology and JSON configuration: registers
  written once at start-up from a file; UIO and GPIO access; logging; the tagger.
* DNP3: what a command writes and what `update_vals` reports; sessions are those of
  an external library.
* EtherNet/IP and PCCC (`enip.cpp`, `pccc.cpp`): the layout of a second protocol
  over the same variables; its server threads are those of `PlcServers`, with a
  flag of their own.
* `lib/`, `psm/`, hardware layers of other boards, ladder programs: not compiled
  into this system, or third-party. `json.hpp` (twice, 22091 lines each) is the largest file of the
  repository; the PLC runtime has copies of the drivers modelled above.
* Branches left out of modelled machines: `detectedFaults`, which counts
  answers that come from the bridge's own clock, over a cable between two of its ports
  (`time_sync/md_pdelay_req_sm.c:345-352`); the exit of the process
  when a measured delay is negative (`time_sync/md_pdelay_req_sm.c:139-142`); the
  comparison of `requestingPortIdentity` (`:254-258`), which always agrees on a link
  of two; the fraction of a nanosecond of the clock's own samples
  (`time_sync/clock_master_sync_send_sm.c:35-43`), which is inside the tolerance of `OffsetIsClose`;
  `ts.tv_nsec`, a division by the baud rate that is zero for a device without one
  (`modbus_master.cpp:421`).

Further places that are hard to test and outside the models:
`pop_queue` returns the length of the next slot (`dma_proxy/buffer_queue.c:49`);
the path trace is taken over only when a port becomes slave
(`time_sync/port_state_selection_sm.c:127`) and is appended to with a count from the
message (`port_announce_information_ext_sm.c:56`); `uscaledns_mul` shifts and
`uscaledns_div` divides without looking at its divisor (`tsn_drivers/ptp_types.c:175`, `:208`);
`*special_functions[2]++` moves the pointer (`modbus_master.cpp:431`); sums of slots are not compared with the
size of the buffers; `server_command` and `processing_command` are shared by the handlers of
the interactive server (`interactive_server.cpp:209`, `:405`); `quit()` joins
threads that were never created (`:501`); the interactive thread runs before
`bufferLock` is initialised (`main.cpp:223`); outputs on slave devices are not
disabled at shutdown; an unknown stream id counts as stream 0 (`hardware_layers/blank.cpp:388`);
`readPersistentStorage` returns no value.

## 8. Plan

Done: every module of section 2, their runs, and the proofs of section 6. What
would come next:

1. `PortAnnounceInformationExt` with its path trace, links in parallel, and Sync
   carried message by message (composition of `Bmca` with `SyncRelay`).
2. DNP3 and EtherNet/IP commands in `PlcServers`, with `bufferLock` as a variable.
3. A proof of `NoTimingLoop` for rings of any length, and the relation between the
   constants under which `RateSettles` holds.
4. The encoding of gate control lists into registers.
