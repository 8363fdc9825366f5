----------------------------- MODULE PlcStorage -----------------------------
(***************************************************************************)
(* Persistent storage of the PLC runtime (persistent_storage.cpp) with the *)
(* threads it shares memory with: main (main.cpp: start up, then the scan  *)
(* cycle) and the interactive server that starts and stops it.  The file   *)
(* outlives the process, which may end and start again at any point.       *)
(*                                                                         *)
(* The PLC program writes every register of int_memory in each scan, all   *)
(* to the same value, the number of the scan.                              *)
(***************************************************************************)
EXTENDS Naturals, FiniteSets

CONSTANTS Regs,          \* indices of int_memory
          Threads,       \* storage threads that can be created in one life
          NoThread,
          Junk,          \* content of a persistentBuffer never filled
          Absent, Empty, \* the file does not exist; it is truncated
          MaxScans,      \* bound on the scans over all lives
          MaxCommands,   \* bound on start_pstorage() and stop_pstorage()
          MaxLives,      \* bound on the starts of the process
          MaxFaults      \* bound on failing fopen, fwrite and fclose calls

ASSUME RegsAssumption    == Regs # {} /\ Regs \subseteq Nat
ASSUME ThreadsAssumption == /\ "main" \notin Threads
                            /\ NoThread \notin Threads \union {"main"}
ASSUME BoundsAssumption  ==
  {MaxScans, MaxCommands, MaxLives, MaxFaults} \subseteq Nat
ASSUME JunkAssumption    == Junk \notin Nat

VARIABLES
  memory,        \* what int_memory points at
  mapped,        \* int_memory points somewhere: mapUnusedIO has run
  lock,          \* owner of bufferLock
  mainPc,        \* control point of main
  todo,          \* registers the owner of the lock has not handled yet
  mainBuffer,    \* persistentBuffer of readPersistentStorage
  run_pstorage,
  pc,            \* control points of the storage threads
  buffer,        \* their persistentBuffers
  outdated,      \* their bufferOutdated flags
  file,          \* persistent.file
  count,         \* scans, commands, lives and faults so far
  saved,         \* history: the values written last
  trusted        \* history: nothing has happened that loses them for this life

mainVars   == <<memory, mapped, mainPc, mainBuffer>>
threadVars == <<pc, buffer, outdated>>
history    == <<saved, trusted>>
vars == <<mainVars, lock, todo, run_pstorage, threadVars, file, count, history>>

Value == 0 .. MaxScans
All(v) == [r \in Regs |-> v]
First(r) == r \in todo /\ \A q \in todo : r <= q
Image == [Regs -> Value \union {Junk}]

ASSUME FileAssumption == Absent # Empty /\ {Absent, Empty} \intersect Image = {}

\* The process starts: globals are zero, no thread runs, and main waits in
\* its first updateBuffersIn for a packet, holding bufferLock.
Fresh ==
  /\ memory' = All(0) /\ mapped' = FALSE
  /\ lock' = "main" /\ mainPc' = "boot" /\ todo' = {}
  /\ mainBuffer' = All(Junk) /\ run_pstorage' = FALSE
  /\ pc' = [t \in Threads |-> "none"]
  /\ buffer' = [t \in Threads |-> All(Junk)]
  /\ outdated' = [t \in Threads |-> FALSE]

Init ==
  /\ memory = All(0) /\ mapped = FALSE
  /\ lock = "main" /\ mainPc = "boot" /\ todo = {}
  /\ mainBuffer = All(Junk) /\ run_pstorage = FALSE
  /\ pc = [t \in Threads |-> "none"]
  /\ buffer = [t \in Threads |-> All(Junk)]
  /\ outdated = [t \in Threads |-> FALSE]
  /\ file = Absent
  /\ count = [scans |-> 0, commands |-> 0, lives |-> 1, faults |-> 0]
  /\ saved = All(0) /\ trusted = TRUE

(***************************************************************************)
(* main                                                                    *)
(***************************************************************************)
\* Mutant: readPersistentStorage is called before mapUnusedIO.
InputDone_ReadFirst ==
  /\ mainPc \in {"boot", "input"}
  /\ lock' = NoThread
  /\ mainPc' = IF mainPc = "boot" THEN "read" ELSE "scanLock"
  /\ UNCHANGED <<memory, mapped, mainBuffer, todo, run_pstorage, threadVars,
                 file, count, history>>

\* The packets of a cycle are in: updateBuffersIn returns.
InputDone ==
  /\ mainPc \in {"boot", "input"}
  /\ lock' = NoThread
  /\ mainPc' = IF mainPc = "boot" THEN "map" ELSE "scanLock"
  /\ UNCHANGED <<memory, mapped, mainBuffer, todo, run_pstorage, threadVars,
                 file, count, history>>

\* mapUnusedIO makes every null pointer of int_memory point at a Modbus register.
MapUnusedIO ==
  /\ mainPc = "map" /\ lock = NoThread
  /\ mapped' = TRUE /\ mainPc' = "read"
  /\ UNCHANGED <<memory, mainBuffer, lock, todo, run_pstorage, threadVars,
                 file, count, history>>

\* readPersistentStorage, fopen and fread: nothing to restore when the file is
\* missing or shorter than BUFFER_SIZE registers.
ReadFile ==
  /\ mainPc = "read"
  /\ IF file \in Image
       THEN mainBuffer' = file /\ mainPc' = "restore"
       ELSE mainPc' = "inputLock" /\ UNCHANGED mainBuffer
  /\ UNCHANGED <<memory, mapped, lock, todo, run_pstorage, threadVars, file,
                 count, history>>

\* Mutant: the copy is forgotten.
Restore_NoCopy ==
  /\ mainPc = "restore" /\ lock = NoThread
  /\ mainPc' = "inputLock"
  /\ UNCHANGED <<memory, mapped, mainBuffer, lock, todo, run_pstorage,
                 threadVars, file, count, history>>

\* readPersistentStorage, the copy into int_memory under bufferLock; it returns, and
\* its buffer is gone.
Restore ==
  /\ mainPc = "restore" /\ lock = NoThread
  /\ memory' = IF mapped THEN mainBuffer ELSE memory
  /\ mainBuffer' = All(Junk)
  /\ mainPc' = "inputLock"
  /\ UNCHANGED <<mapped, lock, todo, run_pstorage, threadVars,
                 file, count, history>>

\* The scan cycle: lock for the input, unlock, lock for the program.
InputLock ==
  /\ mainPc = "inputLock" /\ lock = NoThread
  /\ lock' = "main" /\ mainPc' = "input"
  /\ UNCHANGED <<memory, mapped, mainBuffer, todo, run_pstorage, threadVars,
                 file, count, history>>

ScanLock ==
  /\ mainPc = "scanLock" /\ lock = NoThread
  /\ count.scans < MaxScans
  /\ lock' = "main" /\ mainPc' = "scan" /\ todo' = Regs
  /\ count' = [count EXCEPT !.scans = @ + 1]
  /\ UNCHANGED <<memory, mapped, mainBuffer, run_pstorage, threadVars, file,
                 history>>

\* config_run__ writes a register.
ScanWrite(r) ==
  /\ mainPc = "scan" /\ First(r)
  /\ memory' = [memory EXCEPT ![r] = count.scans]
  /\ todo' = todo \ {r}
  /\ UNCHANGED <<mapped, mainPc, mainBuffer, lock, run_pstorage, threadVars,
                 file, count, history>>

ScanUnlock ==
  /\ mainPc = "scan" /\ todo = {}
  /\ lock' = NoThread /\ mainPc' = "inputLock"
  /\ UNCHANGED <<memory, mapped, mainBuffer, todo, run_pstorage, threadVars,
                 file, count, history>>

Main == \/ InputDone \/ MapUnusedIO \/ ReadFile \/ Restore \/ InputLock
        \/ ScanLock \/ (\E r \in Regs : ScanWrite(r)) \/ ScanUnlock

Booted == mainPc \notin {"boot", "map", "read", "restore"}

(***************************************************************************)
(* A storage thread.  Its first copy is written whatever it holds.         *)
(***************************************************************************)
\* Mutant: the registers are compared without bufferLock.
SnapLock_NoLock(t) ==
  /\ pc[t] \in {"first", "poll"}
  /\ todo' = Regs
  /\ pc' = [pc EXCEPT ![t] = "copy"]
  /\ outdated' = [outdated EXCEPT ![t] = pc[t] = "first"]
  /\ UNCHANGED <<mainVars, lock, run_pstorage, buffer, file, count, history>>

SnapLock(t) ==
  /\ pc[t] \in {"first", "poll"} /\ lock = NoThread
  /\ lock' = t /\ todo' = Regs
  /\ pc' = [pc EXCEPT ![t] = "copy"]
  /\ outdated' = [outdated EXCEPT ![t] = pc[t] = "first"]
  /\ trusted' = (trusted /\ Booted)
  /\ UNCHANGED <<mainVars, run_pstorage, buffer, file, count, saved>>

\* Mutant: bufferOutdated is not set.
SnapCopy_NotOutdated(t, r) ==
  /\ pc[t] = "copy" /\ First(r)
  /\ todo' = todo \ {r}
  /\ buffer' = [buffer EXCEPT ![t][r] = IF mapped THEN memory[r] ELSE @]
  /\ UNCHANGED <<mainVars, lock, run_pstorage, pc, outdated, file, count,
                 history>>

\* One register, skipped while its pointer is null.
SnapCopy(t, r) ==
  /\ pc[t] = "copy" /\ First(r)
  /\ todo' = todo \ {r}
  /\ IF mapped /\ buffer[t][r] # memory[r]
       THEN /\ buffer' = [buffer EXCEPT ![t][r] = memory[r]]
            /\ outdated' = [outdated EXCEPT ![t] = TRUE]
       ELSE UNCHANGED <<buffer, outdated>>
  /\ UNCHANGED <<mainVars, lock, run_pstorage, pc, file, count, history>>

SnapUnlock(t) ==
  /\ pc[t] = "copy" /\ todo = {}
  /\ lock' = NoThread
  /\ pc' = [pc EXCEPT ![t] = IF outdated[t] THEN "open" ELSE "check"]
  /\ outdated' = [outdated EXCEPT ![t] = FALSE]
  /\ UNCHANGED <<mainVars, todo, run_pstorage, buffer, file, count, history>>

\* fopen("persistent.file", "w") truncates the file.
Open(t) ==
  /\ pc[t] = "open"
  /\ file' = Empty
  /\ pc' = [pc EXCEPT ![t] = "write"]
  /\ UNCHANGED <<mainVars, lock, todo, run_pstorage, buffer, outdated, count,
                 history>>

\* fwrite and fclose.
Write(t) ==
  /\ pc[t] = "write"
  /\ file' = buffer[t]
  /\ pc' = [pc EXCEPT ![t] = "check"]
  /\ saved' = buffer[t]
  /\ UNCHANGED <<mainVars, lock, todo, run_pstorage, buffer, outdated, count,
                 trusted>>

\* fopen or fwrite fails: the thread returns, run_pstorage stays.  The buffer of stdio
\* holds all registers, so that an error of the disk comes from fclose, which nobody
\* checks: the thread goes on with a truncated file.
Fail(t) ==
  /\ pc[t] \in {"open", "write"}
  /\ count.faults < MaxFaults
  /\ \/ pc' = [pc EXCEPT ![t] = "failed"]
     \/ pc[t] = "write" /\ pc' = [pc EXCEPT ![t] = "check"]
  /\ count' = [count EXCEPT !.faults = @ + 1]
  /\ UNCHANGED <<mainVars, lock, todo, run_pstorage, buffer, outdated, file,
                 history>>

\* The loop condition, after pstorage_polling seconds or after the first write.
Check(t) ==
  /\ pc[t] = "check"
  /\ pc' = [pc EXCEPT ![t] = IF run_pstorage THEN "poll" ELSE "ended"]
  /\ UNCHANGED <<mainVars, lock, todo, run_pstorage, buffer, outdated, file,
                 count, history>>

Storage(t) == \/ SnapLock(t) \/ (\E r \in Regs : SnapCopy(t, r))
              \/ SnapUnlock(t) \/ Open(t) \/ Write(t) \/ Check(t)

(***************************************************************************)
(* Commands, and the end of the process.                                   *)
(***************************************************************************)
\* start_pstorage(n): a thread is created even when one is running.  Which of those not
\* used yet it is makes no difference.
StartPstorage ==
  /\ count.commands < MaxCommands
  /\ run_pstorage' = TRUE
  /\ \E t \in Threads : /\ pc[t] = "none" /\ t = CHOOSE u \in Threads : pc[u] = "none"
                        /\ pc' = [pc EXCEPT ![t] = "first"]
  /\ count' = [count EXCEPT !.commands = @ + 1]
  /\ UNCHANGED <<mainVars, lock, todo, buffer, outdated, file, history>>

\* stop_pstorage() does not wait for the thread.
StopPstorage ==
  /\ count.commands < MaxCommands
  /\ run_pstorage
  /\ run_pstorage' = FALSE
  /\ count' = [count EXCEPT !.commands = @ + 1]
  /\ UNCHANGED <<mainVars, lock, todo, threadVars, file, history>>

\* The process is killed, or quit() lets main reach exit(0), which waits for no
\* storage thread; it is started again later.  A file that is truncated then holds
\* nothing to restore.
Restart ==
  /\ count.lives < MaxLives
  /\ Fresh
  /\ count' = [count EXCEPT !.lives = @ + 1]
  /\ trusted' = (file # Empty)
  /\ UNCHANGED <<file, saved>>

Done == /\ count.scans = MaxScans /\ mainPc = "scanLock"
        /\ \A t \in Threads : pc[t] \in {"none", "ended", "failed"}
        /\ UNCHANGED vars

Next == \/ Main \/ (\E t \in Threads : Storage(t) \/ Fail(t))
        \/ StartPstorage \/ StopPstorage \/ Restart \/ Done

Spec == Init /\ [][Next]_vars

\* Packets keep coming, and threads keep running and get the mutex in turn.
Fairness == SF_vars(Main) /\ \A t \in Threads : SF_vars(Storage(t))

FairSpec == Spec /\ Fairness

(***************************************************************************)
(* Properties                                                              *)
(***************************************************************************)
MainPcs   == {"boot", "map", "read", "restore", "inputLock", "input",
              "scanLock", "scan"}
ThreadPcs == {"none", "first", "copy", "open", "write", "check", "poll",
              "ended", "failed"}

TypeOK ==
  /\ memory \in Image /\ mapped \in BOOLEAN
  /\ lock \in Threads \union {"main", NoThread}
  /\ mainPc \in MainPcs /\ todo \subseteq Regs /\ mainBuffer \in Image
  /\ run_pstorage \in BOOLEAN
  /\ pc \in [Threads -> ThreadPcs]
  /\ buffer \in [Threads -> Image] /\ outdated \in [Threads -> BOOLEAN]
  /\ file \in Image \union {Absent, Empty}
  /\ count \in [scans : Value, commands : Nat, lives : Nat, faults : Nat]
  /\ saved \in Image /\ trusted \in BOOLEAN

\* The file never mixes two scans: what a thread writes was copied between two
\* critical sections of main (startPstorage, persistent_storage.cpp:70).
FileIsOneScan == file \in Image => \E v \in Value \union {Junk} : file = All(v)

\* A start restores exactly the values written last, in whatever life that was, if the
\* file has any: not if the life before ended with it truncated (between fopen and
\* fwrite, or after an error of fclose).  Nor is anything said of a life in which a
\* storage thread makes a copy before readPersistentStorage is through, which may write
\* zeros over them.
RestoresWhatWasSaved ==
  [][(mainPc \in {"read", "restore"} /\ mainPc' = "inputLock" /\ trusted)
       => memory' = saved]_vars

Older(v, w) == v # Junk /\ w # Junk /\ v < w

\* The content of the file goes back to an older scan only while another storage
\* thread of this life exists: start_pstorage() does not replace the running one.  Again
\* for lives that start with a whole file and copy nothing before it is read (trusted):
\* a single thread that starts too early does write zeros over the file.
OlderScanNeedsTwoThreads ==
  [][\A t \in Threads :
       /\ pc[t] = "write" /\ pc'[t] = "check" /\ file' = buffer[t]
       /\ trusted /\ (\E r \in Regs : Older(file'[r], saved[r]))
       => \E u \in Threads \ {t} : pc[u] # "none"]_vars

\* Once nothing changes any more, the file gets the values of the registers, as
\* long as a storage thread keeps polling and no write has failed, although
\* two threads may overwrite each other's file.
FileCatchesUp ==
  (<>[](/\ run_pstorage /\ count.faults = 0
        /\ \E t \in Threads : pc[t] \notin {"none", "ended"}))
    => <>[](file = memory)

=============================================================================
