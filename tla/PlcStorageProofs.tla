-------------------------- MODULE PlcStorageProofs --------------------------
(***************************************************************************)
(* Proofs about PlcStorage, for every set of registers and of storage      *)
(* threads, and every bound: the file never mixes two scans, and a start   *)
(* restores what was written last.                                         *)
(***************************************************************************)
EXTENDS PlcStorage, TLAPS

-----------------------------------------------------------------------------
(* Types                                                                   *)

\* The globals of a fresh process have their types, and so has a missing file.
LEMMA InitTypeOK == Init => TypeOK
<1>1. 0 \in Value
  BY BoundsAssumption DEF Value
<1>2. All(0) \in Image /\ All(Junk) \in Image
  BY <1>1 DEF All, Image
<1>3. ASSUME Init PROVE TypeOK
  <2>1. buffer \in [Threads -> Image] /\ count \in [scans : Value, commands : Nat, lives : Nat, faults : Nat]
    BY <1>1, <1>2, <1>3 DEF Init
  <2>2. pc \in [Threads -> ThreadPcs] /\ outdated \in [Threads -> BOOLEAN]
    BY <1>3 DEF Init, ThreadPcs
  <2>3. QED
    BY <1>2, <1>3, <2>1, <2>2 DEF Init, TypeOK, MainPcs
<1>4. QED
  BY <1>3

\* The thread of main keeps the types: a restored register was read from a file of
\* full length, and a scan number stays within its bound.
LEMMA MainTypeOK == TypeOK /\ Main => TypeOK'
<1> SUFFICES ASSUME TypeOK, Main PROVE TypeOK'
  OBVIOUS
<1> USE DEF TypeOK
<1>1. CASE InputDone
  BY <1>1 DEF InputDone, MainPcs, threadVars, history
<1>2. CASE MapUnusedIO
  BY <1>2 DEF MapUnusedIO, MainPcs, threadVars, history
<1>3. CASE ReadFile
  BY <1>3 DEF ReadFile, MainPcs, threadVars, history
<1>4. CASE Restore
  <2>1. All(Junk) \in Image
    BY DEF All, Image
  <2>2. QED
    BY <1>4, <2>1 DEF Restore, MainPcs, threadVars, history
<1>5. CASE InputLock
  BY <1>5 DEF InputLock, MainPcs, threadVars, history
<1>6. CASE ScanLock
  <2>1. count' \in [scans : Value, commands : Nat, lives : Nat, faults : Nat]
    BY <1>6, BoundsAssumption DEF ScanLock, Value
  <2>2. QED
    BY <1>6, <2>1 DEF ScanLock, MainPcs, threadVars, history
<1>7. ASSUME NEW r \in Regs, ScanWrite(r) PROVE TypeOK'
  <2>1. memory' \in Image
    BY <1>7 DEF ScanWrite, Image
  <2>2. QED
    BY <1>7, <2>1 DEF ScanWrite, MainPcs, threadVars, history
<1>8. CASE ScanUnlock
  BY <1>8 DEF ScanUnlock, MainPcs, threadVars, history
<1>9. QED
  BY <1>1, <1>2, <1>3, <1>4, <1>5, <1>6, <1>7, <1>8 DEF Main

\* A storage thread keeps the types.
LEMMA StorageTypeOK ==
    ASSUME TypeOK, NEW t \in Threads, Storage(t) \/ Fail(t)
    PROVE  TypeOK'
<1> USE DEF TypeOK, ThreadPcs
<1>1. CASE SnapLock(t)
  BY <1>1 DEF SnapLock, mainVars
<1>2. ASSUME NEW r \in Regs, SnapCopy(t, r) PROVE TypeOK'
  <2>1. buffer' \in [Threads -> Image]
    <3>1. [buffer[t] EXCEPT ![r] = memory[r]] \in Image
      BY DEF Image
    <3>2. buffer' = buffer \/ buffer' = [buffer EXCEPT ![t] = [buffer[t] EXCEPT ![r] = memory[r]]]
      BY <1>2 DEF SnapCopy
    <3>3. QED
      BY <3>1, <3>2
  <2>2. QED
    BY <1>2, <2>1 DEF SnapCopy, mainVars, history
<1>3. CASE SnapUnlock(t)
  BY <1>3 DEF SnapUnlock, mainVars, history
<1>4. CASE Open(t)
  BY <1>4 DEF Open, mainVars, history
<1>5. CASE Write(t)
  BY <1>5 DEF Write, mainVars
<1>6. CASE Check(t)
  BY <1>6 DEF Check, mainVars, history
<1>7. CASE Fail(t)
  BY <1>7 DEF Fail, mainVars, history
<1>8. QED
  BY <1>1, <1>2, <1>3, <1>4, <1>5, <1>6, <1>7 DEF Storage

LEMMA NextTypeOK == TypeOK /\ [Next]_vars => TypeOK'
<1> SUFFICES ASSUME TypeOK, [Next]_vars PROVE TypeOK'
  OBVIOUS
<1>1. CASE Main
  BY <1>1, MainTypeOK
<1>2. ASSUME NEW t \in Threads, Storage(t) \/ Fail(t) PROVE TypeOK'
  BY <1>2, StorageTypeOK
<1>3. CASE StartPstorage
  BY <1>3 DEF StartPstorage, TypeOK, ThreadPcs, mainVars, history
<1>4. CASE StopPstorage
  <2>1. count' \in [scans : Value, commands : Nat, lives : Nat, faults : Nat]
    BY <1>4 DEF StopPstorage, TypeOK
  <2>2. QED
    BY <1>4, <2>1 DEF StopPstorage, TypeOK, mainVars, threadVars, history
<1>5. CASE Restart
  <2>1. All(0) \in Image /\ All(Junk) \in Image
    BY BoundsAssumption DEF All, Image, Value
  <2>2. /\ buffer' \in [Threads -> Image] /\ outdated' \in [Threads -> BOOLEAN]
        /\ pc' \in [Threads -> ThreadPcs]
    BY <1>5, <2>1 DEF Restart, Fresh, ThreadPcs
  <2>3. count' \in [scans : Value, commands : Nat, lives : Nat, faults : Nat]
    BY <1>5 DEF Restart, TypeOK
  <2>4. QED
    BY <1>5, <2>1, <2>2, <2>3 DEF Restart, Fresh, TypeOK, MainPcs
<1>6. CASE UNCHANGED vars
  BY <1>6 DEF TypeOK, vars, mainVars, threadVars, history
<1>7. QED
  BY <1>1, <1>2, <1>3, <1>4, <1>5, <1>6 DEF Next, Done

\* Every variable of startPstorage, readPersistentStorage and main keeps its type.
THEOREM TypeCorrect == Spec => []TypeOK
<1>1. QED
  BY InitTypeOK, NextTypeOK, PTL DEF Spec

-----------------------------------------------------------------------------
(* The file never mixes two scans                                          *)

Uniform(f) == \E v \in Value \union {Junk} : f = All(v)

\* bufferLock says who is inside a critical section.
LockIsHeld ==
  /\ lock = "main" <=> mainPc \in {"boot", "input", "scan"}
  /\ \A t \in Threads : lock = t <=> pc[t] = "copy"

\* The registers are those of one scan, except while a scan writes them: then the
\* ones still to do are those of the scan before.
Mixed(v) == [r \in Regs |-> IF r \in todo THEN v ELSE count.scans]
MemoryIsOneScan ==
  IF mainPc = "scan" THEN \E v \in Value \union {Junk} : memory = Mixed(v)
                     ELSE Uniform(memory)

\* A persistentBuffer is one scan, except while the registers are copied to it: then
\* the ones still to do are those of its last copy.
Copied(v) == [r \in Regs |-> IF r \in todo \/ ~mapped THEN v ELSE memory[r]]
BufferIsOneScan(t) ==
  IF pc[t] = "copy" THEN \E v \in Value \union {Junk} : buffer[t] = Copied(v)
                    ELSE Uniform(buffer[t])

IInv ==
  /\ TypeOK
  /\ LockIsHeld
  /\ MemoryIsOneScan
  /\ Uniform(mainBuffer)
  /\ \A t \in Threads : BufferIsOneScan(t)
  /\ FileIsOneScan

\* Nothing is inside a critical section that the owner of bufferLock is not in.
LEMMA Excluded ==
    ASSUME LockIsHeld, NEW t \in Threads
    PROVE  /\ lock = NoThread => mainPc # "scan" /\ pc[t] # "copy"
           /\ lock = "main" => pc[t] # "copy"
           /\ pc[t] = "copy" => mainPc # "scan" /\ \A u \in Threads \ {t} : pc[u] # "copy"
  BY ThreadsAssumption DEF LockIsHeld

LEMMA UniformAll ==
    ASSUME NEW v \in Value \union {Junk}
    PROVE  Uniform(All(v))
  BY DEF Uniform

LEMMA InitIInv == Init => IInv
<1> SUFFICES ASSUME Init PROVE IInv
  OBVIOUS
<1>1. 0 \in Value
  BY BoundsAssumption DEF Value
<1>2. TypeOK
  BY InitTypeOK
<1>3. LockIsHeld
  BY ThreadsAssumption DEF Init, LockIsHeld
<1>4. Uniform(memory) /\ Uniform(mainBuffer) /\ \A t \in Threads : Uniform(buffer[t])
  BY <1>1, UniformAll DEF Init
<1>5. MemoryIsOneScan /\ \A t \in Threads : BufferIsOneScan(t)
  BY <1>4 DEF Init, MemoryIsOneScan, BufferIsOneScan
<1>6. FileIsOneScan
  BY FileAssumption DEF Init, FileIsOneScan
<1>7. QED
  BY <1>2, <1>3, <1>4, <1>5, <1>6 DEF IInv

\* Who takes the lock finds it free, and who gives it back is its owner.
LEMMA NextLockIsHeld ==
    ASSUME TypeOK, LockIsHeld, [Next]_vars
    PROVE  LockIsHeld'
<1> USE ThreadsAssumption DEF TypeOK, LockIsHeld, threadVars, mainVars
<1>1. CASE Main
  BY <1>1 DEF Main, InputDone, MapUnusedIO, ReadFile, Restore, InputLock, ScanLock,
              ScanWrite, ScanUnlock
<1>2. ASSUME NEW t \in Threads, Storage(t) \/ Fail(t) PROVE LockIsHeld'
  <2>1. CASE SnapLock(t)
    BY <2>1 DEF SnapLock
  <2>2. ASSUME NEW r \in Regs, SnapCopy(t, r) PROVE LockIsHeld'
    BY <2>2 DEF SnapCopy
  <2>3. CASE SnapUnlock(t)
    BY <2>3 DEF SnapUnlock
  <2>4. CASE Open(t) \/ Write(t) \/ Check(t) \/ Fail(t)
    BY <2>4 DEF Open, Write, Check, Fail
  <2>5. QED
    BY <1>2, <2>1, <2>2, <2>3, <2>4 DEF Storage
<1>3. CASE StartPstorage \/ StopPstorage
  BY <1>3 DEF StartPstorage, StopPstorage
<1>4. CASE Restart
  BY <1>4 DEF Restart, Fresh
<1>5. CASE UNCHANGED vars
  BY <1>5 DEF vars
<1>6. QED
  BY <1>1, <1>2, <1>3, <1>4, <1>5 DEF Next, Done

\* A scan replaces all registers before it unlocks them, and a restored file is one scan.
LEMMA MainKeepsScans ==
    ASSUME IInv, Main
    PROVE  /\ MemoryIsOneScan' /\ Uniform(mainBuffer)' /\ FileIsOneScan'
           /\ \A t \in Threads : BufferIsOneScan(t)'
<1> USE DEF IInv, mainVars, threadVars
<1> DEFINE Kept == /\ MemoryIsOneScan' /\ Uniform(mainBuffer)' /\ FileIsOneScan'
                   /\ \A t \in Threads : BufferIsOneScan(t)'
<1>1. CASE InputDone \/ InputLock
  <2>1. mainPc # "scan" /\ mainPc' # "scan"
    BY <1>1 DEF InputDone, InputLock
  <2>2. UNCHANGED <<memory, mapped, mainBuffer, todo, pc, buffer, file, count>>
    BY <1>1 DEF InputDone, InputLock
  <2>3. QED
    BY <2>1, <2>2 DEF MemoryIsOneScan, BufferIsOneScan, Copied, Uniform, FileIsOneScan
<1>2. CASE MapUnusedIO
  <2>1. mainPc # "scan" /\ mainPc' # "scan" /\ \A t \in Threads : pc[t] # "copy"
    BY <1>2, Excluded DEF MapUnusedIO
  <2>2. UNCHANGED <<memory, mainBuffer, todo, pc, buffer, file, count>>
    BY <1>2 DEF MapUnusedIO
  <2>3. QED
    BY <2>1, <2>2 DEF MemoryIsOneScan, BufferIsOneScan, Uniform, FileIsOneScan
<1>3. CASE ReadFile
  <2>1. mainPc # "scan" /\ mainPc' # "scan"
    BY <1>3 DEF ReadFile
  <2>2. UNCHANGED <<memory, mapped, todo, pc, buffer, file, count>>
    BY <1>3 DEF ReadFile
  <2>3. Uniform(mainBuffer)'
    BY <1>3 DEF ReadFile, Uniform, FileIsOneScan
  <2>4. QED
    BY <2>1, <2>2, <2>3 DEF MemoryIsOneScan, BufferIsOneScan, Copied, Uniform, FileIsOneScan
<1>4. CASE Restore
  <2>1. mainPc # "scan" /\ mainPc' # "scan" /\ \A t \in Threads : pc[t] # "copy"
    BY <1>4, Excluded DEF Restore
  <2>2. UNCHANGED <<mapped, todo, pc, buffer, file, count>>
    BY <1>4 DEF Restore
  <2>3. Uniform(memory)' /\ Uniform(mainBuffer)'
    BY <1>4, <2>1 DEF Restore, Uniform, MemoryIsOneScan
  <2>4. QED
    BY <2>1, <2>2, <2>3 DEF MemoryIsOneScan, BufferIsOneScan, Uniform, FileIsOneScan
<1>5. CASE ScanLock
  <2>1. mainPc' = "scan" /\ mainPc # "scan" /\ \A t \in Threads : pc[t] # "copy"
    BY <1>5, Excluded DEF ScanLock
  <2>2. UNCHANGED <<memory, mapped, mainBuffer, pc, buffer, file>>
    BY <1>5 DEF ScanLock
  <2>3. PICK v \in Value \union {Junk} : memory = All(v)
    BY <2>1 DEF MemoryIsOneScan, Uniform
  <2>4. memory' = Mixed(v)'
    BY <1>5, <2>3 DEF ScanLock, Mixed, All
  <2>5. QED
    BY <2>1, <2>2, <2>4 DEF MemoryIsOneScan, BufferIsOneScan, Uniform, FileIsOneScan
<1>6. ASSUME NEW r \in Regs, ScanWrite(r) PROVE Kept
  <2>1. mainPc' = "scan" /\ mainPc = "scan" /\ \A t \in Threads : pc[t] # "copy"
    BY <1>6, Excluded DEF ScanWrite
  <2>2. UNCHANGED <<mapped, mainBuffer, pc, buffer, file, count>>
    BY <1>6 DEF ScanWrite
  <2>3. PICK v \in Value \union {Junk} : memory = Mixed(v)
    BY <2>1 DEF MemoryIsOneScan
  <2>4. memory' = Mixed(v)'
    BY <1>6, <2>3 DEF ScanWrite, Mixed
  <2>5. QED
    BY <2>1, <2>2, <2>4 DEF MemoryIsOneScan, BufferIsOneScan, Uniform, FileIsOneScan
<1>7. CASE ScanUnlock
  <2>1. mainPc' # "scan" /\ mainPc = "scan" /\ \A t \in Threads : pc[t] # "copy"
    BY <1>7, Excluded DEF ScanUnlock, LockIsHeld
  <2>2. UNCHANGED <<memory, mapped, mainBuffer, pc, buffer, file, count>>
    BY <1>7 DEF ScanUnlock
  <2>3. memory = All(count.scans) /\ count.scans \in Value
    BY <1>7, <2>1 DEF ScanUnlock, MemoryIsOneScan, Mixed, All, TypeOK
  <2>4. Uniform(memory)
    BY <2>3, UniformAll
  <2>5. QED
    BY <2>1, <2>2, <2>4 DEF MemoryIsOneScan, BufferIsOneScan, Uniform, FileIsOneScan
<1>8. QED
  BY <1>1, <1>2, <1>3, <1>4, <1>5, <1>6, <1>7 DEF Main

\* A storage thread copies all registers before it unlocks them, and the registers are
\* one scan meanwhile.
LEMMA StorageKeepsScans ==
    ASSUME IInv, NEW t \in Threads, Storage(t) \/ Fail(t)
    PROVE  /\ MemoryIsOneScan' /\ Uniform(mainBuffer)' /\ FileIsOneScan'
           /\ \A u \in Threads : BufferIsOneScan(u)'
<1> USE DEF IInv, mainVars, threadVars
<1> DEFINE Kept == /\ MemoryIsOneScan' /\ Uniform(mainBuffer)' /\ FileIsOneScan'
                   /\ \A u \in Threads : BufferIsOneScan(u)'
<1>1. CASE SnapLock(t)
  <2>1. mainPc' = mainPc /\ mainPc # "scan" /\ \A u \in Threads : pc[u] # "copy"
    BY <1>1, Excluded DEF SnapLock
  <2>2. UNCHANGED <<memory, mapped, mainBuffer, buffer, file>>
    BY <1>1 DEF SnapLock
  <2>3. \A u \in Threads : pc'[u] = IF u = t THEN "copy" ELSE pc[u]
    BY <1>1 DEF SnapLock, TypeOK
  <2>4. PICK v \in Value \union {Junk} : buffer[t] = All(v)
    BY <2>1 DEF BufferIsOneScan, Uniform
  <2>5. buffer'[t] = Copied(v)'
    BY <1>1, <2>2, <2>4 DEF SnapLock, Copied, All
  <2>6. \A u \in Threads : BufferIsOneScan(u)'
    BY <2>1, <2>2, <2>3, <2>5 DEF BufferIsOneScan, Uniform
  <2>7. QED
    BY <2>1, <2>2, <2>6 DEF MemoryIsOneScan, Uniform, FileIsOneScan
<1>2. ASSUME NEW r \in Regs, SnapCopy(t, r) PROVE Kept
  <2>1. /\ mainPc' = mainPc /\ mainPc # "scan" /\ pc' = pc /\ pc[t] = "copy"
        /\ \A u \in Threads \ {t} : pc[u] # "copy"
    BY <1>2, Excluded DEF SnapCopy
  <2>2. UNCHANGED <<memory, mapped, mainBuffer, file>>
    BY <1>2 DEF SnapCopy
  <2>3. \A u \in Threads \ {t} : buffer'[u] = buffer[u]
    BY <1>2 DEF SnapCopy, TypeOK
  <2>4. PICK v \in Value \union {Junk} : buffer[t] = Copied(v)
    BY <2>1 DEF BufferIsOneScan
  <2>5. buffer'[t] = Copied(v)'
    <3>1. buffer'[t] = IF mapped THEN [buffer[t] EXCEPT ![r] = memory[r]] ELSE buffer[t]
      BY <1>2 DEF SnapCopy, TypeOK, Image
    <3>2. QED
      BY <1>2, <2>2, <2>4, <3>1 DEF SnapCopy, Copied
  <2>6. \A u \in Threads : BufferIsOneScan(u)'
    BY <2>1, <2>3, <2>5 DEF BufferIsOneScan, Uniform
  <2>7. QED
    BY <2>1, <2>2, <2>6 DEF MemoryIsOneScan, Uniform, FileIsOneScan
<1>3. CASE SnapUnlock(t)
  <2>1. /\ mainPc' = mainPc /\ mainPc # "scan" /\ pc[t] = "copy" /\ todo = {}
        /\ \A u \in Threads \ {t} : pc[u] # "copy"
    BY <1>3, Excluded DEF SnapUnlock
  <2>2. UNCHANGED <<memory, mapped, mainBuffer, buffer, file>>
    BY <1>3 DEF SnapUnlock
  <2>3. \A u \in Threads : pc'[u] # "copy"
    BY <1>3, <2>1 DEF SnapUnlock, TypeOK
  <2>4. PICK v \in Value \union {Junk} : buffer[t] = Copied(v)
    BY <2>1 DEF BufferIsOneScan
  <2>5. Uniform(buffer[t])
    <3>1. CASE mapped
      BY <2>1, <2>4, <3>1 DEF Copied, MemoryIsOneScan, Uniform, All
    <3>2. CASE ~mapped
      BY <2>4, <3>2 DEF Copied, Uniform, All
    <3>3. QED
      BY <3>1, <3>2
  <2>6. \A u \in Threads : BufferIsOneScan(u)'
    BY <2>1, <2>2, <2>3, <2>5 DEF BufferIsOneScan, Uniform
  <2>7. QED
    BY <2>1, <2>2, <2>6 DEF MemoryIsOneScan, Uniform, FileIsOneScan
<1>4. CASE Open(t) \/ Write(t) \/ Check(t) \/ Fail(t)
  <2>1. /\ UNCHANGED <<memory, mapped, mainPc, mainBuffer, todo, buffer>>
        /\ count'.scans = count.scans
    BY <1>4 DEF Open, Write, Check, Fail, TypeOK
  <2>2. \A u \in Threads : pc[u] = "copy" <=> pc'[u] = "copy"
    BY <1>4 DEF Open, Write, Check, Fail, TypeOK
  <2>3. FileIsOneScan'
    <3>1. CASE Open(t)
      BY <3>1, FileAssumption DEF Open, FileIsOneScan
    <3>2. CASE Write(t)
      BY <3>2 DEF Write, FileIsOneScan, BufferIsOneScan, Uniform
    <3>3. CASE Check(t) \/ Fail(t)
      BY <3>3 DEF Check, Fail, FileIsOneScan
    <3>4. QED
      BY <1>4, <3>1, <3>2, <3>3
  <2>4. QED
    BY <2>1, <2>2, <2>3 DEF MemoryIsOneScan, Mixed, BufferIsOneScan, Copied, Uniform
<1>5. QED
  BY <1>1, <1>2, <1>3, <1>4 DEF Storage

LEMMA StepIInv == IInv /\ [Next]_vars => IInv'
<1> SUFFICES ASSUME IInv, [Next]_vars PROVE IInv'
  OBVIOUS
<1>1. TypeOK' /\ LockIsHeld'
  BY NextTypeOK, NextLockIsHeld DEF IInv
<1>2. CASE Main
  BY <1>1, <1>2, MainKeepsScans DEF IInv
<1>3. ASSUME NEW t \in Threads, Storage(t) \/ Fail(t) PROVE IInv'
  BY <1>1, <1>3, StorageKeepsScans DEF IInv
<1>4. CASE StartPstorage \/ StopPstorage
  <2>1. UNCHANGED <<memory, mapped, mainPc, mainBuffer, todo, buffer, file>> /\ count'.scans = count.scans
    BY <1>4 DEF StartPstorage, StopPstorage, mainVars, threadVars, IInv, TypeOK
  <2>2. \A u \in Threads : pc[u] = "copy" <=> pc'[u] = "copy"
    BY <1>4 DEF StartPstorage, StopPstorage, threadVars, IInv, TypeOK
  <2>3. MemoryIsOneScan' /\ Uniform(mainBuffer)' /\ FileIsOneScan'
    BY <2>1 DEF IInv, MemoryIsOneScan, Mixed, Uniform, FileIsOneScan
  <2>4. \A u \in Threads : BufferIsOneScan(u)'
    BY <2>1, <2>2 DEF IInv, BufferIsOneScan, Copied, Uniform
  <2>5. QED
    BY <1>1, <2>3, <2>4 DEF IInv
<1>5. CASE Restart
  <2>1. Uniform(memory)' /\ Uniform(mainBuffer)' /\ \A t \in Threads : Uniform(buffer[t])'
    <3>1. 0 \in Value
      BY BoundsAssumption DEF Value
    <3>2. QED
      BY <1>5, <3>1 DEF Restart, Fresh, Uniform
  <2>2. mainPc' = "boot" /\ file' = file /\ \A t \in Threads : pc'[t] = "none"
    BY <1>5 DEF Restart, Fresh
  <2>3. QED
    BY <1>1, <2>1, <2>2 DEF IInv, MemoryIsOneScan, BufferIsOneScan, FileIsOneScan, Uniform
<1>6. CASE UNCHANGED vars
  BY <1>1, <1>6 DEF IInv, vars, mainVars, threadVars, history, MemoryIsOneScan, Mixed,
                    BufferIsOneScan, Copied, Uniform, FileIsOneScan
<1>7. QED
  BY <1>2, <1>3, <1>4, <1>5, <1>6 DEF Next, Done

\* persistent.file never mixes the registers of two scans, however the storage threads,
\* the scan cycle, commands, failing writes and restarts interleave.
THEOREM FileHoldsOneScan == Spec => []FileIsOneScan
<1>1. IInv => FileIsOneScan
  BY DEF IInv
<1>2. QED
  BY InitIInv, StepIInv, <1>1, PTL DEF Spec

-----------------------------------------------------------------------------
(* A start restores what was written last                                  *)

\* What the file holds was written last, nothing but readPersistentStorage touches the
\* registers before the scan cycle, and no trusted thread opens the file by then.
Trust ==
  /\ file \in Image => file = saved
  /\ file = Absent => saved = All(0)
  /\ ~Booted => memory = All(0)
  /\ mainPc \in {"read", "restore"} => mapped
  /\ trusted /\ ~Booted => file # Empty /\ \A t \in Threads : pc[t] \in {"none", "first"}
  /\ trusted /\ mainPc = "restore" => mainBuffer = file /\ file \in Image

LEMMA InitTrust == Init => Trust
  BY FileAssumption DEF Init, Trust, Booted

LEMMA NextTrust ==
    ASSUME TypeOK, Trust, [Next]_vars
    PROVE  Trust'
<1> USE DEF Trust, Booted, mainVars, threadVars, history
<1>1. CASE Main
  <2>1. UNCHANGED <<pc, file, saved, trusted>>
    BY <1>1 DEF Main, InputDone, MapUnusedIO, ReadFile, Restore, InputLock, ScanLock,
                ScanWrite, ScanUnlock
  <2>2. CASE InputDone \/ MapUnusedIO
    BY <2>1, <2>2 DEF InputDone, MapUnusedIO
  <2>3. CASE ReadFile
    BY <2>1, <2>3 DEF ReadFile
  <2>4. CASE Restore \/ InputLock \/ ScanLock \/ ScanUnlock
    BY <2>1, <2>4 DEF Restore, InputLock, ScanLock, ScanUnlock
  <2>5. CASE \E r \in Regs : ScanWrite(r)
    BY <2>1, <2>5 DEF ScanWrite
  <2>6. QED
    BY <1>1, <2>2, <2>3, <2>4, <2>5 DEF Main
<1>2. ASSUME NEW t \in Threads, Storage(t) \/ Fail(t) PROVE Trust'
  <2>1. UNCHANGED <<memory, mapped, mainPc, mainBuffer>>
    BY <1>2 DEF Storage, SnapLock, SnapCopy, SnapUnlock, Open, Write, Check, Fail
  <2>2. CASE SnapLock(t)
    <3>1. file' = file /\ saved' = saved
      BY <2>2 DEF SnapLock
    <3>2. trusted' => trusted /\ Booted
      BY <2>2 DEF SnapLock
    <3>3. QED
      BY <2>1, <3>1, <3>2
  <2>3. CASE \E r \in Regs : SnapCopy(t, r)
    BY <2>1, <2>3 DEF SnapCopy
  <2>4. CASE SnapUnlock(t) \/ Check(t) \/ Fail(t)
    <3>1. pc[t] \notin {"none", "first"} /\ UNCHANGED <<file, saved, trusted>>
      BY <2>4 DEF SnapUnlock, Check, Fail
    <3>2. QED
      BY <2>1, <3>1
  <2>5. CASE Open(t)
    BY <2>1, <2>5, FileAssumption DEF Open
  <2>6. CASE Write(t)
    <3>1. file' = saved' /\ file' \in Image /\ trusted' = trusted /\ pc[t] = "write"
      BY <2>6 DEF Write, TypeOK
    <3>2. QED
      BY <2>1, <3>1, FileAssumption
  <2>7. QED
    BY <1>2, <2>2, <2>3, <2>4, <2>5, <2>6 DEF Storage
<1>3. CASE StartPstorage
  <2>1. PICK t \in Threads : pc[t] = "none" /\ pc' = [pc EXCEPT ![t] = "first"]
    BY <1>3 DEF StartPstorage
  <2>2. QED
    BY <1>3, <2>1 DEF StartPstorage, TypeOK
<1>4. CASE StopPstorage
  BY <1>4 DEF StopPstorage
<1>5. CASE Restart
  BY <1>5 DEF Restart, Fresh
<1>6. CASE UNCHANGED vars
  BY <1>6 DEF vars
<1>7. QED
  BY <1>1, <1>2, <1>3, <1>4, <1>5, <1>6 DEF Next, Done

\* Only readPersistentStorage leads main into the scan cycle, with the last values.
LEMMA RestoreIsFaithful ==
    ASSUME Trust, TypeOK, [Next]_vars,
           mainPc \in {"read", "restore"}, mainPc' = "inputLock", trusted
    PROVE  memory' = saved
<1>1. ReadFile \/ Restore
  <2>1. mainPc' # mainPc
    OBVIOUS
  <2>2. ~UNCHANGED vars /\ ~StartPstorage /\ ~StopPstorage /\ ~Restart
    BY <2>1 DEF vars, mainVars, StartPstorage, StopPstorage, Restart, Fresh
  <2>3. \A t \in Threads : ~(Storage(t) \/ Fail(t))
    BY <2>1 DEF mainVars, Storage, SnapLock, SnapCopy, SnapUnlock, Open, Write, Check, Fail
  <2>4. Main
    BY <2>2, <2>3 DEF Next, Done
  <2>5. QED
    BY <2>4 DEF Main, InputDone, MapUnusedIO, InputLock, ScanLock, ScanWrite, ScanUnlock
<1>2. CASE ReadFile
  <2>1. file \notin Image /\ memory' = memory
    BY <1>2 DEF ReadFile
  <2>2. file = Absent /\ memory = All(0)
    BY <2>1 DEF Trust, Booted, TypeOK
  <2>3. QED
    BY <2>1, <2>2 DEF Trust
<1>3. CASE Restore
  BY <1>3 DEF Restore, Trust
<1>4. QED
  BY <1>1, <1>2, <1>3

\* readPersistentStorage gives int_memory the values written last, in every life of the
\* process that starts with a whole file and in which no thread copies before it is
\* through (trusted).  What such a thread writes, zeros, is not excluded.
THEOREM StartRestoresFile == Spec => RestoresWhatWasSaved
<1>1. Init => TypeOK /\ Trust
  BY InitTypeOK, InitTrust
<1>2. TypeOK /\ Trust /\ [Next]_vars => TypeOK' /\ Trust'
  BY NextTypeOK, NextTrust
<1>3. TypeOK /\ Trust /\ [Next]_vars
        => [(mainPc \in {"read", "restore"} /\ mainPc' = "inputLock" /\ trusted)
              => memory' = saved]_vars
  BY RestoreIsFaithful
<1>4. QED
  BY <1>1, <1>2, <1>3, PTL DEF Spec, RestoresWhatWasSaved

-----------------------------------------------------------------------------
(* One storage thread never takes the file back to an older scan           *)

\* No register, wherever it is kept, is newer than the last scan.
Past(f) == \A r \in Regs : f[r] = Junk \/ f[r] <= count.scans
NotFuture ==
  /\ Past(memory) /\ Past(saved) /\ Past(mainBuffer)
  /\ \A t \in Threads : Past(buffer[t])
  /\ file \in Image => Past(file)

LEMMA InitNotFuture == Init => NotFuture
  BY BoundsAssumption, FileAssumption DEF Init, NotFuture, Past, All

LEMMA NextNotFuture ==
    ASSUME TypeOK, NotFuture, [Next]_vars
    PROVE  NotFuture'
<1> USE DEF mainVars, threadVars, history
<1>1. count'.scans \in Nat /\ count.scans \in Nat /\ count'.scans >= count.scans
  <2>1. count.scans \in Nat
    BY DEF TypeOK, Value
  <2>2. CASE ScanLock
    BY <2>1, <2>2 DEF ScanLock, TypeOK
  <2>3. CASE ~ScanLock
    <3>1. count'.scans = count.scans
      BY <2>3 DEF Next, Main, InputDone, MapUnusedIO, ReadFile, Restore, InputLock, ScanWrite,
                  ScanUnlock, Storage, SnapLock, SnapCopy, SnapUnlock, Open, Write, Check, Fail,
                  StartPstorage, StopPstorage, Restart, Done, vars, TypeOK
    <3>2. QED
      BY <2>1, <3>1
  <2>4. QED
    BY <2>2, <2>3
<1>2. ASSUME NEW f \in Image, Past(f) PROVE \A r \in Regs : f[r] = Junk \/ f[r] <= count'.scans
  <2>1. \A r \in Regs : f[r] = Junk \/ f[r] \in Nat
    BY DEF Image, Value
  <2>2. QED
    BY <1>1, <1>2, <2>1 DEF Past
<1>3. TypeOK'
  BY NextTypeOK
<1>4. Past(memory)'
  <2>1. CASE \E r \in Regs : ScanWrite(r)
    <3>1. PICK r \in Regs : ScanWrite(r)
      BY <2>1
    <3>2. memory' = [memory EXCEPT ![r] = count.scans] /\ count' = count
      BY <3>1 DEF ScanWrite
    <3>3. QED
      BY <1>1, <3>2 DEF NotFuture, Past, TypeOK, Image
  <2>2. CASE Restore \/ Restart
    <3>1. memory' = mainBuffer \/ memory' = memory \/ memory' = All(0)
      BY <2>2 DEF Restore, Restart, Fresh
    <3>2. \A r \in Regs : All(0)[r] <= count'.scans
      BY <1>1 DEF All
    <3>3. QED
      BY <1>2, <3>1, <3>2 DEF NotFuture, TypeOK, Past
  <2>3. CASE memory' = memory
    BY <1>2, <2>3 DEF NotFuture, TypeOK, Past
  <2>4. QED
    BY <2>1, <2>2, <2>3 DEF Next, Main, InputDone, MapUnusedIO, ReadFile, InputLock, ScanLock,
        ScanUnlock, Storage, SnapLock, SnapCopy, SnapUnlock, Open, Write, Check, Fail,
        StartPstorage, StopPstorage, Done, vars
<1>5. Past(mainBuffer)' /\ \A t \in Threads : Past(buffer[t])'
  <2>1. CASE Restart
    BY <2>1 DEF Restart, Fresh, Past, All
  <2>2. CASE ReadFile
    <3>1. (mainBuffer' = mainBuffer \/ (file \in Image /\ mainBuffer' = file)) /\ buffer' = buffer
      BY <2>2 DEF ReadFile
    <3>2. QED
      BY <1>2, <3>1 DEF NotFuture, TypeOK, Past
  <2>3. CASE \E t \in Threads, r \in Regs : SnapCopy(t, r)
    <3>1. PICK u \in Threads, r \in Regs : SnapCopy(u, r)
      BY <2>3
    <3>2. /\ mainBuffer' = mainBuffer /\ count' = count
          /\ \A t \in Threads, q \in Regs : buffer'[t][q] = buffer[t][q] \/ buffer'[t][q] = memory[q]
      BY <3>1 DEF SnapCopy, TypeOK, Image
    <3>3. QED
      BY <3>2 DEF NotFuture, Past
  <2>4. CASE UNCHANGED <<mainBuffer, buffer>>
    BY <1>2, <2>4 DEF NotFuture, TypeOK, Past
  <2>5. CASE Restore
    <3>1. mainBuffer' = All(Junk) /\ buffer' = buffer
      BY <2>5 DEF Restore, threadVars
    <3>2. Past(mainBuffer)'
      BY <3>1 DEF Past, All
    <3>3. QED
      BY <1>2, <3>1, <3>2 DEF NotFuture, TypeOK, Past
  <2>6. QED
    BY <2>1, <2>2, <2>3, <2>4, <2>5 DEF Next, Main, InputDone, MapUnusedIO, InputLock,
        ScanLock, ScanWrite, ScanUnlock, Storage, SnapLock, SnapUnlock, Open, Write, Check, Fail,
        StartPstorage, StopPstorage, Done, vars
<1>6. Past(saved)' /\ (file \in Image => Past(file))'
  <2>1. CASE \E t \in Threads : Write(t)
    <3>1. PICK t \in Threads : saved' = buffer[t] /\ file' = buffer[t]
      BY <2>1 DEF Write
    <3>2. QED
      BY <1>2, <3>1 DEF NotFuture, TypeOK, Past
  <2>2. CASE saved' = saved /\ (file' = file \/ file' = Empty)
    BY <1>2, <2>2, FileAssumption DEF NotFuture, TypeOK, Past
  <2>3. QED
    BY <2>1, <2>2 DEF Next, Main, InputDone, MapUnusedIO, ReadFile, Restore, InputLock, ScanLock,
        ScanWrite, ScanUnlock, Storage, SnapLock, SnapCopy, SnapUnlock, Open, Check, Fail,
        StartPstorage, StopPstorage, Restart, Done, vars
<1>7. QED
  BY <1>4, <1>5, <1>6 DEF NotFuture

\* While the file is trusted, the registers are not older than what is saved, nor than any
\* copy; and the copy of a thread that is alone is not older than what is saved either.
Alone(t) == \A u \in Threads \ {t} : pc[u] = "none"
Forward ==
  /\ Booted => mapped
  /\ trusted /\ ~Booted => \A t \in Threads : buffer[t] = All(Junk)
  /\ trusted /\ Booted => \A r \in Regs : ~Older(memory[r], saved[r])
  /\ trusted => \A t \in Threads, r \in Regs : ~Older(memory[r], buffer[t][r])
  /\ trusted => \A t \in Threads : (Alone(t) /\ pc[t] \in {"copy", "open", "write"})
       => \A r \in Regs : (pc[t] = "copy" /\ r \in todo) \/ ~Older(buffer[t][r], saved[r])

LEMMA InitForward == Init => Forward
  BY DEF Init, Forward, Booted, Older, All

LEMMA MainKeepsForward ==
    ASSUME TypeOK, LockIsHeld, Trust, NotFuture, Forward, Main
    PROVE  Forward'
<1> USE DEF mainVars, threadVars, history
<1>1. UNCHANGED <<pc, buffer, saved, trusted>>
  BY DEF Main, InputDone, MapUnusedIO, ReadFile, Restore, InputLock, ScanLock, ScanWrite, ScanUnlock
<1>2. CASE InputDone \/ MapUnusedIO \/ InputLock
  <2>1. memory' = memory /\ todo' = todo /\ (Booted' <=> Booted) /\ (mapped => mapped')
    BY <1>2 DEF InputDone, MapUnusedIO, InputLock, Booted
  <2>2. QED
    BY <1>1, <2>1 DEF Forward, Alone
<1>3. CASE ReadFile \/ Restore
  <2>1. todo' = todo /\ mapped' = mapped /\ mapped /\ ~Booted
    BY <1>3 DEF ReadFile, Restore, Trust, Booted
  <2>2. Booted' /\ trusted => memory' = saved
    BY <1>3 DEF ReadFile, Restore, Trust, Booted, TypeOK
  <2>3. ~Booted' => memory' = memory
    BY <1>3 DEF ReadFile, Restore, Booted
  <2>4. \A r \in Regs : ~Older(saved[r], saved[r])
    BY DEF Older, TypeOK, Image, Value
  <2>5. trusted => \A t \in Threads : buffer[t] = All(Junk)
    BY <2>1 DEF Forward
  <2>6. \A r \in Regs : \A x : ~Older(x, All(Junk)[r]) /\ ~Older(All(Junk)[r], x)
    BY DEF Older, All
  <2>7. QED
    BY <1>1, <2>1, <2>2, <2>3, <2>4, <2>5, <2>6 DEF Forward
<1>4. CASE ScanLock
  <2>1. memory' = memory /\ mapped' = mapped /\ Booted' /\ Booted /\ todo' = Regs
    BY <1>4 DEF ScanLock, Booted
  <2>2. QED
    BY <1>1, <2>1 DEF Forward, Alone
<1>5. CASE ScanUnlock
  <2>1. memory' = memory /\ mapped' = mapped /\ Booted' /\ Booted /\ todo' = todo
    BY <1>5 DEF ScanUnlock, Booted
  <2>2. QED
    BY <1>1, <2>1 DEF Forward, Alone
<1>6. ASSUME NEW r \in Regs, ScanWrite(r) PROVE Forward'
  <2>1. /\ memory' = [memory EXCEPT ![r] = count.scans] /\ mapped' = mapped /\ Booted' /\ Booted
        /\ mainPc = "scan"
    BY <1>6 DEF ScanWrite, Booted
  <2>2. \A t \in Threads : pc[t] # "copy"
    BY <2>1, Excluded
  <2>3. \A q \in Regs : memory'[q] = memory[q] \/ (q = r /\ memory'[q] = count.scans)
    BY <2>1 DEF TypeOK, Image
  <2>4. /\ ~Older(count.scans, saved[r])
        /\ \A t \in Threads : ~Older(count.scans, buffer[t][r])
    <3>1. \A f \in Image : Past(f) => ~Older(count.scans, f[r])
      BY DEF Past, Older, Image, Value, TypeOK
    <3>2. QED
      BY <3>1 DEF NotFuture, TypeOK
  <2>5. QED
    BY <1>1, <2>1, <2>2, <2>3, <2>4 DEF Forward, Alone
<1>7. QED
  BY <1>2, <1>3, <1>4, <1>5, <1>6 DEF Main

\* A thread copies registers that are not older than what is saved, and saves its copy.
LEMMA StorageKeepsForward ==
    ASSUME TypeOK, LockIsHeld, Trust, Forward, NEW t \in Threads, Storage(t) \/ Fail(t)
    PROVE  Forward'
<1> USE DEF mainVars, threadVars, history
<1>1. UNCHANGED <<memory, mapped, mainPc>> /\ (Booted' <=> Booted)
  BY DEF Storage, SnapLock, SnapCopy, SnapUnlock, Open, Write, Check, Fail, Booted
<1>2. CASE SnapLock(t)
  <2>1. /\ UNCHANGED <<buffer, saved>> /\ todo' = Regs /\ pc' = [pc EXCEPT ![t] = "copy"]
        /\ (trusted' => trusted) /\ \A u \in Threads : pc[u] # "copy"
    <3>1. \A u \in Threads : pc[u] # "copy"
      BY <1>2, Excluded DEF SnapLock
    <3>2. QED
      BY <1>2, <3>1 DEF SnapLock
  <2>2. \A u \in Threads \ {t} : ~Alone(u)'
    BY <2>1 DEF Alone, TypeOK
  <2>3. QED
    BY <1>1, <2>1, <2>2 DEF Forward, TypeOK
<1>3. ASSUME NEW r \in Regs, SnapCopy(t, r) PROVE Forward'
  <2>1. UNCHANGED <<pc, saved, trusted>> /\ pc[t] = "copy" /\ todo' = todo \ {r}
    BY <1>3 DEF SnapCopy
  <2>2. \A u \in Threads \ {t} : ~Alone(u)'
    BY <2>1 DEF Alone
  <2>3. trusted => Booted /\ mapped
    BY <2>1 DEF Trust, Forward
  <2>4. trusted => /\ buffer'[t][r] = memory[r]
                   /\ \A q \in Regs \ {r} : buffer'[t][q] = buffer[t][q]
                   /\ \A u \in Threads \ {t} : buffer'[u] = buffer[u]
    BY <1>3, <2>3 DEF SnapCopy, TypeOK, Image
  <2>5. ~Older(memory[r], memory[r])
    BY DEF Older, TypeOK, Image, Value
  <2>6. Alone(t)' <=> Alone(t)
    BY <2>1 DEF Alone
  <2>7. QED
    BY <1>1, <2>1, <2>2, <2>3, <2>4, <2>5, <2>6 DEF Forward
<1>4. CASE SnapUnlock(t)
  <2>1. /\ UNCHANGED <<buffer, saved, trusted>> /\ todo' = todo /\ todo = {} /\ pc[t] = "copy"
        /\ \A u \in Threads \ {t} : pc'[u] = pc[u]
    BY <1>4 DEF SnapUnlock, TypeOK
  <2>2. \A u \in Threads \ {t} : ~Alone(u)
    BY <2>1 DEF Alone
  <2>3. \A u \in Threads \ {t} : ~Alone(u)'
    <3>1. pc'[t] # "none"
      BY <1>4 DEF SnapUnlock, TypeOK
    <3>2. QED
      BY <3>1 DEF Alone
  <2>4. Alone(t)' => Alone(t)
    BY <2>1 DEF Alone
  <2>5. QED
    BY <1>1, <2>1, <2>3, <2>4 DEF Forward
<1>5. CASE Open(t) \/ Check(t) \/ Fail(t)
  <2>1. /\ UNCHANGED <<buffer, saved, trusted, todo>> /\ pc[t] # "none" /\ pc'[t] # "none"
        /\ (pc'[t] \in {"copy", "open", "write"} => pc[t] = "open")
        /\ \A u \in Threads \ {t} : pc'[u] = pc[u]
    BY <1>5 DEF Open, Check, Fail, TypeOK
  <2>2. \A u \in Threads \ {t} : ~Alone(u)'
    BY <2>1 DEF Alone
  <2>3. Alone(t)' => Alone(t)
    BY <2>1 DEF Alone
  <2>4. QED
    BY <1>1, <2>1, <2>2, <2>3 DEF Forward
<1>6. CASE Write(t)
  <2>1. /\ UNCHANGED <<buffer, trusted, todo>> /\ saved' = buffer[t] /\ pc[t] = "write"
        /\ pc'[t] = "check" /\ \A u \in Threads \ {t} : pc'[u] = pc[u]
    BY <1>6 DEF Write, TypeOK
  <2>2. \A u \in Threads \ {t} : ~Alone(u)'
    BY <2>1 DEF Alone
  <2>3. QED
    BY <1>1, <2>1, <2>2 DEF Forward
<1>7. QED
  BY <1>2, <1>3, <1>4, <1>5, <1>6 DEF Storage

LEMMA StepForward ==
    ASSUME TypeOK, LockIsHeld, Trust, NotFuture, Forward, [Next]_vars
    PROVE  Forward'
<1>1. CASE StartPstorage
  <2>1. PICK t \in Threads : pc[t] = "none" /\ pc' = [pc EXCEPT ![t] = "first"]
    BY <1>1 DEF StartPstorage
  <2>2. UNCHANGED <<memory, mapped, mainPc, todo, buffer, saved, trusted>>
    BY <1>1 DEF StartPstorage, mainVars, history
  <2>3. \A u \in Threads : pc'[u] \in {"copy", "open", "write"} => pc'[u] = pc[u]
    BY <2>1 DEF TypeOK
  <2>4. \A u \in Threads : Alone(u)' => Alone(u)
    BY <2>1 DEF Alone, TypeOK
  <2>5. QED
    BY <2>2, <2>3, <2>4 DEF Forward, Booted
<1>2. CASE StopPstorage \/ UNCHANGED vars
  <2>1. UNCHANGED <<memory, mapped, mainPc, todo, pc, buffer, saved, trusted>>
    BY <1>2 DEF StopPstorage, vars, mainVars, threadVars, history
  <2>2. QED
    BY <2>1 DEF Forward, Booted, Alone
<1>3. CASE Restart
  <2>1. /\ ~Booted' /\ memory' = All(0) /\ \A t \in Threads : buffer'[t] = All(Junk) /\ pc'[t] = "none"
    BY <1>3 DEF Restart, Fresh, Booted
  <2>2. \A r \in Regs : \A x : ~Older(x, All(Junk)[r])
    BY DEF Older, All
  <2>3. QED
    BY <2>1, <2>2 DEF Forward
<1>4. QED
  BY <1>1, <1>2, <1>3, MainKeepsForward, StorageKeepsForward DEF Next, Done

\* While one storage thread has been created in a life of the process that can restore
\* what was saved (trusted), the file goes only forward, from scan to newer scan.
THEOREM OneThreadGoesForward == Spec => OlderScanNeedsTwoThreads
<1> DEFINE Inv == TypeOK /\ LockIsHeld /\ Trust /\ NotFuture /\ Forward
<1>1. Init => Inv
  BY InitIInv, InitTrust, InitNotFuture, InitForward DEF IInv
<1>2. Inv /\ [Next]_vars => Inv'
  BY NextTypeOK, NextLockIsHeld, NextTrust, NextNotFuture, StepForward
<1>3. Inv => [\A t \in Threads :
                (/\ pc[t] = "write" /\ pc'[t] = "check" /\ file' = buffer[t]
                 /\ trusted /\ (\E r \in Regs : Older(file'[r], saved[r])))
                => \E u \in Threads \ {t} : pc[u] # "none"]_vars
  BY DEF Forward, Alone
<1>4. QED
  BY <1>1, <1>2, <1>3, PTL DEF Spec, OlderScanNeedsTwoThreads
=============================================================================
