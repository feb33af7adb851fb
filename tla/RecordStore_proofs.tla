------------------------- MODULE RecordStore_proofs -------------------------
(***************************************************************************)
(* For any number of threads, processes, directories, files and messages:  *)
(* the mechanism of RecordStore keeps its inductive invariant, never moves *)
(* a record back in time, never leaves a damaged file, and implements      *)
(* NewestWins.                                                             *)
(***************************************************************************)
EXTENDS RecordStore, TLAPS

\* When the record f is from a newer message than m: the provers read this
\* lemma instead of the definitions.
LEMMA NewerDef ==
    ASSUME NEW f, NEW m
    PROVE  is_from_newer(f, m) <=>
             /\ f \in Message
             /\ DateOf[f] # NoDate
             /\ DateOf[m] # NoDate
             /\ DateOf[f] > DateOf[m]
    BY DEF is_from_newer, supersedes, received_at_in

-----------------------------------------------------------------------------

LEMMA InitIInv == Init => IInv
BY StoreAssumption
DEF Init, OnFile, IInv, TypeOK, BusyHasMessage, Filed, LockHeld,
    ReadIsCurrent, MayReplace, Landed, NewestOnFile, Control, Holding

LEMMA BeginIInv ==
    ASSUME IInv, NEW w \in Worker, NEW m \in Message, Begin(w, m)
    PROVE  IInv'
<1>1. TypeOK'
    BY DEF IInv, TypeOK, Control, Begin
<1>2. BusyHasMessage'
    BY DEF IInv, TypeOK, BusyHasMessage, Begin
<1>3. Filed'
    BY DEF IInv, Filed, Begin
<1>4. LockHeld'
    BY DEF IInv, LockHeld, Target, TargetDir, Holding, Begin
<1>5. ReadIsCurrent'
    BY DEF IInv, ReadIsCurrent, Target, Begin
<1>6. MayReplace'
    BY DEF IInv, MayReplace, Begin
<1>7. Landed'
    BY DEF IInv, Landed, Target, Begin
<1>8. NewestOnFile'
    BY DEF IInv, NewestOnFile, Begin
<1>9. QED
    BY <1>1, <1>2, <1>3, <1>4, <1>5, <1>6, <1>7, <1>8 DEF IInv

LEMMA lock_dirIInv ==
    ASSUME IInv, NEW w \in Worker, lock_dir(w)
    PROVE  IInv'
<1>1. TypeOK'
    BY StoreAssumption, RecordAssumption
    DEF IInv, TypeOK, BusyHasMessage, Target, TargetDir, Control, lock_dir
<1>2. BusyHasMessage'
    BY DEF IInv, BusyHasMessage, lock_dir
<1>3. Filed'
    BY DEF IInv, Filed, lock_dir
<1>4. LockHeld'
    BY StoreAssumption, RecordAssumption
    DEF IInv, TypeOK, BusyHasMessage, LockHeld, Target, TargetDir, Holding,
        lock_dir
<1>5. ReadIsCurrent'
    BY DEF IInv, ReadIsCurrent, Target, lock_dir
<1>6. MayReplace'
    BY DEF IInv, MayReplace, lock_dir
<1>7. Landed'
    BY DEF IInv, Landed, Target, lock_dir
<1>8. NewestOnFile'
    BY DEF IInv, NewestOnFile, lock_dir
<1>9. QED
    BY <1>1, <1>2, <1>3, <1>4, <1>5, <1>6, <1>7, <1>8 DEF IInv

LEMMA read_if_existsIInv ==
    ASSUME IInv, NEW w \in Worker, read_if_exists(w)
    PROVE  IInv'
<1>1. TypeOK'
    BY RecordAssumption
    DEF IInv, TypeOK, BusyHasMessage, Target, Control, read_if_exists
<1>2. BusyHasMessage'
    BY DEF IInv, BusyHasMessage, read_if_exists
<1>3. Filed'
    BY DEF IInv, Filed, read_if_exists
<1>4. LockHeld'
    BY DEF IInv, LockHeld, Target, TargetDir, Holding, read_if_exists
<1>5. ReadIsCurrent'
    BY DEF IInv, TypeOK, ReadIsCurrent, Target, read_if_exists
<1>6. MayReplace'
    BY DEF IInv, MayReplace, read_if_exists
<1>7. Landed'
    BY DEF IInv, Landed, Target, read_if_exists
<1>8. NewestOnFile'
    BY DEF IInv, NewestOnFile, read_if_exists
<1>9. QED
    BY <1>1, <1>2, <1>3, <1>4, <1>5, <1>6, <1>7, <1>8 DEF IInv

LEMMA log_keptIInv ==
    ASSUME IInv, NEW w \in Worker, log_kept(w)
    PROVE  IInv'
<1>1. TypeOK'
    BY StoreAssumption, RecordAssumption
    DEF IInv, TypeOK, OnFile, BusyHasMessage, Target, TargetDir, Control,
        log_kept, Unlock
<1>2. BusyHasMessage'
    BY StoreAssumption DEF IInv, TypeOK, BusyHasMessage, log_kept, Unlock
<1>3. Filed'
    BY DEF IInv, Filed, log_kept
<1>4. LockHeld'
    BY DEF IInv, TypeOK, LockHeld, Target, TargetDir, Holding, log_kept,
           Unlock
<1>5. ReadIsCurrent'
    BY DEF IInv, TypeOK, ReadIsCurrent, Target, log_kept, Unlock
<1>6. MayReplace'
    BY DEF IInv, MayReplace, log_kept, Unlock
<1>7. Landed'
    BY DEF IInv, Landed, Target, log_kept, Unlock
<1>8. NewestOnFile'
    BY RecordAssumption, NewerDef
    DEF IInv, BusyHasMessage, ReadIsCurrent, NewestOnFile, Target, log_kept
<1>9. QED
    BY <1>1, <1>2, <1>3, <1>4, <1>5, <1>6, <1>7, <1>8 DEF IInv

LEMMA write_tmpIInv ==
    ASSUME IInv, NEW w \in Worker, write_tmp(w)
    PROVE  IInv'
<1>1. TypeOK'
    BY DEF IInv, TypeOK, Control, write_tmp
<1>2. BusyHasMessage'
    BY DEF IInv, BusyHasMessage, write_tmp
<1>3. Filed'
    BY DEF IInv, Filed, write_tmp
<1>4. LockHeld'
    BY DEF IInv, LockHeld, Target, TargetDir, Holding, write_tmp
<1>5. ReadIsCurrent'
    BY DEF IInv, ReadIsCurrent, Target, write_tmp
<1>6. MayReplace'
    BY DEF IInv, MayReplace, write_tmp
<1>7. Landed'
    BY DEF IInv, Landed, Target, write_tmp
<1>8. NewestOnFile'
    BY DEF IInv, NewestOnFile, write_tmp
<1>9. QED
    BY <1>1, <1>2, <1>3, <1>4, <1>5, <1>6, <1>7, <1>8 DEF IInv

LEMMA persistIInv ==
    ASSUME IInv, NEW w \in Worker, persist(w)
    PROVE  IInv'
<1>1. TypeOK'
    BY RecordAssumption
    DEF IInv, TypeOK, OnFile, BusyHasMessage, Target, Control, persist
<1>2. BusyHasMessage'
    BY DEF IInv, BusyHasMessage, persist
<1>3. Filed'
    BY DEF IInv, Filed, Target, persist
<1>4. LockHeld'
    BY DEF IInv, LockHeld, Target, TargetDir, Holding, persist
<1>5. ReadIsCurrent'
    BY DEF IInv, TypeOK, LockHeld, ReadIsCurrent, Target, TargetDir, Holding,
           persist
<1>6. MayReplace'
    BY DEF IInv, MayReplace, persist
<1>7. Landed'
    BY RecordAssumption
    DEF IInv, TypeOK, BusyHasMessage, LockHeld, Landed, Target, TargetDir,
        Holding, persist
<1>8. NewestOnFile'
    BY RecordAssumption, NewerDef
    DEF IInv, TypeOK, BusyHasMessage, Filed, ReadIsCurrent, MayReplace,
        NewestOnFile, Target, AllDated, persist
<1>9. QED
    BY <1>1, <1>2, <1>3, <1>4, <1>5, <1>6, <1>7, <1>8 DEF IInv

LEMMA log_file_outcomeIInv ==
    ASSUME IInv, NEW w \in Worker, log_file_outcome(w)
    PROVE  IInv'
<1>1. TypeOK'
    BY StoreAssumption, RecordAssumption
    DEF IInv, TypeOK, OnFile, BusyHasMessage, Target, TargetDir, Control,
        log_file_outcome, Unlock
<1>2. BusyHasMessage'
    BY StoreAssumption
    DEF IInv, TypeOK, BusyHasMessage, log_file_outcome, Unlock
<1>3. Filed'
    BY DEF IInv, Filed, log_file_outcome
<1>4. LockHeld'
    BY DEF IInv, TypeOK, LockHeld, Target, TargetDir, Holding,
           log_file_outcome, Unlock
<1>5. ReadIsCurrent'
    BY DEF IInv, ReadIsCurrent, Target, log_file_outcome, Unlock
<1>6. MayReplace'
    BY DEF IInv, MayReplace, log_file_outcome, Unlock
<1>7. Landed'
    BY DEF IInv, TypeOK, Landed, Target, log_file_outcome, Unlock
<1>8. NewestOnFile'
    BY RecordAssumption
    DEF IInv, BusyHasMessage, Landed, NewestOnFile, Target, AllDated,
        log_file_outcome
<1>9. QED
    BY <1>1, <1>2, <1>3, <1>4, <1>5, <1>6, <1>7, <1>8 DEF IInv

LEMMA FailLockedIInv ==
    ASSUME IInv, NEW w \in Worker, FailLocked(w)
    PROVE  IInv'
<1>1. TypeOK'
    BY StoreAssumption, RecordAssumption
    DEF IInv, TypeOK, OnFile, BusyHasMessage, Target, TargetDir, Control,
        FailLocked, Unlock
<1>2. BusyHasMessage'
    BY StoreAssumption DEF IInv, TypeOK, BusyHasMessage, FailLocked, Unlock
<1>3. Filed'
    BY DEF IInv, Filed, FailLocked
<1>4. LockHeld'
    BY DEF IInv, TypeOK, LockHeld, Target, TargetDir, Holding, FailLocked,
           Unlock
<1>5. ReadIsCurrent'
    BY DEF IInv, TypeOK, ReadIsCurrent, Target, FailLocked, Unlock
<1>6. MayReplace'
    BY DEF IInv, TypeOK, MayReplace, FailLocked, Unlock
<1>7. Landed'
    BY DEF IInv, Landed, Target, FailLocked, Unlock
<1>8. NewestOnFile'
    BY DEF IInv, NewestOnFile, FailLocked
<1>9. QED
    BY <1>1, <1>2, <1>3, <1>4, <1>5, <1>6, <1>7, <1>8 DEF IInv

LEMMA FailStartIInv ==
    ASSUME IInv, NEW w \in Worker, FailStart(w)
    PROVE  IInv'
<1>1. TypeOK'
    BY DEF IInv, TypeOK, Control, FailStart
<1>2. BusyHasMessage'
    BY StoreAssumption DEF IInv, TypeOK, BusyHasMessage, FailStart
<1>3. Filed'
    BY DEF IInv, Filed, FailStart
<1>4. LockHeld'
    BY DEF IInv, LockHeld, Target, TargetDir, Holding, FailStart
<1>5. ReadIsCurrent'
    BY DEF IInv, ReadIsCurrent, Target, FailStart
<1>6. MayReplace'
    BY DEF IInv, MayReplace, FailStart
<1>7. Landed'
    BY DEF IInv, Landed, Target, FailStart
<1>8. NewestOnFile'
    BY DEF IInv, NewestOnFile, FailStart
<1>9. QED
    BY <1>1, <1>2, <1>3, <1>4, <1>5, <1>6, <1>7, <1>8 DEF IInv

LEMMA CrashIInv ==
    ASSUME IInv, NEW p \in Process, Crash(p)
    PROVE  IInv'
<1>1. TypeOK'
    BY DEF IInv, TypeOK, OnFile, Control, Crash
<1>2. BusyHasMessage'
    BY StoreAssumption DEF IInv, BusyHasMessage, Crash
<1>3. Filed'
    BY DEF IInv, Filed, Crash
<1>4. LockHeld'
    BY StoreAssumption, RecordAssumption
    DEF IInv, TypeOK, BusyHasMessage, LockHeld, Target, TargetDir, Holding,
        Crash
<1>5. ReadIsCurrent'
    BY DEF IInv, ReadIsCurrent, Target, Crash
<1>6. MayReplace'
    BY DEF IInv, MayReplace, Crash
<1>7. Landed'
    BY DEF IInv, Landed, Target, Crash
<1>8. NewestOnFile'
    BY DEF IInv, NewestOnFile, Crash
<1>9. QED
    BY <1>1, <1>2, <1>3, <1>4, <1>5, <1>6, <1>7, <1>8 DEF IInv

-----------------------------------------------------------------------------

LEMMA NextIInv ==
    ASSUME IInv, [Next]_vars
    PROVE  IInv'
<1>1. CASE UNCHANGED vars
    BY <1>1
    DEF vars, IInv, TypeOK, BusyHasMessage, Filed, LockHeld, ReadIsCurrent,
        MayReplace, Landed, NewestOnFile, Target, TargetDir
<1>2. ASSUME NEW w \in Worker, NEW m \in Message, Begin(w, m)
      PROVE  IInv'
    BY <1>2, BeginIInv
<1>3. ASSUME NEW w \in Worker, lock_dir(w)
      PROVE  IInv'
    BY <1>3, lock_dirIInv
<1>4. ASSUME NEW w \in Worker, Update(w)
      PROVE  IInv'
    BY <1>4, read_if_existsIInv, log_keptIInv, write_tmpIInv, persistIInv,
       log_file_outcomeIInv
    DEF Update
<1>5. ASSUME NEW w \in Worker, FailLocked(w) \/ FailStart(w)
      PROVE  IInv'
    BY <1>5, FailLockedIInv, FailStartIInv
<1>6. ASSUME NEW p \in Process, Crash(p)
      PROVE  IInv'
    BY <1>6, CrashIInv
<1>7. QED
    BY <1>1, <1>2, <1>3, <1>4, <1>5, <1>6 DEF Next

(***************************************************************************)
(* The inductive invariant holds of every run: types, the lock is held by  *)
(* whoever is in update_file, the read is current, and the newest record   *)
(* is on file.                                                             *)
(***************************************************************************)
THEOREM Inductive == Spec => []IInv
<1>1. Init => IInv
    BY InitIInv
<1>2. IInv /\ [Next]_vars => IInv'
    BY NextIInv
<1>3. QED
    BY <1>1, <1>2, PTL DEF Spec

(***************************************************************************)
(* The newest message wins: no interleaving, failure or crash leaves an    *)
(* older record on file than one that was reported as filed.               *)
(***************************************************************************)
THEOREM NewestWinsOnFile == Spec => []NewestOnFile
<1>1. IInv => NewestOnFile
    BY DEF IInv
<1>2. QED
    BY <1>1, Inductive, PTL

\* The only step that changes a file is the rename, and what it replaces is
\* what the worker read and found to be no newer.
LEMMA FileStep ==
    ASSUME IInv, [Next]_vars, file' # file
    PROVE  \E w \in Worker :
              /\ persist(w)
              /\ msg[w] \in Message
              /\ file' = [file EXCEPT ![PathOf[msg[w]]] = msg[w]]
              /\ ~ is_from_newer(file[PathOf[msg[w]]], msg[w])
<1>1. PICK w \in Worker : persist(w)
    BY DEF Next, vars, Begin, lock_dir, Update, read_if_exists, log_kept,
           write_tmp, log_file_outcome, FailLocked, FailStart, Crash
<1>2. QED
    BY <1>1
    DEF persist, Target, IInv, TypeOK, BusyHasMessage, ReadIsCurrent,
        MayReplace, Control

(***************************************************************************)
(* No step of any thread replaces a dated record by an older one.          *)
(***************************************************************************)
THEOREM NoRegression == Spec => DateNeverRegresses
<1>1. ASSUME IInv, [Next]_vars, NEW p \in Path,
             file'[p] \in Message, file'[p] # file[p]
      PROVE  ~ is_from_newer(file[p], file'[p])
    BY <1>1, FileStep DEF IInv, TypeOK
<1>2. IInv /\ [Next]_vars =>
        [\A p \in Path :
            file'[p] \in Message /\ file'[p] # file[p]
                => ~ is_from_newer(file[p], file'[p])]_vars
    BY <1>1
<1>3. QED
    BY <1>2, Inductive, PTL DEF Spec, DateNeverRegresses

(***************************************************************************)
(* No failed write and no crash leaves a damaged record where there was a  *)
(* good one or none.                                                       *)
(***************************************************************************)
THEOREM NoTruncation == Spec => NeverTruncated
<1>1. ASSUME IInv, [Next]_vars, NEW p \in Path, file'[p] = Corrupt
      PROVE  file[p] = Corrupt
    BY <1>1, FileStep, RecordAssumption DEF IInv, TypeOK
<1>2. IInv /\ [Next]_vars =>
        [\A p \in Path : file'[p] = Corrupt => file[p] = Corrupt]_vars
    BY <1>1
<1>3. QED
    BY <1>2, Inductive, PTL DEF Spec, NeverTruncated

-----------------------------------------------------------------------------

LEMMA SettledStep ==
    ASSUME IInv, [Next]_vars, settled' # settled
    PROVE  \E w \in Worker :
              /\ msg[w] \in Message
              /\ settled' = settled \cup {msg[w]}
              /\ UNCHANGED file
              /\ \/ file[PathOf[msg[w]]] = msg[w]
                 \/ is_from_newer(file[PathOf[msg[w]]], msg[w])
<1>1. PICK w \in Worker : log_kept(w) \/ log_file_outcome(w)
    BY DEF Next, vars, Begin, lock_dir, Update, read_if_exists, persist,
           write_tmp, FailLocked, FailStart, Crash
<1>2. QED
    BY <1>1
    DEF log_kept, log_file_outcome, Target, IInv, BusyHasMessage,
        ReadIsCurrent, Landed

(***************************************************************************)
(* The mechanism - lock, read, temporary file, rename, crash - implements  *)
(* the promise that a record only ever gives way to one that is not older. *)
(***************************************************************************)
THEOREM Refinement == Spec => ImplementsNewestWins
<1>1. Init => Promise!Init
    BY DEF Init, Promise!Init, OnFile, Promise!OnFile
<1>2. ASSUME IInv, [Next]_vars
      PROVE  [Promise!Next]_<<file, settled>>
    <2>1. CASE file' # file
        <3>1. PICK w \in Worker :
                 /\ persist(w)
                 /\ msg[w] \in Message
                 /\ file' = [file EXCEPT ![PathOf[msg[w]]] = msg[w]]
                 /\ ~ is_from_newer(file[PathOf[msg[w]]], msg[w])
            BY <1>2, <2>1, FileStep
        <3>2. Promise!Put(msg[w])
            BY <3>1
            DEF Promise!Put, persist, Promise!is_from_newer,
                Promise!supersedes, Promise!received_at_in, is_from_newer,
                supersedes, received_at_in
        <3>3. QED
            BY <3>1, <3>2 DEF Promise!Next
    <2>2. CASE settled' # settled
        <3>1. PICK w \in Worker :
                 /\ msg[w] \in Message
                 /\ settled' = settled \cup {msg[w]}
                 /\ UNCHANGED file
                 /\ \/ file[PathOf[msg[w]]] = msg[w]
                    \/ is_from_newer(file[PathOf[msg[w]]], msg[w])
            BY <1>2, <2>2, SettledStep
        <3>2. Promise!Settle(msg[w])
            BY <3>1
            DEF Promise!Settle, Promise!is_from_newer, Promise!supersedes,
                Promise!received_at_in, is_from_newer, supersedes,
                received_at_in
        <3>3. QED
            BY <3>1, <3>2 DEF Promise!Next
    <2>3. QED
        BY <2>1, <2>2
<1>3. QED
    BY <1>1, <1>2, Inductive, PTL DEF Spec, ImplementsNewestWins, Promise!Spec
=============================================================================
