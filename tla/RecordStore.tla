---------------------------- MODULE RecordStore ----------------------------
(***************************************************************************)
(* targets/sink.rs update_file, as every local sink that files a JSON      *)
(* record uses it through targets/json_target.rs write_unless_newer:       *)
(* lock the directory, read what is on file, decide, write a temporary     *)
(* file, rename it over the target, drop the lock.                         *)
(*                                                                         *)
(* Workers are the threads that run a message through the pipeline: the    *)
(* milter's blocking tasks, the rayon threads of a scan.  They live in     *)
(* processes (a milter, a watcher and a one-off scan may all be running),  *)
(* and a process may die at any point.  A message may be filed any number  *)
(* of times: a rescan and a redelivery file it again.                      *)
(*                                                                         *)
(* A record is abstracted to the message it was filed from; its date is    *)
(* the record's receivedAt, which is the extractor's own when it set one   *)
(* and the message's otherwise (body_with_received_at).                    *)
(***************************************************************************)
EXTENDS RecordDates

CONSTANTS
    Worker, Process, ProcessOf,     \* ProcessOf \in [Worker -> Process]
    Dir, DirOf,                     \* DirOf \in [Path -> Dir]
    Nobody,                         \* a directory that is not locked
    NoMessage                       \* a worker with nothing to file

VARIABLES
    file,       \* [Path -> OnFile]: the directory's contents
    settled,    \* messages whose filing returned Created, Updated or Kept
    lock,       \* [Dir -> Worker \cup {Nobody}]: the advisory lock
    pc,         \* [Worker -> Control]
    msg,        \* [Worker -> Message \cup {NoMessage}]: what it is filing
    found       \* [Worker -> OnFile]: what its read returned

vars == <<file, settled, lock, pc, msg, found>>

\* The promise this mechanism keeps.
Promise == INSTANCE NewestWins WITH onfile <- file

\* Where a worker is in update_file.
Control == {"idle", "start", "locked", "read", "tmp", "renamed"}

\* The steps at which it holds the directory lock.
Holding == {"locked", "read", "tmp", "renamed"}

ASSUME StoreAssumption ==
    /\ ProcessOf \in [Worker -> Process]
    /\ DirOf \in [Path -> Dir]
    /\ Nobody \notin Worker
    /\ NoMessage \notin Message

\* The file and the directory a worker's message goes to.
Target(w) == PathOf[msg[w]]
TargetDir(w) == DirOf[Target(w)]

-----------------------------------------------------------------------------

(***************************************************************************)
(* The directory may hold records from earlier runs, or one that somebody  *)
(* damaged.                                                                *)
(***************************************************************************)
Init ==
    /\ file \in [Path -> OnFile]
    /\ \A p \in Path : file[p] \in Message => PathOf[file[p]] = p
    /\ settled = {}
    /\ lock = [d \in Dir |-> Nobody]
    /\ pc = [w \in Worker |-> "idle"]
    /\ msg = [w \in Worker |-> NoMessage]
    /\ found = [w \in Worker |-> NoFile]

\* A worker gets a message whose record goes to a local sink.
Begin(w, m) ==
    /\ pc[w] = "idle"
    /\ pc' = [pc EXCEPT ![w] = "start"]
    /\ msg' = [msg EXCEPT ![w] = m]
    /\ UNCHANGED <<file, settled, lock, found>>

\* Mutant: the directory is opened but not locked.
lock_dir_NoWait(w) ==
    /\ pc[w] = "start"
    /\ lock' = [lock EXCEPT ![TargetDir(w)] = w]
    /\ pc' = [pc EXCEPT ![w] = "locked"]
    /\ UNCHANGED <<file, settled, msg, found>>

(***************************************************************************)
(* lock_dir: waits for whoever holds the directory, in whatever process.   *)
(***************************************************************************)
lock_dir(w) ==
    /\ pc[w] = "start"
    /\ lock[TargetDir(w)] = Nobody
    /\ lock' = [lock EXCEPT ![TargetDir(w)] = w]
    /\ pc' = [pc EXCEPT ![w] = "locked"]
    /\ UNCHANGED <<file, settled, msg, found>>

read_if_exists(w) ==
    /\ pc[w] = "locked"
    /\ found' = [found EXCEPT ![w] = file[Target(w)]]
    /\ pc' = [pc EXCEPT ![w] = "read"]
    /\ UNCHANGED <<file, settled, lock, msg>>

\* update_file returns, whatever the result: the guard is dropped.
Unlock(w) ==
    /\ lock' = [lock EXCEPT ![TargetDir(w)] = Nobody]
    /\ pc' = [pc EXCEPT ![w] = "idle"]
    /\ msg' = [msg EXCEPT ![w] = NoMessage]
    /\ found' = [found EXCEPT ![w] = NoFile]

\* Mutant: the early return forgets the lock.
log_kept_Leaks(w) ==
    /\ pc[w] = "read"
    /\ is_from_newer(found[w], msg[w])
    /\ settled' = settled \cup {msg[w]}
    /\ pc' = [pc EXCEPT ![w] = "idle"]
    /\ msg' = [msg EXCEPT ![w] = NoMessage]
    /\ found' = [found EXCEPT ![w] = NoFile]
    /\ UNCHANGED <<file, lock>>

\* The merge leaves the record alone: FileOutcome::Kept.
log_kept(w) ==
    /\ pc[w] = "read"
    /\ is_from_newer(found[w], msg[w])
    /\ settled' = settled \cup {msg[w]}
    /\ Unlock(w)
    /\ UNCHANGED file

\* Mutant: the body is written to the target itself.
write_tmp_InPlace(w) ==
    /\ pc[w] = "read"
    /\ ~ is_from_newer(found[w], msg[w])
    /\ file' = [file EXCEPT ![Target(w)] = Corrupt]
    /\ pc' = [pc EXCEPT ![w] = "tmp"]
    /\ UNCHANGED <<settled, lock, msg, found>>

\* Mutant: the dates are not compared.
write_tmp_Always(w) ==
    /\ pc[w] = "read"
    /\ pc' = [pc EXCEPT ![w] = "tmp"]
    /\ UNCHANGED <<file, settled, lock, msg, found>>

\* write_atomic, first half: the body goes to a temporary file beside the
\* target and is synced.  The target is not touched.
write_tmp(w) ==
    /\ pc[w] = "read"
    /\ ~ is_from_newer(found[w], msg[w])
    /\ pc' = [pc EXCEPT ![w] = "tmp"]
    /\ UNCHANGED <<file, settled, lock, msg, found>>

\* write_atomic, second half: the rename.
persist(w) ==
    /\ pc[w] = "tmp"
    /\ file' = [file EXCEPT ![Target(w)] = msg[w]]
    /\ pc' = [pc EXCEPT ![w] = "renamed"]
    /\ UNCHANGED <<settled, lock, msg, found>>

\* FileOutcome::Created or Updated is reported to the pipeline.
log_file_outcome(w) ==
    /\ pc[w] = "renamed"
    /\ settled' = settled \cup {msg[w]}
    /\ Unlock(w)
    /\ UNCHANGED file

\* An I/O error: the read, the temporary file or the rename fails, update_file
\* returns Err and the temporary file is removed.
FailLocked(w) ==
    /\ pc[w] \in {"locked", "read", "tmp"}
    /\ Unlock(w)
    /\ UNCHANGED <<file, settled>>

\* The directory cannot be created, opened or locked.
FailStart(w) ==
    /\ pc[w] = "start"
    /\ pc' = [pc EXCEPT ![w] = "idle"]
    /\ msg' = [msg EXCEPT ![w] = NoMessage]
    /\ UNCHANGED <<file, settled, lock, found>>

(***************************************************************************)
(* A process dies.  The system drops its locks with its file handles; what *)
(* was renamed stays, a temporary file stays beside the records.           *)
(***************************************************************************)
Crash(p) ==
    LET Dead == {w \in Worker : ProcessOf[w] = p} IN
    /\ \E w \in Dead : pc[w] # "idle"
    /\ pc' = [w \in Worker |-> IF w \in Dead THEN "idle" ELSE pc[w]]
    /\ msg' = [w \in Worker |-> IF w \in Dead THEN NoMessage ELSE msg[w]]
    /\ found' = [w \in Worker |-> IF w \in Dead THEN NoFile ELSE found[w]]
    /\ lock' = [d \in Dir |-> IF lock[d] \in Dead THEN Nobody ELSE lock[d]]
    /\ UNCHANGED <<file, settled>>

\* The steps of update_file under the lock, when nothing fails.
Update(w) ==
    \/ read_if_exists(w)
    \/ log_kept(w)
    \/ write_tmp(w)
    \/ persist(w)
    \/ log_file_outcome(w)

Next ==
    \/ \E w \in Worker, m \in Message : Begin(w, m)
    \/ \E w \in Worker : lock_dir(w) \/ Update(w)
    \/ \E w \in Worker : FailLocked(w) \/ FailStart(w)
    \/ \E p \in Process : Crash(p)

Spec == Init /\ [][Next]_vars

(***************************************************************************)
(* A running thread takes its next step, and the operating system hands a  *)
(* lock that is free again and again to a thread that waits for it.        *)
(***************************************************************************)
Fairness ==
    \A w \in Worker :
        /\ WF_vars(Update(w))
        /\ SF_vars(lock_dir(w))

FairSpec == Spec /\ Fairness

-----------------------------------------------------------------------------

TypeOK ==
    /\ file \in [Path -> OnFile]
    /\ settled \subseteq Message
    /\ lock \in [Dir -> Worker \cup {Nobody}]
    /\ pc \in [Worker -> Control]
    /\ msg \in [Worker -> Message \cup {NoMessage}]
    /\ found \in [Worker -> OnFile]

\* A worker has a message exactly while it is filing it.
BusyHasMessage == \A w \in Worker : pc[w] # "idle" <=> msg[w] \in Message

\* A path holds only records that belong there.
Filed == \A p \in Path : file[p] \in Message => PathOf[file[p]] = p

\* The lock is held by exactly the worker that is between lock_dir and return.
LockHeld ==
    /\ \A w \in Worker : pc[w] \in Holding => lock[TargetDir(w)] = w
    /\ \A d \in Dir : lock[d] # Nobody =>
           pc[lock[d]] \in Holding /\ TargetDir(lock[d]) = d

\* While a worker decides, what it read is still what is on file.
ReadIsCurrent ==
    \A w \in Worker : pc[w] \in {"read", "tmp"} => found[w] = file[Target(w)]

\* A temporary file exists only for a record that may replace the one on file.
MayReplace ==
    \A w \in Worker : pc[w] = "tmp" => ~ is_from_newer(found[w], msg[w])

\* Between the rename and the return the record on file is the worker's.
Landed == \A w \in Worker : pc[w] = "renamed" => file[Target(w)] = msg[w]

(***************************************************************************)
(* The newest message wins: where every message is dated, whatever was     *)
(* reported as filed is on file or gave way to a newer one, for ever after *)
(* and in whatever order the messages came (sink.rs, supersedes).          *)
(***************************************************************************)
NewestOnFile ==
    \A m \in settled :
        AllDated(PathOf[m]) =>
            /\ file[PathOf[m]] \in Message
            /\ DateOf[file[PathOf[m]]] >= DateOf[m]

\* The inductive invariant the proofs use.
IInv ==
    /\ TypeOK
    /\ BusyHasMessage
    /\ Filed
    /\ LockHeld
    /\ ReadIsCurrent
    /\ MayReplace
    /\ Landed
    /\ NewestOnFile

(***************************************************************************)
(* No step replaces a dated record by one with an earlier date, whichever  *)
(* of the workers takes it (sink.rs update_file: lock_dir held from the    *)
(* read to the write).                                                     *)
(***************************************************************************)
DateNeverRegresses ==
    [][\A p \in Path :
          file'[p] \in Message /\ file'[p] # file[p]
              => ~ is_from_newer(file[p], file'[p])]_vars

(***************************************************************************)
(* A crash or a failed write never leaves a damaged record behind: a file  *)
(* that does not parse was there before the program started (sink.rs       *)
(* write_atomic: "a partial write can't leave a truncated file in place"). *)
(***************************************************************************)
NeverTruncated ==
    [][\A p \in Path : file'[p] = Corrupt => file[p] = Corrupt]_vars

(***************************************************************************)
(* Whoever waits for a directory gets it, or gives up: no exit from        *)
(* update_file - Kept, error, crash - leaves the directory locked.         *)
(***************************************************************************)
EveryFilingEnds == \A w \in Worker : pc[w] = "start" ~> pc[w] = "idle"

\* The mechanism implements the promise.
ImplementsNewestWins == Promise!Spec
=============================================================================
