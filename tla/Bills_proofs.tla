---------------------------- MODULE Bills_proofs ----------------------------
(***************************************************************************)
(* For any number of workers, payees, paths and messages: Firefly is given *)
(* a bill only if none newer was on file, and a document belongs to no     *)
(* newer message than its record.  Both rest on the dates at a path, which *)
(* never go back as long as everything there is dated: a newer bill that   *)
(* was on file is still newer when the scan comes to it, and a record that *)
(* the worker wrote, or found newer, is no older when the document comes.  *)
(***************************************************************************)
EXTENDS Bills, TLAPS

\* Files hold what was filed at their path; none was damaged.
FiledInPlace ==
    /\ \A p \in Path : record[p] # NoFile => record[p] \in Message /\ PathOf[record[p]] = p
    /\ \A p \in Path : blob[p] # NoFile => blob[p] \in Message /\ PathOf[blob[p]] = p

\* A worker that is under way has a message.
BusyHasMessage == \A w \in Worker : pc[w] # "idle" => msg[w] \in Message

\* Before a worker has filed its record there is nothing to compare it with.
NewerFromFiling == \A w \in Worker : pc[w] \in {"idle", "record"} => newer[w] = {}

\* A newer bill of the payee does not become older.
StillNewer == \A w \in Worker : \A p \in newer[w] : AllDated(p) => HasNewerBill(p, w)

\* A newer bill is ahead of the scan, and so nobody gets past the scan.
NotYetScanned ==
    \A w \in Worker : \A p \in newer[w] : AllDated(p) =>
        /\ pc[w] = "scan" => p \in unscanned[w]
        /\ pc[w] \notin {"lookup", "send"}

\* The record at p is from a message that is no older than m.
NoOlderRecord(p, m) == record[p] \in Message /\ ~ is_from_newer(m, record[p])

\* From its filing on, what is on file is the worker's record or a newer one.
RecordIsNoOlder ==
    ~ writesFail =>
        \A w \in Worker :
            pc[w] \notin {"idle", "record"} /\ AllDated(Target(w)) =>
                NoOlderRecord(Target(w), msg[w])

BillsInv ==
    /\ TypeOK
    /\ FiledInPlace
    /\ BusyHasMessage
    /\ NewerFromFiling
    /\ StillNewer
    /\ NotYetScanned
    /\ RecordIsNoOlder
    /\ BlobFollowsRecord

-----------------------------------------------------------------------------
(***************************************************************************)
(* The order of dated messages                                             *)
(***************************************************************************)

\* Not being newer is transitive among dated messages.
LEMMA NotNewerTransitive ==
    ASSUME NEW a \in Message, NEW b \in Message, NEW c \in Message,
           DateOf[a] # NoDate, DateOf[b] # NoDate, DateOf[c] # NoDate,
           ~ is_from_newer(a, b), ~ is_from_newer(b, c)
    PROVE  ~ is_from_newer(a, c)
BY RecordAssumption DEF is_from_newer, received_at_in, supersedes

\* What is newer than m stays so when it gives way to nothing older.
LEMMA NewerStaysNewer ==
    ASSUME NEW a \in Message, NEW b \in Message, NEW m \in Message,
           DateOf[b] # NoDate, is_from_newer(a, m), ~ is_from_newer(a, b)
    PROVE  is_from_newer(b, m)
BY RecordAssumption DEF is_from_newer, received_at_in, supersedes

\* Only a message's record can be newer.
LEMMA NewerIsMessage ==
    ASSUME NEW f, NEW m \in Message, is_from_newer(f, m)
    PROVE  f \in Message /\ ~ is_from_newer(m, f) /\ DateOf[f] # NoDate
BY RecordAssumption DEF is_from_newer, received_at_in, supersedes

\* Nothing is newer than itself.
LEMMA NotNewerThanItself ==
    ASSUME NEW m \in Message
    PROVE  ~ is_from_newer(m, m)
BY RecordAssumption DEF is_from_newer, received_at_in, supersedes

-----------------------------------------------------------------------------
(***************************************************************************)
(* What a step does to the files                                           *)
(***************************************************************************)

\* A record gives way only to one of its path that is not older.
RecordSuccessor(p) ==
    \/ record'[p] = record[p]
    \/ \E m \in Message :
          PathOf[m] = p /\ record'[p] = m /\ ~ is_from_newer(record[p], m)

\* Every step replaces records that way.
LEMMA RecordStep ==
    ASSUME BillsInv, [Next]_vars
    PROVE  \A p \in Path : RecordSuccessor(p)
<1>. SUFFICES ASSUME NEW p \in Path PROVE RecordSuccessor(p)
  OBVIOUS
<1>. USE BillsAssumption, RecordAssumption DEF BillsInv, TypeOK
<1>1. ASSUME NEW w \in Worker, write_unless_newer(w) PROVE RecordSuccessor(p)
  <2>1. msg[w] \in Message
    BY <1>1 DEF write_unless_newer, BusyHasMessage
  <2>. QED BY <1>1, <2>1 DEF write_unless_newer, RecordSuccessor, Target
<1>2. CASE UNCHANGED record
  BY <1>2 DEF RecordSuccessor
<1>3. ASSUME NEW w \in Worker, NEW m \in Message, Begin(w, m)
      PROVE  UNCHANGED record
  BY <1>3 DEF Begin
<1>4. ASSUME NEW w \in Worker,
             \/ KeepRecord(w) \/ read_dir(w) \/ (\E q \in Path : ScanRecord(w, q))
             \/ ScanDone(w) \/ find_existing(w) \/ register(w)
             \/ file_bill_blob(w) \/ KeepBlob(w) \/ NoBlob(w) \/ Skip(w) \/ Crash(w)
      PROVE  UNCHANGED record
  BY <1>4 DEF KeepRecord, read_dir, ScanRecord, ScanDone, find_existing, register,
              file_bill_blob, KeepBlob, NoBlob, Skip, Crash
<1>5. CASE UNCHANGED vars
  BY <1>5, <1>2 DEF vars
<1>. QED BY <1>1, <1>2, <1>3, <1>4, <1>5 DEF Next, Step

\* A document is replaced only by a worker's whose record is not from a newer
\* message, at its path.
BlobSuccessor(p) ==
    \/ blob'[p] = blob[p]
    \/ \E w \in Worker :
          /\ pc[w] = "blob"
          /\ Target(w) = p
          /\ blob'[p] = msg[w]
          /\ ~ is_from_newer(record[p], msg[w])
          /\ record' = record

\* Every step replaces documents that way.
LEMMA BlobStep ==
    ASSUME BillsInv, [Next]_vars
    PROVE  \A p \in Path : BlobSuccessor(p)
<1>. SUFFICES ASSUME NEW p \in Path PROVE BlobSuccessor(p)
  OBVIOUS
<1>1. ASSUME NEW w \in Worker, file_bill_blob(w) PROVE BlobSuccessor(p)
  <2>1. blob' = [blob EXCEPT ![Target(w)] = msg[w]] /\ DOMAIN blob = Path
    BY <1>1 DEF file_bill_blob, BillsInv, TypeOK
  <2>2. CASE Target(w) = p
    BY <1>1, <2>1, <2>2 DEF file_bill_blob, BlobSuccessor
  <2>3. CASE Target(w) # p
    BY <2>1, <2>3 DEF BlobSuccessor
  <2>. QED BY <2>2, <2>3
<1>2. CASE UNCHANGED blob
  BY <1>2 DEF BlobSuccessor
<1>3. ASSUME NEW w \in Worker, NEW m \in Message, Begin(w, m)
      PROVE  UNCHANGED blob
  BY <1>3 DEF Begin
<1>4. ASSUME NEW w \in Worker,
             \/ write_unless_newer(w) \/ KeepRecord(w) \/ read_dir(w)
             \/ (\E q \in Path : ScanRecord(w, q)) \/ ScanDone(w)
             \/ find_existing(w) \/ register(w) \/ KeepBlob(w) \/ NoBlob(w)
             \/ Skip(w) \/ Crash(w)
      PROVE  UNCHANGED blob
  BY <1>4 DEF write_unless_newer, KeepRecord, read_dir, ScanRecord, ScanDone,
              find_existing, register, KeepBlob, NoBlob, Skip, Crash
<1>5. CASE UNCHANGED vars
  BY <1>5, <1>2 DEF vars
<1>. QED BY <1>1, <1>2, <1>3, <1>4, <1>5 DEF Next, Step

-----------------------------------------------------------------------------
(***************************************************************************)
(* The invariant                                                           *)
(***************************************************************************)

LEMMA BillsInvInit ==
    ASSUME Init
    PROVE  BillsInv
<1>. USE RecordAssumption, BillsAssumption DEF Init
<1>1. TypeOK
  BY DEF TypeOK, Control, OnFile
<1>2. FiledInPlace /\ BlobFollowsRecord
  BY DEF FiledInPlace, BlobFollowsRecord
<1>3. BusyHasMessage /\ NewerFromFiling /\ StillNewer /\ NotYetScanned
  BY DEF BusyHasMessage, NewerFromFiling, StillNewer, NotYetScanned
<1>4. RecordIsNoOlder
  BY DEF RecordIsNoOlder
<1>. QED BY <1>1, <1>2, <1>3, <1>4 DEF BillsInv

\* Every step keeps the types, and a busy worker its message.
LEMMA TypeStep ==
    ASSUME TypeOK, BusyHasMessage, [Next]_vars
    PROVE  TypeOK' /\ BusyHasMessage'
<1>. USE BillsAssumption, RecordAssumption DEF TypeOK, BusyHasMessage, Control, OnFile
<1>1. ASSUME NEW w \in Worker, NEW m \in Message, Begin(w, m), UNCHANGED writesFail
      PROVE  TypeOK' /\ BusyHasMessage'
  BY <1>1 DEF Begin, Goto
<1>2. ASSUME NEW w \in Worker, write_unless_newer(w), UNCHANGED writesFail
      PROVE  TypeOK' /\ BusyHasMessage'
  BY <1>2 DEF write_unless_newer, Goto
<1>3. ASSUME NEW w \in Worker, read_dir(w), UNCHANGED writesFail
      PROVE  TypeOK' /\ BusyHasMessage'
  BY <1>3 DEF read_dir, Goto
<1>4. ASSUME NEW w \in Worker, NEW p \in Path, ScanRecord(w, p), UNCHANGED writesFail
      PROVE  TypeOK' /\ BusyHasMessage'
  BY <1>4 DEF ScanRecord, Goto
<1>5. ASSUME NEW w \in Worker, KeepRecord(w) \/ ScanDone(w) \/ Skip(w),
             UNCHANGED writesFail
      PROVE  TypeOK' /\ BusyHasMessage'
  BY <1>5 DEF KeepRecord, ScanDone, Skip, Goto
<1>6. ASSUME NEW w \in Worker, find_existing(w) \/ register(w), UNCHANGED writesFail
      PROVE  TypeOK' /\ BusyHasMessage'
  BY <1>6 DEF find_existing, register, Goto
<1>7. ASSUME NEW w \in Worker,
             file_bill_blob(w) \/ KeepBlob(w) \/ NoBlob(w) \/ Crash(w),
             UNCHANGED writesFail
      PROVE  TypeOK' /\ BusyHasMessage'
  <2>1. Done(w) /\ UNCHANGED <<record, firefly>>
    BY <1>7 DEF file_bill_blob, KeepBlob, NoBlob, Crash
  <2>2. blob' = blob \/ (pc[w] = "blob" /\ blob' = [blob EXCEPT ![Target(w)] = msg[w]])
    BY <1>7 DEF file_bill_blob, KeepBlob, NoBlob, Crash
  <2>3. blob' \in [Path -> Message \cup {NoFile}]
    BY <2>2
  <2>. QED BY <1>7, <2>1, <2>3 DEF Done, Goto
<1>8. CASE UNCHANGED vars
  BY <1>8 DEF vars
<1>. QED
  BY <1>1, <1>2, <1>3, <1>4, <1>5, <1>6, <1>7, <1>8 DEF Next, Step

\* Files stay in their place.
LEMMA FiledInPlaceStep ==
    ASSUME BillsInv, [Next]_vars
    PROVE  FiledInPlace'
<1>1. \A p \in Path : record'[p] # NoFile => record'[p] \in Message /\ PathOf[record'[p]] = p
  BY RecordStep DEF BillsInv, FiledInPlace, RecordSuccessor
<1>2. \A p \in Path : blob'[p] # NoFile => blob'[p] \in Message /\ PathOf[blob'[p]] = p
  BY BlobStep DEF BillsInv, FiledInPlace, BlobSuccessor, BusyHasMessage, Target
<1>. QED BY <1>1, <1>2 DEF FiledInPlace

\* What was newer on a dated path is newer still, whoever replaced it.
LEMMA HasNewerBillStays ==
    ASSUME BillsInv, [Next]_vars, NEW w \in Worker, NEW p \in Path,
           msg[w] \in Message, AllDated(p), HasNewerBill(p, w)
    PROVE  /\ PayeeOf[p] = PayeeOfBill(w)
           /\ is_from_newer(record'[p], msg[w])
<1>1. is_from_newer(record[p], msg[w]) /\ record[p] \in Message
  BY NewerIsMessage DEF HasNewerBill
<1>2. RecordSuccessor(p)
  BY RecordStep
<1>3. ASSUME NEW m \in Message, PathOf[m] = p, record'[p] = m,
             ~ is_from_newer(record[p], m)
      PROVE  is_from_newer(record'[p], msg[w])
  <2>1. DateOf[m] # NoDate
    BY <1>3 DEF AllDated
  <2>. QED BY <1>1, <1>3, <2>1, NewerStaysNewer
<1>. QED BY <1>1, <1>2, <1>3 DEF HasNewerBill, RecordSuccessor

\* What a step makes of the newer bills that a worker knows of: it keeps them
\* with its message, notes them as it files its record, or has none.
LEMMA NewerStep ==
    ASSUME BillsInv, [Next]_vars, NEW w \in Worker
    PROVE  \/ newer'[w] = newer[w] /\ msg'[w] = msg[w]
           \/ /\ write_unless_newer(w)
              /\ newer'[w] = {p \in Path : HasNewerBill(p, w)}
              /\ pc'[w] = "list"
              /\ msg'[w] = msg[w]
           \/ newer'[w] = {}
<1>. USE DEF BillsInv, TypeOK
<1>1. ASSUME NEW v \in Worker, NEW m \in Message, Begin(v, m)
      PROVE  newer'[w] = newer[w] /\ (msg'[w] = msg[w] \/ newer[w] = {})
  BY <1>1 DEF Begin, NewerFromFiling
<1>2. ASSUME NEW v \in Worker, write_unless_newer(v), v # w
      PROVE  newer'[w] = newer[w] /\ msg'[w] = msg[w]
  BY <1>2 DEF write_unless_newer
<1>3. CASE write_unless_newer(w)
  BY <1>3 DEF write_unless_newer, Goto
<1>4. ASSUME NEW v \in Worker,
             \/ KeepRecord(v) \/ read_dir(v) \/ (\E q \in Path : ScanRecord(v, q))
             \/ ScanDone(v) \/ find_existing(v) \/ register(v) \/ Skip(v)
      PROVE  newer' = newer /\ msg' = msg
  BY <1>4 DEF KeepRecord, read_dir, ScanRecord, ScanDone, find_existing, register, Skip
<1>5. ASSUME NEW v \in Worker,
             file_bill_blob(v) \/ KeepBlob(v) \/ NoBlob(v) \/ Crash(v)
      PROVE  newer'[w] = {} \/ (newer'[w] = newer[w] /\ msg'[w] = msg[w])
  BY <1>5 DEF file_bill_blob, KeepBlob, NoBlob, Crash, Done
<1>6. CASE UNCHANGED vars
  BY <1>6 DEF vars
<1>. QED BY <1>1, <1>2, <1>3, <1>4, <1>5, <1>6 DEF Next, Step

LEMMA StillNewerStep ==
    ASSUME BillsInv, [Next]_vars
    PROVE  StillNewer'
<1>. SUFFICES ASSUME NEW w \in Worker, NEW p \in newer'[w], AllDated(p)
              PROVE  HasNewerBill(p, w)'
  BY DEF StillNewer, AllDated
<1>1. p \in Path /\ msg[w] \in Message /\ msg'[w] = msg[w] /\ HasNewerBill(p, w)
  <2>1. CASE newer'[w] = newer[w] /\ msg'[w] = msg[w]
    BY <2>1 DEF BillsInv, TypeOK, StillNewer, NewerFromFiling, BusyHasMessage
  <2>2. CASE /\ write_unless_newer(w)
             /\ newer'[w] = {q \in Path : HasNewerBill(q, w)}
             /\ msg'[w] = msg[w]
    BY <2>2 DEF BillsInv, BusyHasMessage, write_unless_newer
  <2>. QED BY <2>1, <2>2, NewerStep
<1>. QED BY <1>1, HasNewerBillStays DEF HasNewerBill, PayeeOfBill, Target

LEMMA NewerFromFilingStep ==
    ASSUME BillsInv, [Next]_vars
    PROVE  NewerFromFiling'
<1>. SUFFICES ASSUME NEW w \in Worker, pc'[w] \in {"idle", "record"}
              PROVE  newer'[w] = {}
  BY DEF NewerFromFiling
<1>. USE DEF BillsInv, TypeOK, NewerFromFiling, Goto
<1>1. ASSUME NEW v \in Worker, NEW m \in Message, Begin(v, m)
      PROVE  newer'[w] = {}
  BY <1>1 DEF Begin
<1>2. ASSUME NEW v \in Worker, write_unless_newer(v)
      PROVE  newer'[w] = {}
  BY <1>2 DEF write_unless_newer
<1>3. ASSUME NEW v \in Worker,
             \/ KeepRecord(v) \/ read_dir(v) \/ (\E q \in Path : ScanRecord(v, q))
             \/ ScanDone(v) \/ find_existing(v) \/ register(v) \/ Skip(v)
      PROVE  newer'[w] = {}
  BY <1>3 DEF KeepRecord, read_dir, ScanRecord, ScanDone, find_existing, register, Skip
<1>4. ASSUME NEW v \in Worker,
             file_bill_blob(v) \/ KeepBlob(v) \/ NoBlob(v) \/ Crash(v)
      PROVE  newer'[w] = {}
  BY <1>4 DEF file_bill_blob, KeepBlob, NoBlob, Crash, Done
<1>5. CASE UNCHANGED vars
  BY <1>5 DEF vars
<1>. QED BY <1>1, <1>2, <1>3, <1>4, <1>5 DEF Next, Step

\* The scan never gets past a newer bill: the listing has it, its turn ends the
\* scan, and nothing is done before every record had its turn.
LEMMA NotYetScannedStep ==
    ASSUME BillsInv, [Next]_vars
    PROVE  NotYetScanned'
<1>. SUFFICES ASSUME NEW w \in Worker, NEW p \in newer'[w], AllDated(p)
              PROVE  /\ pc'[w] = "scan" => p \in unscanned'[w]
                     /\ pc'[w] \notin {"lookup", "send"}
  BY DEF NotYetScanned, AllDated
<1>. DEFINE Ahead == /\ pc'[w] = "scan" => p \in unscanned'[w]
                     /\ pc'[w] \notin {"lookup", "send"}
<1>1. CASE pc'[w] = "list"
  BY <1>1
<1>2. CASE newer'[w] = newer[w] /\ msg'[w] = msg[w]
  <2>1. /\ p \in Path /\ msg[w] \in Message /\ HasNewerBill(p, w)
        /\ pc[w] = "scan" => p \in unscanned[w]
        /\ pc[w] \notin {"lookup", "send"}
    BY <1>2 DEF BillsInv, TypeOK, StillNewer, NotYetScanned, NewerFromFiling, BusyHasMessage
  <2>2. record[p] # NoFile
    BY <2>1, RecordAssumption, NewerIsMessage DEF HasNewerBill
  <2>. USE DEF BillsInv, TypeOK, Goto
  <2>3. ASSUME NEW v \in Worker, NEW m \in Message, Begin(v, m) PROVE Ahead
    BY <2>1, <2>3 DEF Begin
  <2>4. ASSUME NEW v \in Worker, read_dir(v) PROVE Ahead
    BY <2>1, <2>2, <2>4 DEF read_dir
  <2>5. ASSUME NEW v \in Worker, NEW q \in Path, ScanRecord(v, q) PROVE Ahead
    BY <2>1, <2>5 DEF ScanRecord
  <2>6. ASSUME NEW v \in Worker, ScanDone(v) PROVE Ahead
    BY <2>1, <2>6 DEF ScanDone
  <2>7. ASSUME NEW v \in Worker,
               \/ write_unless_newer(v) \/ KeepRecord(v) \/ find_existing(v)
               \/ register(v) \/ Skip(v)
        PROVE  Ahead
    BY <2>1, <2>7 DEF write_unless_newer, KeepRecord, find_existing, register, Skip
  <2>8. ASSUME NEW v \in Worker,
               file_bill_blob(v) \/ KeepBlob(v) \/ NoBlob(v) \/ Crash(v)
        PROVE  Ahead
    BY <2>1, <2>8 DEF file_bill_blob, KeepBlob, NoBlob, Crash, Done
  <2>9. CASE UNCHANGED vars
    BY <2>1, <2>9 DEF vars
  <2>. QED BY <2>3, <2>4, <2>5, <2>6, <2>7, <2>8, <2>9 DEF Next, Step
<1>. QED BY <1>1, <1>2, NewerStep

\* A record that is no older than a message gives way to none that is.
LEMMA NoOlderRecordStays ==
    ASSUME BillsInv, [Next]_vars, NEW p \in Path, NEW m \in Message, PathOf[m] = p,
           AllDated(p), NoOlderRecord(p, m)
    PROVE  NoOlderRecord(p, m)'
<1>1. /\ record[p] \in Message /\ PathOf[record[p]] = p /\ ~ is_from_newer(m, record[p])
  BY RecordAssumption DEF NoOlderRecord, BillsInv, FiledInPlace
<1>2. ASSUME NEW n \in Message, PathOf[n] = p, record'[p] = n, ~ is_from_newer(record[p], n)
      PROVE  NoOlderRecord(p, m)'
  BY <1>1, <1>2, NotNewerTransitive DEF AllDated, NoOlderRecord
<1>. QED BY <1>1, <1>2, RecordStep DEF RecordSuccessor, NoOlderRecord

LEMMA RecordIsNoOlderStep ==
    ASSUME BillsInv, [Next]_vars
    PROVE  RecordIsNoOlder'
<1>. SUFFICES ASSUME NEW w \in Worker, ~ writesFail', pc'[w] \notin {"idle", "record"},
                     AllDated(Target(w))'
              PROVE  NoOlderRecord(Target(w), msg[w])'
  BY DEF RecordIsNoOlder
<1>1. ~ writesFail
  BY DEF Next, vars
<1>2. msg'[w] \in Message /\ PathOf[msg'[w]] \in Path
  BY TypeStep, RecordAssumption DEF BillsInv, BusyHasMessage
<1>3. CASE pc[w] \notin {"idle", "record"} /\ msg'[w] = msg[w]
  BY <1>1, <1>2, <1>3, NoOlderRecordStays
     DEF BillsInv, RecordIsNoOlder, Target, AllDated, NoOlderRecord
<1>4. CASE write_unless_newer(w)
  <2>1. msg'[w] = msg[w] /\ record'[PathOf[msg[w]]] = msg[w]
    BY <1>2, <1>4 DEF write_unless_newer, Target, BillsInv, TypeOK
  <2>. QED BY <1>2, <2>1, NotNewerThanItself DEF NoOlderRecord, Target
<1>5. CASE KeepRecord(w)
  BY <1>1, <1>2, <1>5, NewerIsMessage DEF KeepRecord, NoOlderRecord, Target
<1>6. \/ pc[w] \notin {"idle", "record"} /\ msg'[w] = msg[w]
      \/ write_unless_newer(w)
      \/ KeepRecord(w)
  <2>. USE DEF BillsInv, TypeOK, Goto
  <2>1. ASSUME NEW v \in Worker, NEW m \in Message, Begin(v, m)
        PROVE  pc[w] \notin {"idle", "record"} /\ msg'[w] = msg[w]
    BY <2>1 DEF Begin
  <2>2. ASSUME NEW v \in Worker, v # w, write_unless_newer(v) \/ KeepRecord(v)
        PROVE  pc[w] \notin {"idle", "record"} /\ msg'[w] = msg[w]
    BY <2>2 DEF write_unless_newer, KeepRecord
  <2>3. ASSUME NEW v \in Worker,
               \/ read_dir(v) \/ (\E q \in Path : ScanRecord(v, q))
               \/ ScanDone(v) \/ find_existing(v) \/ register(v) \/ Skip(v)
        PROVE  pc[w] \notin {"idle", "record"} /\ msg'[w] = msg[w]
    BY <2>3 DEF read_dir, ScanRecord, ScanDone, find_existing, register, Skip
  <2>4. ASSUME NEW v \in Worker,
               file_bill_blob(v) \/ KeepBlob(v) \/ NoBlob(v) \/ Crash(v)
        PROVE  pc[w] \notin {"idle", "record"} /\ msg'[w] = msg[w]
    BY <2>4 DEF file_bill_blob, KeepBlob, NoBlob, Crash, Done
  <2>5. CASE UNCHANGED vars
    BY <2>5 DEF vars
  <2>. QED BY <2>1, <2>2, <2>3, <2>4, <2>5 DEF Next, Step
<1>. QED BY <1>3, <1>4, <1>5, <1>6

\* The step writes w's document at p: its record is on file, or one that is
\* dated the same, so that nothing beside it is newer.
LEMMA DocumentLands ==
    ASSUME BillsInv, ~ writesFail, NEW w \in Worker, pc[w] = "blob",
           AllDated(Target(w)), ~ is_from_newer(record[Target(w)], msg[w])
    PROVE  /\ msg[w] \in Message
           /\ NoOlderRecord(Target(w), msg[w])
           /\ blob[Target(w)] # NoFile => ~ is_from_newer(blob[Target(w)], msg[w])
<1>. DEFINE p == Target(w)
<1>1. msg[w] \in Message /\ p \in Path /\ NoOlderRecord(p, msg[w])
  BY RecordAssumption DEF BillsInv, BusyHasMessage, RecordIsNoOlder, Target
<1>2. ASSUME blob[p] # NoFile
      PROVE  ~ is_from_newer(blob[p], msg[w])
  <2>1. /\ blob[p] \in Message /\ PathOf[blob[p]] = p
        /\ record[p] \in Message /\ PathOf[record[p]] = p
        /\ ~ is_from_newer(blob[p], record[p])
    BY <1>1, <1>2, RecordAssumption DEF BillsInv, FiledInPlace, BlobFollowsRecord
  <2>2. DateOf[blob[p]] # NoDate /\ DateOf[record[p]] # NoDate /\ DateOf[msg[w]] # NoDate
    BY <1>1, <2>1 DEF AllDated, Target
  <2>. QED BY <1>1, <2>1, <2>2, NotNewerTransitive
<1>. QED BY <1>1, <1>2

LEMMA BlobFollowsRecordStep ==
    ASSUME BillsInv, [Next]_vars
    PROVE  BlobFollowsRecord'
<1>. SUFFICES ASSUME ~ writesFail', NEW p \in Path, AllDated(p), blob'[p] # NoFile
              PROVE  NoOlderRecord(p, blob[p])'
  BY DEF BlobFollowsRecord, NoOlderRecord, AllDated
<1>1. ~ writesFail
  BY DEF Next, vars
<1>2. CASE blob'[p] = blob[p]
  <2>1. blob[p] \in Message /\ PathOf[blob[p]] = p /\ NoOlderRecord(p, blob[p])
    BY <1>1, <1>2 DEF BillsInv, FiledInPlace, BlobFollowsRecord, NoOlderRecord
  <2>. QED BY <1>2, <2>1, NoOlderRecordStays DEF NoOlderRecord
<1>3. ASSUME NEW w \in Worker, pc[w] = "blob", Target(w) = p, blob'[p] = msg[w],
             ~ is_from_newer(record[p], msg[w]), record' = record
      PROVE  NoOlderRecord(p, blob[p])'
  BY <1>1, <1>3, DocumentLands DEF NoOlderRecord
<1>. QED BY <1>2, <1>3, BlobStep DEF BlobSuccessor

\* Every step keeps the invariant.
LEMMA BillsInvStep == BillsInv /\ [Next]_vars => BillsInv'
<1>. SUFFICES ASSUME BillsInv, [Next]_vars PROVE BillsInv'
  OBVIOUS
<1>1. TypeOK' /\ BusyHasMessage'
  BY TypeStep DEF BillsInv
<1>. QED
  BY <1>1, FiledInPlaceStep, NewerFromFilingStep, StillNewerStep, NotYetScannedStep,
     RecordIsNoOlderStep, BlobFollowsRecordStep DEF BillsInv

\* The invariant holds throughout.
LEMMA BillsInvariant == Spec => []BillsInv
BY BillsInvInit, BillsInvStep, PTL DEF Spec

-----------------------------------------------------------------------------

\* Variables keep their types.
THEOREM BillsTypeCorrect == Spec => []TypeOK
BY BillsInvariant, PTL DEF BillsInv

(***************************************************************************)
(* Firefly is given a bill only if, when its record was filed, no newer    *)
(* one of the payee was on file on a dated path, however many workers      *)
(* replace the records while the scan reads them (bills.rs).               *)
(***************************************************************************)
THEOREM OnlyNewestIsRegistered == Spec => []RegisteredWasNewest
<1>1. BillsInv => RegisteredWasNewest
  BY DEF BillsInv, NotYetScanned, RegisteredWasNewest
<1>. QED BY <1>1, BillsInvariant, PTL

(***************************************************************************)
(* As long as records can be written, a document on a dated path belongs   *)
(* to no newer message than its record, and gives way to none that is      *)
(* older (bills.rs file_bill_blob).                                        *)
(***************************************************************************)
THEOREM DocumentsAreKept == Spec => DocumentsKept
<1>1. BillsInv => BlobFollowsRecord
  BY DEF BillsInv
<1>2. BillsInv /\ [Next]_vars =>
          [~ writesFail =>
              \A p \in Path :
                  AllDated(p) /\ blob'[p] # NoFile => ~ is_from_newer(blob[p], blob'[p])]_vars
  <2>. SUFFICES ASSUME BillsInv, [Next]_vars, ~ writesFail, NEW p \in Path, AllDated(p),
                       blob'[p] # NoFile
                PROVE  ~ is_from_newer(blob[p], blob'[p])
    OBVIOUS
  <2>1. CASE blob'[p] = blob[p]
    BY <2>1, NotNewerThanItself DEF BillsInv, FiledInPlace
  <2>2. ASSUME NEW w \in Worker, pc[w] = "blob", Target(w) = p, blob'[p] = msg[w],
               ~ is_from_newer(record[p], msg[w])
        PROVE  ~ is_from_newer(blob[p], blob'[p])
    <3>1. CASE blob[p] = NoFile
      BY <3>1, <2>2, RecordAssumption DEF is_from_newer, received_at_in, supersedes
    <3>. QED BY <2>2, <3>1, DocumentLands
  <2>. QED BY <2>1, <2>2, BlobStep DEF BlobSuccessor
<1>. QED BY <1>1, <1>2, BillsInvariant, PTL DEF Spec, DocumentsKept, BlobNeverRegresses
=============================================================================
