------------------------------- MODULE Bills -------------------------------
(***************************************************************************)
(* A bill on its way: its JSON record, its registration with Firefly III   *)
(* and its companion blob (targets/bills.rs, targets/firefly.rs), in the   *)
(* order pipeline/mod.rs run files them.                                   *)
(*                                                                         *)
(* The record and the blob are each written in one step: RecordStore shows *)
(* that update_file is one.  What is left apart is what bills.rs leaves    *)
(* apart: the scan for a newer bill reads the records one at a time and    *)
(* without the lock, and the calls to Firefly come after it.               *)
(*                                                                         *)
(* A path is <year>/<payee>-<invoice>, so it has one payee.  Firefly keeps *)
(* one bill per payee (bills.rs) and is modelled from how firefly.rs uses  *)
(* it; a request that fails unanswered was applied (register) or was not   *)
(* (Skip).                                                                 *)
(***************************************************************************)
EXTENDS RecordDates

CONSTANTS
    Worker,
    Payee, PayeeOf,     \* PayeeOf \in [Path -> Payee]
    HasAmount,          \* messages whose bill has a price and a due date
    HasBlob,            \* messages that also carry the document
    MayFail,            \* {FALSE, TRUE}: also look at records that cannot be written
    NoMessage

ASSUME BillsAssumption ==
    /\ PayeeOf \in [Path -> Payee]
    /\ HasAmount \subseteq Message
    /\ HasBlob \subseteq Message
    /\ MayFail \subseteq BOOLEAN
    /\ NoMessage \notin Message

VARIABLES
    record,     \* [Path -> OnFile]: the .json files
    blob,       \* [Path -> Message \cup {NoFile}]: the documents beside them
    firefly,    \* [Payee -> Message \cup {NoFile}]: the bill Firefly holds
    pc,         \* [Worker -> Control]
    msg,        \* [Worker -> Message \cup {NoMessage}]
    unscanned,  \* [Worker -> SUBSET Path]: records still to look at
    exists,     \* [Worker -> BOOLEAN]: what find_existing answered
    newer,      \* history, [Worker -> SUBSET Path]: where a newer bill of the
                \* payee was on file when the worker filed its own
    writesFail  \* whether writing a record may fail, for good

vars == <<record, blob, firefly, pc, msg, unscanned, exists, newer, writesFail>>

Control == {"idle", "record", "list", "scan", "lookup", "send", "blob"}

Target(w) == PathOf[msg[w]]
PayeeOfBill(w) == PayeeOf[Target(w)]

\* What payee_has_newer_bill looks for in the record at p.
HasNewerBill(p, w) ==
    PayeeOf[p] = PayeeOfBill(w) /\ is_from_newer(record[p], msg[w])

Goto(w, where) == pc' = [pc EXCEPT ![w] = where]

-----------------------------------------------------------------------------

Init ==
    /\ record = [p \in Path |-> NoFile]
    /\ blob = [p \in Path |-> NoFile]
    /\ firefly = [y \in Payee |-> NoFile]
    /\ pc = [w \in Worker |-> "idle"]
    /\ msg = [w \in Worker |-> NoMessage]
    /\ unscanned = [w \in Worker |-> {}]
    /\ exists = [w \in Worker |-> FALSE]
    /\ newer = [w \in Worker |-> {}]
    /\ writesFail \in MayFail

\* A message whose extractor emitted a bill, for the first time or again.
Begin(w, m) ==
    /\ pc[w] = "idle"
    /\ msg' = [msg EXCEPT ![w] = m]
    /\ Goto(w, "record")
    /\ UNCHANGED <<record, blob, firefly, unscanned, exists, newer>>

\* file_bill: write_unless_newer writes the record.
write_unless_newer(w) ==
    /\ pc[w] = "record"
    /\ ~ is_from_newer(record[Target(w)], msg[w])
    /\ record' = [record EXCEPT ![Target(w)] = msg[w]]
    /\ newer' = [newer EXCEPT ![w] = {p \in Path : HasNewerBill(p, w)}]
    /\ Goto(w, "list")
    /\ UNCHANGED <<blob, firefly, msg, unscanned, exists>>

\* file_bill: the record on file is from a newer message, or the write fails;
\* either way the pipeline goes on to the blob.
KeepRecord(w) ==
    /\ pc[w] = "record"
    /\ writesFail \/ is_from_newer(record[Target(w)], msg[w])
    /\ Goto(w, "blob")
    /\ UNCHANGED <<record, blob, firefly, msg, unscanned, exists, newer>>

\* Mutant: only the record just written is looked at.
read_dir_OwnOnly(w) ==
    /\ pc[w] = "list"
    /\ unscanned' = [unscanned EXCEPT ![w] = {Target(w)}]
    /\ Goto(w, "scan")
    /\ UNCHANGED <<record, blob, firefly, msg, exists, newer>>

\* payee_has_newer_bill: list the year directories.  A file that appears in
\* the meantime is listed or not.
read_dir(w) ==
    /\ pc[w] = "list"
    /\ \E S \in SUBSET Path :
          /\ \A p \in Path : record[p] # NoFile => p \in S
          /\ unscanned' = [unscanned EXCEPT ![w] = S]
    /\ Goto(w, "scan")
    /\ UNCHANGED <<record, blob, firefly, msg, exists, newer>>

(***************************************************************************)
(* One iteration of payee_has_newer_bill: a newer bill of the same payee   *)
(* means Firefly is left alone.                                            *)
(***************************************************************************)
ScanRecord(w, p) ==
    /\ pc[w] = "scan"
    /\ p \in unscanned[w]
    /\ IF HasNewerBill(p, w)
         THEN /\ unscanned' = [unscanned EXCEPT ![w] = {}]
              /\ Goto(w, "blob")
         ELSE /\ unscanned' = [unscanned EXCEPT ![w] = @ \ {p}]
              /\ UNCHANGED pc
    /\ UNCHANGED <<record, blob, firefly, msg, exists, newer>>

\* register_with_firefly: nothing to register without an amount and a date.
ScanDone(w) ==
    /\ pc[w] = "scan"
    /\ unscanned[w] = {}
    /\ Goto(w, IF msg[w] \in HasAmount THEN "lookup" ELSE "blob")
    /\ UNCHANGED <<record, blob, firefly, msg, unscanned, exists, newer>>

\* firefly.rs find_existing.
find_existing(w) ==
    /\ pc[w] = "lookup"
    /\ exists' = [exists EXCEPT ![w] = firefly[PayeeOfBill(w)] # NoFile]
    /\ Goto(w, "send")
    /\ UNCHANGED <<record, blob, firefly, msg, unscanned, newer>>

\* firefly.rs update, or create, which is refused when somebody else created
\* the payee's bill in the meantime.
register(w) ==
    /\ pc[w] = "send"
    /\ IF exists[w] \/ firefly[PayeeOfBill(w)] = NoFile
         THEN firefly' = [firefly EXCEPT ![PayeeOfBill(w)] = msg[w]]
         ELSE UNCHANGED firefly
    /\ Goto(w, "blob")
    /\ UNCHANGED <<record, blob, msg, unscanned, exists, newer>>

\* The scan or a call to Firefly fails: best effort, the bill stays filed.
Skip(w) ==
    /\ pc[w] \in {"list", "scan", "lookup", "send"}
    /\ unscanned' = [unscanned EXCEPT ![w] = {}]
    /\ Goto(w, "blob")
    /\ UNCHANGED <<record, blob, firefly, msg, exists, newer>>

\* The worker is through with its message.
Done(w) ==
    /\ msg' = [msg EXCEPT ![w] = NoMessage]
    /\ unscanned' = [unscanned EXCEPT ![w] = {}]
    /\ exists' = [exists EXCEPT ![w] = FALSE]
    /\ newer' = [newer EXCEPT ![w] = {}]
    /\ Goto(w, "idle")

\* Mutant: the blob is written without asking the record.
file_bill_blob_Always(w) ==
    /\ pc[w] = "blob"
    /\ msg[w] \in HasBlob
    /\ blob' = [blob EXCEPT ![Target(w)] = msg[w]]
    /\ Done(w)
    /\ UNCHANGED <<record, firefly>>

\* file_bill_blob: the blob has no date, the record beside it decides.
file_bill_blob(w) ==
    /\ pc[w] = "blob"
    /\ msg[w] \in HasBlob
    /\ ~ is_from_newer(record[Target(w)], msg[w])
    /\ blob' = [blob EXCEPT ![Target(w)] = msg[w]]
    /\ Done(w)
    /\ UNCHANGED <<record, firefly>>

KeepBlob(w) ==
    /\ pc[w] = "blob"
    /\ msg[w] \in HasBlob
    /\ is_from_newer(record[Target(w)], msg[w])
    /\ Done(w)
    /\ UNCHANGED <<record, blob, firefly>>

NoBlob(w) ==
    /\ pc[w] = "blob"
    /\ msg[w] \notin HasBlob
    /\ Done(w)
    /\ UNCHANGED <<record, blob, firefly>>

\* The process dies, or the blob cannot be written.
Crash(w) ==
    /\ pc[w] # "idle"
    /\ Done(w)
    /\ UNCHANGED <<record, blob, firefly>>

Step(w) ==
    \/ write_unless_newer(w)
    \/ KeepRecord(w)
    \/ read_dir(w)
    \/ \E p \in Path : ScanRecord(w, p)
    \/ ScanDone(w)
    \/ find_existing(w)
    \/ register(w)
    \/ file_bill_blob(w)
    \/ KeepBlob(w)
    \/ NoBlob(w)

Next ==
    /\ \/ \E w \in Worker, m \in Message : Begin(w, m)
       \/ \E w \in Worker : Step(w) \/ Skip(w) \/ Crash(w)
    /\ UNCHANGED writesFail

Spec == Init /\ [][Next]_vars

-----------------------------------------------------------------------------

TypeOK ==
    /\ record \in [Path -> OnFile]
    /\ blob \in [Path -> Message \cup {NoFile}]
    /\ firefly \in [Payee -> Message \cup {NoFile}]
    /\ pc \in [Worker -> Control]
    /\ msg \in [Worker -> Message \cup {NoMessage}]
    /\ unscanned \in [Worker -> SUBSET Path]
    /\ exists \in [Worker -> BOOLEAN]
    /\ newer \in [Worker -> SUBSET Path]
    /\ writesFail \in MayFail

(***************************************************************************)
(* "An older invoice must not overwrite what a newer one put there"        *)
(* (bills.rs): a bill is registered only if, when its own record was       *)
(* filed, no newer bill of that payee was on file, under whichever invoice *)
(* or year, although the scan ran later, without the lock, while others    *)
(* replaced the records it was reading.  A newer bill that is filed after  *)
(* that may still be registered first, and is then overwritten; and so may *)
(* one whose record gave way to an undated one before the scan read it.    *)
(***************************************************************************)
RegisteredWasNewest ==
    \A w \in Worker :
        pc[w] \in {"lookup", "send"} =>
            \A p \in newer[w] : ~ AllDated(p)

(***************************************************************************)
(* A document never belongs to a newer message than the record beside it,  *)
(* in whatever order messages come and wherever a worker dies, provided    *)
(* that records can be written and are dated.                              *)
(***************************************************************************)
BlobFollowsRecord ==
    ~ writesFail =>
        \A p \in Path : AllDated(p) /\ blob[p] # NoFile =>
            /\ record[p] \in Message
            /\ ~ is_from_newer(blob[p], record[p])

(***************************************************************************)
(* No document gives way to an older one, provided that records can be     *)
(* written and are dated: the record is what dates the document            *)
(* (file_bill_blob).                                                       *)
(***************************************************************************)
BlobNeverRegresses ==
    [][~ writesFail =>
          \A p \in Path :
              AllDated(p) /\ blob'[p] # NoFile => ~ is_from_newer(blob[p], blob'[p])]_vars

(***************************************************************************)
(* What lies beside a record is the document of that record's message, or  *)
(* of one before it, and the newest there was (the two above).             *)
(***************************************************************************)
DocumentsKept == []BlobFollowsRecord /\ BlobNeverRegresses
=============================================================================
