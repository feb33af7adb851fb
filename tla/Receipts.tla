------------------------------ MODULE Receipts ------------------------------
(***************************************************************************)
(* A receipt on its way to one of its three sinks (targets/receipts.rs):   *)
(* the record and the document beside it in a directory or on a WebDAV     *)
(* server, or the mail it came in forwarded to somebody                    *)
(* (targets/mail_forward.rs).                                              *)
(*                                                                         *)
(* A file is abstracted to the receipt it was filed from, and its place is *)
(* its order and the year of its directory.  The year is the receipt's     *)
(* own or, for one that names none, the current one, each time it is       *)
(* asked for.  A record is replaced in one step (RecordStore, DavFiling),  *)
(* and in a directory so is a document, under the lock that the records    *)
(* of that directory need.  Every mail is dated.                           *)
(***************************************************************************)
EXTENDS Naturals

CONSTANTS
    Clerk,          \* the workers
    Receipt,
    Order, OrderOf, \* OrderOf \in [Receipt -> Order \cup {NoOrder}]
    NoOrder,        \* a receipt without a merchant or an order number
    YearOf, NoYear, \* YearOf \in [Receipt -> {1, 2, NoYear}]
    DateOf,         \* [Receipt -> Nat]: receivedAt of its mail
    HasDocument,    \* those that come with a PDF
    How,            \* the configurations: [sink, faulty]
    NoReceipt,      \* no file, no job
    MaxSent         \* bound: mails forwarded

ReceiptsAssumption ==
    /\ OrderOf \in [Receipt -> Order \cup {NoOrder}]
    /\ YearOf \in [Receipt -> {1, 2, NoYear}]
    /\ DateOf \in [Receipt -> Nat]
    /\ HasDocument \subseteq Receipt
    /\ How \subseteq [sink : {"dir", "webdav", "forward"}, faulty : BOOLEAN]
    /\ NoReceipt \notin Receipt /\ NoOrder \notin Order /\ NoYear \notin {1, 2}
    /\ MaxSent \in Nat

VARIABLES
    records,    \* [Place -> Receipt \cup {NoReceipt}]
    documents,  \* [Place -> Receipt \cup {NoReceipt}]
    sent,       \* the number of mails forwarded
    year,       \* the current year
    at,         \* [Clerk -> where it is]
    filing,     \* [Clerk -> Receipt \cup {NoReceipt}]
    place,      \* [Clerk -> where its document goes]
    beside,     \* [Clerk -> what its GET of the document returned]
    how         \* the one of How that is used, for good

vars == <<records, documents, sent, year, at, filing, place, beside, how>>

Place == Order \X {1, 2}

\* json_target.rs derive_year, asked again for each file.
derive_year(r) == IF YearOf[r] = NoYear THEN year ELSE YearOf[r]

PlaceOf(r) == <<OrderOf[r], derive_year(r)>>

\* json_target.rs is_from_newer.
is_from_newer(file, r) == file # NoReceipt /\ DateOf[file] > DateOf[r]

Init ==
    /\ records = [p \in Place |-> NoReceipt]
    /\ documents = [p \in Place |-> NoReceipt]
    /\ sent = 0
    /\ year = 1
    /\ at = [c \in Clerk |-> "idle"]
    /\ filing = [c \in Clerk |-> NoReceipt]
    /\ place = [c \in Clerk |-> <<>>]
    /\ beside = [c \in Clerk |-> NoReceipt]
    /\ how \in How

Goto(c, where) == at' = [at EXCEPT ![c] = where]

Return(c) ==
    /\ Goto(c, "idle")
    /\ filing' = [filing EXCEPT ![c] = NoReceipt]
    /\ place' = [place EXCEPT ![c] = <<>>]
    /\ beside' = [beside EXCEPT ![c] = NoReceipt]

\* file_receipt is called, for the first time or when the mail is replayed.
Begin(c, r) ==
    /\ at[c] = "idle"
    /\ filing' = [filing EXCEPT ![c] = r]
    /\ Goto(c, "record")
    /\ UNCHANGED <<records, documents, sent, place, beside>>

\* Without a merchant or an order number there is no name to file under:
\* neither the record nor the document, and nothing is forwarded.
Nameless(c) ==
    /\ at[c] = "record"
    /\ OrderOf[filing[c]] = NoOrder
    /\ Return(c)
    /\ UNCHANGED <<records, documents, sent>>

\* The mail is handed to sendmail or an SMTP server, again for each replay;
\* the document is in it (file_receipt_blob).  An error may come after it
\* went out.
forward(c) ==
    /\ at[c] = "record" /\ how.sink = "forward"
    /\ OrderOf[filing[c]] # NoOrder
    /\ \/ sent < MaxSent /\ sent' = sent + 1
       \/ how.faulty /\ UNCHANGED sent
    /\ Return(c)
    /\ UNCHANGED <<records, documents>>

AfterRecord(c) ==
    IF filing[c] \in HasDocument
      THEN Goto(c, "pair") /\ UNCHANGED <<filing, place, beside>>
      ELSE Return(c)

\* replace_unless_newer; if the write fails, the document is filed anyway.
file_receipt(c) ==
    /\ at[c] = "record" /\ how.sink # "forward"
    /\ OrderOf[filing[c]] # NoOrder
    /\ \/ /\ ~ is_from_newer(records[PlaceOf(filing[c])], filing[c])
          /\ records' = [records EXCEPT ![PlaceOf(filing[c])] = filing[c]]
       \/ /\ is_from_newer(records[PlaceOf(filing[c])], filing[c]) \/ how.faulty
          /\ UNCHANGED records
    /\ AfterRecord(c)
    /\ UNCHANGED <<documents, sent>>

\* The place of the document is made out from the record again.
paired_name_from_json(c) ==
    /\ at[c] = "pair"
    /\ place' = [place EXCEPT ![c] = PlaceOf(filing[c])]
    /\ Goto(c, "document")
    /\ UNCHANGED <<records, documents, sent, filing, beside>>

\* Mutant: the document is filed without asking the record.
file_receipt_blob_Always(c) ==
    /\ at[c] = "document" /\ how.sink = "dir"
    /\ documents' = [documents EXCEPT ![place[c]] = filing[c]]
    /\ Return(c)
    /\ UNCHANGED <<records, sent>>

\* In a directory the record is asked and the document written under a lock.
file_receipt_blob(c) ==
    /\ at[c] = "document" /\ how.sink = "dir"
    /\ documents' = IF is_from_newer(records[place[c]], filing[c]) THEN documents
                    ELSE [documents EXCEPT ![place[c]] = filing[c]]
    /\ Return(c)
    /\ UNCHANGED <<records, sent>>

\* On a server the document is read, for its tag ...
GetDocument(c) ==
    /\ at[c] = "document" /\ how.sink = "webdav"
    /\ beside' = [beside EXCEPT ![c] = documents[place[c]]]
    /\ Goto(c, "ask")
    /\ UNCHANGED <<records, documents, sent, filing, place>>

\* ... then the record is asked ...
filed_from_newer(c) ==
    /\ at[c] = "ask"
    /\ IF is_from_newer(records[place[c]], filing[c])
         THEN Return(c)
         ELSE Goto(c, "put") /\ UNCHANGED <<filing, place, beside>>
    /\ UNCHANGED <<records, documents, sent>>

\* ... and the document is PUT if it is still as it was; else all over again.
PutDocument(c) ==
    /\ at[c] = "put"
    /\ IF documents[place[c]] = beside[c]
         THEN documents' = [documents EXCEPT ![place[c]] = filing[c]] /\ Return(c)
         ELSE Goto(c, "document") /\ UNCHANGED <<documents, filing, place, beside>>
    /\ UNCHANGED <<records, sent>>

\* The process dies, or the document cannot be written.
Fails(c) ==
    /\ at[c] # "idle"
    /\ Return(c)
    /\ UNCHANGED <<records, documents, sent>>

NewYear ==
    /\ year = 1
    /\ year' = 2
    /\ UNCHANGED <<records, documents, sent, at, filing, place, beside>>

File(c) ==
    \/ \E r \in Receipt : Begin(c, r)
    \/ Nameless(c) \/ forward(c)
    \/ file_receipt(c) \/ paired_name_from_json(c) \/ file_receipt_blob(c)
    \/ GetDocument(c) \/ filed_from_newer(c) \/ PutDocument(c)
    \/ Fails(c)

Next ==
    /\ \/ (\E c \in Clerk : File(c)) /\ UNCHANGED year
       \/ NewYear
    /\ UNCHANGED how

Spec == Init /\ [][Next]_vars

-----------------------------------------------------------------------------

\* A document of a receipt that names no year, once the year has turned: it
\* may have been filed into the new year and its record into the old.
Strayed(document) ==
    document # NoReceipt /\ year = 2 /\ YearOf[document] = NoYear

(***************************************************************************)
(* "When the record on file came from a newer message, the blob on file    *)
(* did too and is kept" (file_receipt_blob): in a directory and on a       *)
(* server, whoever dies where, no document is newer than the record beside *)
(* it or has none - unless a record could not be written, or the year has  *)
(* turned between a receipt that names none and its document.              *)
(***************************************************************************)
DocumentFollowsRecord ==
    \A p \in Place : documents[p] # NoReceipt =>
        \/ how.faulty
        \/ Strayed(documents[p])
        \/ records[p] # NoReceipt /\ ~ is_from_newer(documents[p], records[p])

(***************************************************************************)
(* No document gives way to an older one, on a server either, where record *)
(* and document are asked and written in four requests and without a lock. *)
(* With the exceptions above: a document that strayed into the new year    *)
(* has no record there to stand up for it.                                 *)
(***************************************************************************)
DocumentNeverRegresses ==
    [][~ how.faulty =>
          \A p \in Place :
              \/ documents'[p] = NoReceipt
              \/ Strayed(documents[p])
              \/ ~ is_from_newer(documents[p], documents'[p])]_vars

(***************************************************************************)
(* What lies beside a record is the document of that record's message, or  *)
(* of one before it, and the newest there was (the two above).             *)
(***************************************************************************)
DocumentsKept == []DocumentFollowsRecord /\ DocumentNeverRegresses
=============================================================================
