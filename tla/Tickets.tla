------------------------------ MODULE Tickets ------------------------------
(***************************************************************************)
(* A ticket and its sidecar (targets/tickets.rs file_ticket): two files    *)
(* that have to agree.  The blob cannot say which message it came from, so *)
(* the sidecar's date orders the pair.  In a directory one lock covers     *)
(* both files; on a WebDAV server there is no lock, and the sidecar goes   *)
(* first.                                                                  *)
(*                                                                         *)
(* One slug is modelled: <slug>.<ext> for each extension, and the one      *)
(* <slug>.meta.json that all of them share.  A file is abstracted to the   *)
(* ticket it was filed from.  Every ticket is dated by its message; an     *)
(* undated one is never kept back and keeps nothing back.  Each file is    *)
(* replaced in one step (RecordStore), and an entity tag is strong and     *)
(* stands for the contents (DavFiling).                                    *)
(***************************************************************************)
EXTENDS Naturals

CONSTANTS
    Worker,
    Ticket,         \* ticket artifacts of that slug
    Ext, ExtOf,     \* ExtOf \in [Ticket -> Ext]
    DateOf,         \* [Ticket -> Nat]: receivedAt of its message
    Setup,          \* the configurations to look at: TicketSink::Webdav or
                    \* LocalDir, and whether processes die, writes and
                    \* requests fail
    NoFile,
    NoTicket,
    Nobody          \* the directory is not locked

TicketsAssumption ==
    /\ ExtOf \in [Ticket -> Ext]
    /\ DateOf \in [Ticket -> Nat]
    /\ Setup \subseteq [remote : BOOLEAN, faulty : BOOLEAN]
    /\ NoFile \notin Ticket
    /\ NoTicket \notin Ticket
    /\ Nobody \notin Worker

VARIABLES
    sidecar,    \* Ticket \cup {NoFile}
    blob,       \* [Ext -> Ticket \cup {NoFile}]
    lock,       \* Worker \cup {Nobody}
    pc,         \* [Worker -> Control]
    job,        \* [Worker -> Ticket \cup {NoTicket}]
    found,      \* [Worker -> Ticket \cup {NoFile}]: what its last GET returned
    setup       \* the one of Setup that is used, for good

vars == <<sidecar, blob, lock, pc, job, found, setup>>
files == <<sidecar, blob>>

Control == {"idle", "start", "locked", "sidecar", "merge", "blob", "check", "put"}

\* json_target.rs is_from_newer, of a sidecar and a ticket to be filed.
is_from_newer(f, t) == f # NoFile /\ DateOf[f] > DateOf[t]

Target(w) == ExtOf[job[w]]

Goto(w, where) == pc' = [pc EXCEPT ![w] = where]

Init ==
    /\ sidecar = NoFile
    /\ blob = [e \in Ext |-> NoFile]
    /\ lock = Nobody
    /\ pc = [w \in Worker |-> "idle"]
    /\ job = [w \in Worker |-> NoTicket]
    /\ found = [w \in Worker |-> NoFile]
    /\ setup \in Setup

\* file_ticket is called, for the first time or when the mail is replayed.
Begin(w, t) ==
    /\ pc[w] = "idle"
    /\ job' = [job EXCEPT ![w] = t]
    /\ Goto(w, "start")
    /\ UNCHANGED <<sidecar, blob, lock, found>>

\* file_ticket returns, and with it goes its lock.
Return(w) ==
    /\ job' = [job EXCEPT ![w] = NoTicket]
    /\ found' = [found EXCEPT ![w] = NoFile]
    /\ lock' = IF lock = w THEN Nobody ELSE lock
    /\ Goto(w, "idle")

-----------------------------------------------------------------------------
(***************************************************************************)
(* TicketSink::LocalDir                                                    *)
(***************************************************************************)

lock_dir(w) ==
    /\ ~ setup.remote
    /\ pc[w] = "start"
    /\ lock = Nobody
    /\ lock' = w
    /\ Goto(w, "locked")
    /\ UNCHANGED <<sidecar, blob, job, found>>

\* The sidecar is from a newer message: the ticket on file stays.
log_kept(w) ==
    /\ pc[w] = "locked"
    /\ is_from_newer(sidecar, job[w])
    /\ Return(w)
    /\ UNCHANGED files

\* The blob is written first ...
WriteBlob(w) ==
    /\ pc[w] = "locked"
    /\ ~ is_from_newer(sidecar, job[w])
    /\ blob' = [blob EXCEPT ![Target(w)] = job[w]]
    /\ Goto(w, "sidecar")
    /\ UNCHANGED <<sidecar, lock, job, found>>

\* ... and the sidecar after it.
WriteSidecar(w) ==
    /\ pc[w] = "sidecar"
    /\ sidecar' = job[w]
    /\ Return(w)
    /\ UNCHANGED blob

-----------------------------------------------------------------------------
(***************************************************************************)
(* TicketSink::Webdav                                                      *)
(***************************************************************************)

\* WebdavSink::update of the sidecar reads it.
GetSidecar(w) ==
    /\ setup.remote
    /\ pc[w] = "start"
    /\ found' = [found EXCEPT ![w] = sidecar]
    /\ Goto(w, "merge")
    /\ UNCHANGED <<sidecar, blob, lock, job>>

\* replace_unless_newer keeps the sidecar, and the blob is not looked at.
KeepSidecar(w) ==
    /\ pc[w] = "merge"
    /\ is_from_newer(found[w], job[w])
    /\ Return(w)
    /\ UNCHANGED files

\* Mutant: the sidecar is PUT unconditionally.
PutSidecar_Unconditional(w) ==
    /\ pc[w] = "merge"
    /\ ~ is_from_newer(found[w], job[w])
    /\ sidecar' = job[w]
    /\ Goto(w, "blob")
    /\ UNCHANGED <<blob, lock, job, found>>

\* The sidecar is PUT if it is still as it was read; else it is read again.
PutSidecar(w) ==
    /\ pc[w] = "merge"
    /\ ~ is_from_newer(found[w], job[w])
    /\ IF sidecar = found[w]
         THEN sidecar' = job[w] /\ Goto(w, "blob")
         ELSE UNCHANGED sidecar /\ Goto(w, "start")
    /\ UNCHANGED <<blob, lock, job, found>>

\* WebdavSink::update of the blob reads it, for its tag ...
GetBlob(w) ==
    /\ pc[w] = "blob"
    /\ found' = [found EXCEPT ![w] = blob[Target(w)]]
    /\ Goto(w, "check")
    /\ UNCHANGED <<sidecar, blob, lock, job>>

\* ... and its merge asks the sidecar again.
filed_from_newer(w) ==
    /\ pc[w] = "check"
    /\ IF is_from_newer(sidecar, job[w])
         THEN Return(w)
         ELSE Goto(w, "put") /\ UNCHANGED <<lock, job, found>>
    /\ UNCHANGED files

\* The blob is PUT if it is still as it was read; else it is read again.
PutBlob(w) ==
    /\ pc[w] = "put"
    /\ IF blob[Target(w)] = found[w]
         THEN blob' = [blob EXCEPT ![Target(w)] = job[w]] /\ Return(w)
         ELSE Goto(w, "blob") /\ UNCHANGED <<blob, lock, job, found>>
    /\ UNCHANGED sidecar

-----------------------------------------------------------------------------

\* The process dies, a write or a request fails, or the rounds of GET and PUT
\* are used up.
Fail(w) ==
    /\ setup.faulty
    /\ pc[w] # "idle"
    /\ Return(w)
    /\ UNCHANGED files

Local(w) == lock_dir(w) \/ log_kept(w) \/ WriteBlob(w) \/ WriteSidecar(w)

Webdav(w) ==
    \/ GetSidecar(w) \/ KeepSidecar(w) \/ PutSidecar(w)
    \/ GetBlob(w) \/ filed_from_newer(w) \/ PutBlob(w)

Next ==
    /\ \/ \E w \in Worker, t \in Ticket : Begin(w, t)
       \/ \E w \in Worker : Local(w) \/ Webdav(w) \/ Fail(w)
    /\ UNCHANGED setup

Spec == Init /\ [][Next]_vars

-----------------------------------------------------------------------------

TypeOK ==
    /\ sidecar \in Ticket \cup {NoFile}
    /\ blob \in [Ext -> Ticket \cup {NoFile}]
    /\ lock \in Worker \cup {Nobody}
    /\ pc \in [Worker -> Control]
    /\ job \in [Worker -> Ticket \cup {NoTicket}]
    /\ found \in [Worker -> Ticket \cup {NoFile}]
    /\ setup \in Setup

(***************************************************************************)
(* The ticket on file gives way only to one that is not older (tickets.rs, *)
(* module documentation): for a directory because of the lock, for a       *)
(* WebDAV server because of the order of four requests and two tags, even  *)
(* if workers die.  Where one dies in a directory, nothing dates the blob  *)
(* it left behind.                                                         *)
(***************************************************************************)
TicketNeverRegresses ==
    [][setup.remote \/ ~ setup.faulty =>
          \A e \in Ext :
              blob'[e] # NoFile => ~ is_from_newer(blob[e], blob'[e])]_vars

(***************************************************************************)
(* "One lock over both files, so they can't end up from different          *)
(* messages" (file_ticket): with nobody at work in the directory, the      *)
(* sidecar describes the blob it names - unless a worker died or failed    *)
(* between the two writes, which the lock does not undo.                   *)
(***************************************************************************)
PairAgrees ==
    ~ setup.remote /\ ~ setup.faulty /\ lock = Nobody /\ sidecar # NoFile =>
        blob[ExtOf[sidecar]] = sidecar

(***************************************************************************)
(* Even when a worker dies between the two files, the sidecar in a         *)
(* directory never describes a blob that is missing or older than it says: *)
(* the message that was interrupted is not kept back when it is replayed.  *)
(***************************************************************************)
BlobBacksSidecar ==
    ~ setup.remote /\ sidecar # NoFile =>
        /\ blob[ExtOf[sidecar]] # NoFile
        /\ DateOf[blob[ExtOf[sidecar]]] >= DateOf[sidecar]

(***************************************************************************)
(* On a WebDAV server the sidecar "carries the date", so it is never older *)
(* than a blob it vouches for, even when a worker dies between the two.    *)
(***************************************************************************)
SidecarVouches ==
    setup.remote =>
        \A e \in Ext : blob[e] # NoFile =>
            sidecar # NoFile /\ DateOf[sidecar] >= DateOf[blob[e]]

(***************************************************************************)
(* What a sidecar says of the blobs beside it can be relied on, and        *)
(* nothing newer is lost for it (the four above).                          *)
(***************************************************************************)
TicketsAgree ==
    /\ [](PairAgrees /\ BlobBacksSidecar /\ SidecarVouches)
    /\ TicketNeverRegresses
=============================================================================
