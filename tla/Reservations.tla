---------------------------- MODULE Reservations ----------------------------
(***************************************************************************)
(* A booking whose itinerary changes (targets/reservations.rs, and the     *)
(* reservation part of pipeline/router.rs and pipeline/mod.rs run): each   *)
(* mail files the calendar events of its legs, then their records, and a   *)
(* mail that lists the complete itinerary then cancels the archived legs   *)
(* it no longer lists, in the archive and after that in the calendar.      *)
(*                                                                         *)
(* One booking is modelled, its legs filed under their flight or train     *)
(* number, so a leg is both a record's path and an event's UID.  A record  *)
(* or an event is abstracted to its date and whether it is cancelled.      *)
(* Every mail is dated: without a date nothing is ever cancelled.          *)
(***************************************************************************)
EXTENDS Naturals

CONSTANTS
    Worker,
    Message,
    Leg,
    LegsOf,     \* [Message -> SUBSET Leg]: the legs a mail lists
    Complete,   \* mails that list the complete itinerary
    DateOf,     \* [Message -> Nat]
    Setup,      \* the ways to run the program that are looked at: how many
                \* workers at a time, and whether processes die and files and
                \* events fail to be written
    NoFile,
    NoMessage,
    NoLeg

Entry == [date : Nat, cancelled : BOOLEAN]

ReservationsAssumption ==
    /\ LegsOf \in [Message -> SUBSET Leg]
    /\ Complete \subseteq Message
    /\ DateOf \in [Message -> Nat]
    /\ Setup \subseteq [crew : SUBSET Worker, faulty : BOOLEAN]
    /\ NoFile \notin Entry
    /\ NoMessage \notin Message
    /\ NoLeg \notin Leg

VARIABLES
    record,     \* [Leg -> Entry \cup {NoFile}]: the reservations directory
    calendar,   \* [Leg -> Entry \cup {NoFile}]: the event sink
    pc,         \* [Worker -> Control]
    msg,        \* [Worker -> Message \cup {NoMessage}]
    todo,       \* [Worker -> SUBSET Leg]: legs of this stage still to do
    leg,        \* [Worker -> Leg \cup {NoLeg}]: the leg about to be cancelled
    dropped,    \* [Worker -> SUBSET Leg]: the legs this mail has cancelled
    clean,      \* history, [Worker -> BOOLEAN]: nothing failed so far
    revoked,    \* history, [Leg -> Nat]: the last mail that cancelled the leg
    setup       \* the one of Setup that is used, for good

vars == <<record, calendar, pc, msg, todo, leg, dropped, clean, revoked, setup>>

Control == {"idle", "events", "records", "list", "scan", "cancel", "recall"}

Dates == {DateOf[m] : m \in Message}

Booked(m) == [date |-> DateOf[m], cancelled |-> FALSE]
Cancelled(m) == [date |-> DateOf[m], cancelled |-> TRUE]

\* sink.rs supersedes, for what is on file and a mail's date.
supersedes(e, d) == e # NoFile /\ e.date > d

\* An event or a record that is written unless the one there is newer.
WriteUnlessNewer(store, l, e) ==
    IF supersedes(store[l], e.date) THEN store ELSE [store EXCEPT ![l] = e]

Goto(w, where) == pc' = [pc EXCEPT ![w] = where]
Drop(w, l) == todo' = [todo EXCEPT ![w] = @ \ {l}]

-----------------------------------------------------------------------------

Init ==
    /\ record = [l \in Leg |-> NoFile]
    /\ calendar = [l \in Leg |-> NoFile]
    /\ pc = [w \in Worker |-> "idle"]
    /\ msg = [w \in Worker |-> NoMessage]
    /\ todo = [w \in Worker |-> {}]
    /\ leg = [w \in Worker |-> NoLeg]
    /\ dropped = [w \in Worker |-> {}]
    /\ clean = [w \in Worker |-> TRUE]
    /\ revoked = [l \in Leg |-> 0]
    /\ setup \in Setup

\* A mail whose extractor emitted the booking, for the first time or again.
Begin(w, m) ==
    /\ w \in setup.crew
    /\ pc[w] = "idle"
    /\ msg' = [msg EXCEPT ![w] = m]
    /\ todo' = [todo EXCEPT ![w] = LegsOf[m]]
    /\ Goto(w, "events")
    /\ UNCHANGED <<record, calendar, leg, dropped, clean, revoked>>

\* file_reservation_artifact, one leg: file_single into the event sink.
file_single(w, l) ==
    /\ pc[w] = "events"
    /\ l \in todo[w]
    /\ calendar' = WriteUnlessNewer(calendar, l, Booked(msg[w]))
    /\ Drop(w, l)
    /\ UNCHANGED <<record, pc, msg, leg, dropped, clean, revoked>>

EventsDone(w) ==
    /\ pc[w] = "events"
    /\ todo[w] = {}
    /\ todo' = [todo EXCEPT ![w] = LegsOf[msg[w]]]
    /\ Goto(w, "records")
    /\ UNCHANGED <<record, calendar, msg, leg, dropped, clean, revoked>>

\* file_reservation, one leg: file_one, under the directory's lock.
file_one(w, l) ==
    /\ pc[w] = "records"
    /\ l \in todo[w]
    /\ record' = WriteUnlessNewer(record, l, Booked(msg[w]))
    /\ Drop(w, l)
    /\ UNCHANGED <<calendar, pc, msg, leg, dropped, clean, revoked>>

\* One leg cannot be written: the others still are.
FailLeg(w, l) ==
    /\ setup.faulty
    /\ pc[w] \in {"events", "records", "recall"}
    /\ l \in todo[w]
    /\ clean' = [clean EXCEPT ![w] = FALSE]
    /\ Drop(w, l)
    /\ UNCHANGED <<record, calendar, pc, msg, leg, dropped, revoked>>

RecordsDone(w) ==
    /\ pc[w] = "records"
    /\ todo[w] = {}
    /\ Goto(w, "list")
    /\ UNCHANGED <<record, calendar, msg, todo, leg, dropped, clean, revoked>>

\* The worker is through with its mail, or dies.
Done(w) ==
    /\ msg' = [msg EXCEPT ![w] = NoMessage]
    /\ todo' = [todo EXCEPT ![w] = {}]
    /\ leg' = [leg EXCEPT ![w] = NoLeg]
    /\ dropped' = [dropped EXCEPT ![w] = {}]
    /\ clean' = [clean EXCEPT ![w] = TRUE]
    /\ Goto(w, "idle")

\* cancel_superseded_legs: a mail about one leg cancels nothing.
Incomplete(w) ==
    /\ pc[w] = "list"
    /\ msg[w] \notin Complete
    /\ Done(w)
    /\ UNCHANGED <<record, calendar, revoked>>

\* archived_records: a record that appears meanwhile is listed or not.
archived_records(w) ==
    /\ pc[w] = "list"
    /\ msg[w] \in Complete
    /\ \E S \in SUBSET Leg :
          /\ \A l \in Leg : record[l] # NoFile => l \in S
          /\ todo' = [todo EXCEPT ![w] = S]
    /\ Goto(w, "scan")
    /\ UNCHANGED <<record, calendar, msg, leg, dropped, clean, revoked>>

\* Whether cancel_superseded_legs cancels leg l for mail m, as it reads it.
Superseded(l, m) ==
    /\ record[l] # NoFile
    /\ ~ record[l].cancelled
    /\ record[l].date < DateOf[m]
    /\ l \notin LegsOf[m]

\* A record that stays as it is.
KeepLeg(w, l) ==
    /\ pc[w] = "scan"
    /\ l \in todo[w]
    /\ ~ Superseded(l, msg[w])
    /\ Drop(w, l)
    /\ UNCHANGED <<record, calendar, pc, msg, leg, dropped, clean, revoked>>

\* Mutant: the first leg to cancel ends the scan.
ReadLeg_OneOnly(w, l) ==
    /\ pc[w] = "scan"
    /\ l \in todo[w]
    /\ Superseded(l, msg[w])
    /\ leg' = [leg EXCEPT ![w] = l]
    /\ todo' = [todo EXCEPT ![w] = {}]
    /\ Goto(w, "cancel")
    /\ UNCHANGED <<record, calendar, msg, dropped, clean, revoked>>

\* A record that is to be cancelled: it has been read, without the lock.
ReadLeg(w, l) ==
    /\ pc[w] = "scan"
    /\ l \in todo[w]
    /\ Superseded(l, msg[w])
    /\ leg' = [leg EXCEPT ![w] = l]
    /\ Drop(w, l)
    /\ Goto(w, "cancel")
    /\ UNCHANGED <<record, calendar, msg, dropped, clean, revoked>>

\* Mutant: the cancelled record keeps the date it was filed with.
write_atomic_KeepsDate(w) ==
    /\ pc[w] = "cancel"
    /\ record' = [record EXCEPT ![leg[w]].cancelled = TRUE]
    /\ revoked' = [revoked EXCEPT ![leg[w]] = DateOf[msg[w]]]
    /\ dropped' = [dropped EXCEPT ![w] = @ \cup {leg[w]}]
    /\ leg' = [leg EXCEPT ![w] = NoLeg]
    /\ Goto(w, "scan")
    /\ UNCHANGED <<calendar, msg, todo, clean>>

\* The cancelled record is written, and dated by the mail that dropped it.
write_atomic(w) ==
    /\ pc[w] = "cancel"
    /\ record' = [record EXCEPT ![leg[w]] = Cancelled(msg[w])]
    /\ revoked' = [revoked EXCEPT ![leg[w]] = DateOf[msg[w]]]
    /\ dropped' = [dropped EXCEPT ![w] = @ \cup {leg[w]}]
    /\ leg' = [leg EXCEPT ![w] = NoLeg]
    /\ Goto(w, "scan")
    /\ UNCHANGED <<calendar, msg, todo, clean>>

\* cancel_superseded_legs returns what it cancelled.
ScanDone(w) ==
    /\ pc[w] = "scan"
    /\ todo[w] = {}
    /\ todo' = [todo EXCEPT ![w] = dropped[w]]
    /\ Goto(w, "recall")
    /\ UNCHANGED <<record, calendar, msg, leg, dropped, clean, revoked>>

\* router.rs cancel_superseded_legs: the cancelled legs' events.
RecallEvent(w, l) ==
    /\ pc[w] = "recall"
    /\ l \in todo[w]
    /\ calendar' = WriteUnlessNewer(calendar, l, Cancelled(msg[w]))
    /\ Drop(w, l)
    /\ UNCHANGED <<record, pc, msg, leg, dropped, clean, revoked>>

Finish(w) ==
    /\ pc[w] = "recall"
    /\ todo[w] = {}
    /\ Done(w)
    /\ UNCHANGED <<record, calendar, revoked>>

\* The process dies, or the scan fails and its result with it.
Abort(w) ==
    /\ setup.faulty
    /\ pc[w] # "idle"
    /\ Done(w)
    /\ UNCHANGED <<record, calendar, revoked>>

Step(w) ==
    \/ \E l \in Leg : file_single(w, l) \/ file_one(w, l) \/ FailLeg(w, l)
    \/ EventsDone(w)
    \/ RecordsDone(w)
    \/ Incomplete(w)
    \/ archived_records(w)
    \/ \E l \in Leg : KeepLeg(w, l) \/ ReadLeg(w, l) \/ RecallEvent(w, l)
    \/ write_atomic(w)
    \/ ScanDone(w)
    \/ Finish(w)

Next ==
    /\ \/ \E w \in Worker, m \in Message : Begin(w, m)
       \/ \E w \in Worker : Step(w) \/ Abort(w)
    /\ UNCHANGED setup

Spec == Init /\ [][Next]_vars

-----------------------------------------------------------------------------

TypeOK ==
    /\ record \in [Leg -> [date : Dates, cancelled : BOOLEAN] \cup {NoFile}]
    /\ calendar \in [Leg -> [date : Dates, cancelled : BOOLEAN] \cup {NoFile}]
    /\ pc \in [Worker -> Control]
    /\ msg \in [Worker -> Message \cup {NoMessage}]
    /\ todo \in [Worker -> SUBSET Leg]
    /\ leg \in [Worker -> Leg \cup {NoLeg}]
    /\ dropped \in [Worker -> SUBSET Leg]
    /\ clean \in [Worker -> BOOLEAN]
    /\ revoked \in [Leg -> Dates \cup {0}]
    /\ setup \in Setup

\* One worker at a time.
Sequential == \A v, w \in setup.crew : v = w

(***************************************************************************)
(* "Only legs filed from older mail are touched" (reservations.rs          *)
(* cancel_superseded_legs): no step of a lone worker replaces a leg's      *)
(* record by one of an earlier date.  With others about it can, since the  *)
(* record is replaced outside the lock, some time after it was read.       *)
(***************************************************************************)
OnlyOlderLegsTouched ==
    [][Sequential =>
          \A l \in Leg : record'[l] # record[l] =>
              ~ supersedes(record[l], record'[l].date)]_vars

(***************************************************************************)
(* A cancelled leg stays cancelled until a mail that is no older than the  *)
(* one that cancelled it books it again: "replaying the original           *)
(* confirmation doesn't put the leg back" (reservations.rs), however many  *)
(* workers are about.                                                      *)
(***************************************************************************)
StaysCancelled ==
    \A l \in Leg : record[l] # NoFile /\ ~ record[l].cancelled =>
        record[l].date >= revoked[l]

(***************************************************************************)
(* A leg is cancelled only in the name of a complete itinerary that does   *)
(* not list it, whatever other mails are being filed at the time.          *)
(***************************************************************************)
CancelledOnPurpose ==
    \A l \in Leg : record[l] # NoFile /\ record[l].cancelled =>
        \E m \in Complete : l \notin LegsOf[m] /\ DateOf[m] = record[l].date

(***************************************************************************)
(* A leg is cancelled for a reason, and booked again only for one (the two *)
(* above).                                                                 *)
(***************************************************************************)
CancelledForCause == StaysCancelled /\ CancelledOnPurpose

(***************************************************************************)
(* When a lone worker has filed a complete itinerary without a failure, no *)
(* leg that it does not list is booked any more, unless newer mail booked  *)
(* it - also when an earlier attempt at the same mail died half-way.       *)
(***************************************************************************)
ItineraryHonoured ==
    [][Sequential =>
          \A w \in Worker : Finish(w) /\ clean[w] =>
              \A l \in Leg \ LegsOf[msg[w]] :
                  \/ record[l] = NoFile
                  \/ record[l].cancelled
                  \/ record[l].date >= DateOf[msg[w]]]_vars

(***************************************************************************)
(* As long as nothing ever fails, a leg that is cancelled in the archive   *)
(* on a mail's account is cancelled in the calendar when the mail is done. *)
(***************************************************************************)
CancelledUnlessFaulty ==
    [][Sequential /\ ~ setup.faulty =>
          \A w \in Worker : Finish(w) =>
              \A l \in Leg : record[l] = Cancelled(msg[w]) =>
                  calendar[l] = NoFile \/ calendar[l].cancelled]_vars

(***************************************************************************)
(* A complete itinerary has its way with the legs of its booking: those it *)
(* no longer lists are cancelled, in the calendar too as long as nothing   *)
(* fails, and no leg that newer mail filed is touched.                     *)
(***************************************************************************)
ItineraryHasItsWay ==
    ItineraryHonoured /\ CancelledUnlessFaulty /\ OnlyOlderLegsTouched

(***************************************************************************)
(* "Cancel the archived legs a complete itinerary no longer lists, and     *)
(* mark their calendar events cancelled" (router.rs): when such a mail has *)
(* been filed without a failure, the legs cancelled on its account are     *)
(* cancelled in the calendar too, whatever went wrong before.              *)
(***************************************************************************)
CancelledInCalendar ==
    [][\A w \in Worker : Finish(w) /\ clean[w] =>
          \A l \in Leg : record[l] = Cancelled(msg[w]) =>
              calendar[l] = NoFile \/ calendar[l].cancelled]_vars
=============================================================================
