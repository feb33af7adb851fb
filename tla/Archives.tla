------------------------------ MODULE Archives ------------------------------
(***************************************************************************)
(* What is filed from mail into an archive, one kind of artifact at a time: *)
(* tickets, receipts, reservations, the renaming of their archive, and     *)
(* parcels.  A behaviour picks the part it is about, and the others stay   *)
(* as they begin, so that the parts' states add up instead of multiplying. *)
(* The parcels are extended and the others instantiated.                   *)
(***************************************************************************)
EXTENDS Parcels

CONSTANTS
    Part,           \* the parts that are looked at
    None,           \* no file, no date, no year, nobody
    Corrupt,        \* a file that does not parse
    Holder, Ticket, Ext, ExtOf, TicketDate, TicketSetup,        \* Tickets
    Receipt, Order, OrderOf, YearOf, ReceiptDate, HasDocument,  \* Receipts,
    How, MaxSent,                                   \* whose clerks are Worker
    Planner, Booking, Leg, LegsOf, Complete, BookingDate, BookingSetup,
                                                                \* Reservations
    Indexer, IndexedLeg, OldName, Rank, Disk, LegMail, Company  \* Reindex

VARIABLES
    which,      \* the part that runs; the others stay as they begin
    t_sidecar, t_blob, t_lock, t_pc, t_job, t_found, t_setup,
    r_records, r_documents, r_sent, r_year, r_at, r_filing, r_place,
    r_beside, r_how,
    v_record, v_calendar, v_pc, v_msg, v_todo, v_leg, v_dropped, v_clean,
    v_revoked, v_setup,
    x_files, x_at, x_dry, x_paths, x_body, x_claimed, x_done, x_newest,
    x_foretold, x_company

tvars == <<
    t_sidecar, t_blob, t_lock, t_pc, t_job, t_found, t_setup>>
rvars == <<
    r_records, r_documents, r_sent, r_year, r_at, r_filing, r_place,
    r_beside, r_how>>
vvars == <<
    v_record, v_calendar, v_pc, v_msg, v_todo, v_leg, v_dropped, v_clean,
    v_revoked, v_setup>>
xvars == <<
    x_files, x_at, x_dry, x_paths, x_body, x_claimed, x_done, x_newest,
    x_foretold, x_company>>

T == INSTANCE Tickets WITH
    Worker <- Holder, DateOf <- TicketDate, Setup <- TicketSetup,
    NoFile <- None, NoTicket <- None, Nobody <- None, sidecar <- t_sidecar,
    blob <- t_blob, lock <- t_lock, pc <- t_pc, job <- t_job,
    found <- t_found, setup <- t_setup

R == INSTANCE Receipts WITH
    Clerk <- Worker, NoOrder <- None, NoYear <- None, DateOf <- ReceiptDate,
    NoReceipt <- None, records <- r_records, documents <- r_documents,
    sent <- r_sent, year <- r_year, at <- r_at, filing <- r_filing,
    place <- r_place, beside <- r_beside, how <- r_how

V == INSTANCE Reservations WITH
    Worker <- Planner, Message <- Booking, DateOf <- BookingDate,
    Setup <- BookingSetup, NoFile <- None, NoMessage <- None, NoLeg <- None,
    record <- v_record, calendar <- v_calendar, pc <- v_pc, msg <- v_msg,
    todo <- v_todo, leg <- v_leg, dropped <- v_dropped, clean <- v_clean,
    revoked <- v_revoked, setup <- v_setup

X == INSTANCE Reindex WITH
    Leg <- IndexedLeg, NoLeg <- None, NoDate <- None, NoFile <- None,
    Mail <- LegMail, files <- x_files, at <- x_at, dry <- x_dry,
    paths <- x_paths, body <- x_body, claimed <- x_claimed, done <- x_done,
    newest <- x_newest, foretold <- x_foretold, company <- x_company

\* What a part that does not run begins with.
ATicketSetup == CHOOSE s \in TicketSetup : TRUE
AHow == CHOOSE h \in How : TRUE
ABookingSetup == CHOOSE s \in BookingSetup : TRUE
ADisk == CHOOSE d \in Disk : TRUE
ACompany == CHOOSE c \in Company : TRUE

archives == <<which, tvars, rvars, vvars, xvars, vars>>

ArchivesInit ==
    /\ which \in Part
    /\ T!Init
    /\ which # "tickets" => t_setup = ATicketSetup
    /\ R!Init
    /\ which # "receipts" => r_how = AHow
    /\ V!Init
    /\ which # "reservations" => v_setup = ABookingSetup
    /\ X!Init
    /\ which # "reindex" => x_files = ADisk
    /\ which # "reindex" => x_company = ACompany
    /\ Init

TicketsStep ==
    /\ which = "tickets"
    /\ T!Next
    /\ UNCHANGED <<which, rvars, vvars, xvars, vars>>

ReceiptsStep ==
    /\ which = "receipts"
    /\ R!Next
    /\ UNCHANGED <<which, tvars, vvars, xvars, vars>>

ReservationsStep ==
    /\ which = "reservations"
    /\ V!Next
    /\ UNCHANGED <<which, tvars, rvars, xvars, vars>>

ReindexStep ==
    /\ which = "reindex"
    /\ X!Next
    /\ UNCHANGED <<which, tvars, rvars, vvars, vars>>

ParcelsStep ==
    /\ which = "parcels"
    /\ Next
    /\ UNCHANGED <<which, tvars, rvars, vvars, xvars>>

ArchivesNext ==
    \/ TicketsStep
    \/ ReceiptsStep
    \/ ReservationsStep
    \/ ReindexStep
    \/ ParcelsStep

ArchivesSpec == ArchivesInit /\ [][ArchivesNext]_archives

ASSUME ArchivesAssumption ==
    /\ T!TicketsAssumption
    /\ R!ReceiptsAssumption
    /\ V!ReservationsAssumption
    /\ X!ReindexAssumption
    /\ ParcelsAssumption

-----------------------------------------------------------------------------
(* The properties of the other parts, stated and explained in their modules. *)

TicketsAgree == T!TicketsAgree
DocumentsKept == R!DocumentsKept
CancelledForCause == V!CancelledForCause
ItineraryHasItsWay == V!ItineraryHasItsWay
CancelledInCalendar == V!CancelledInCalendar
NewestCopySurvives == X!NewestCopySurvives
RunDelivers == X!RunDelivers
NewerIsKept == X!NewerIsKept
=============================================================================
