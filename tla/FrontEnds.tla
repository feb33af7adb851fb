------------------------------ MODULE FrontEnds ------------------------------
(***************************************************************************)
(* The ways mail comes in that keep no records of their own: a JMAP mailbox, *)
(* watched (JmapWatch); an MTA, by the milter protocol (Milter); and a     *)
(* Maildir, scanned (MaildirScan).  They share no state: a behaviour picks *)
(* one, and the others stay as they begin.  The milter is extended and the *)
(* others are instantiated.                                                *)
(***************************************************************************)
EXTENDS Milter

CONSTANTS
    Part,                                       \* those that are looked at
    MaxMessage, PageSize, Setup, MaxErrors,     \* see JmapWatch
    Id, About, Scans, Gone, MaxMoves            \* see MaildirScan

VARIABLES
    which,      \* the part that runs
    j_mailbox, j_marked, j_gone, j_reported, j_pc, j_skip, j_position,
    j_page, j_errors, j_ran, j_filed, j_setup,
    d_box, d_scan, d_stage, d_unlisted, d_todo, d_kept, d_given, d_moves,
    d_untouched

jvars == <<
    j_mailbox, j_marked, j_gone, j_reported, j_pc, j_skip, j_position,
    j_page, j_errors, j_ran, j_filed, j_setup>>
dvars == <<
    d_box, d_scan, d_stage, d_unlisted, d_todo, d_kept, d_given, d_moves,
    d_untouched>>

J == INSTANCE JmapWatch WITH
    mailbox <- j_mailbox, marked <- j_marked, gone <- j_gone,
    reported <- j_reported, pc <- j_pc, skip <- j_skip,
    position <- j_position, page <- j_page, errors <- j_errors,
    ran <- j_ran, filed <- j_filed, setup <- j_setup

D == INSTANCE MaildirScan WITH
    box <- d_box, scan <- d_scan, stage <- d_stage, unlisted <- d_unlisted,
    todo <- d_todo, kept <- d_kept, given <- d_given, moves <- d_moves,
    untouched <- d_untouched

frontends == <<which, jvars, vars, dvars>>

FrontEndsInit ==
    /\ which \in Part
    /\ J!Init
    /\ which # "jmap" => j_mailbox = {}
    /\ which # "jmap" => j_setup = CHOOSE s \in Setup : TRUE
    /\ Init
    /\ D!Init
    /\ which # "maildir" => d_box = [i \in Id |-> Gone]
    /\ which # "maildir" => d_scan = CHOOSE s \in Scans : TRUE

JmapWatchStep ==
    /\ which = "jmap"
    /\ J!Next
    /\ UNCHANGED <<which, vars, dvars>>

MilterStep ==
    /\ which = "milter"
    /\ Next
    /\ UNCHANGED <<which, jvars, dvars>>

MaildirScanStep ==
    /\ which = "maildir"
    /\ D!Next
    /\ UNCHANGED <<which, jvars, vars>>

FrontEndsNext ==
    \/ JmapWatchStep
    \/ MilterStep
    \/ MaildirScanStep

FrontEndsSpec == FrontEndsInit /\ [][FrontEndsNext]_frontends

(* Where it begins, a part asks for none of the steps it is fair to.       *)
FairFrontEnds == FrontEndsSpec /\ J!Fairness /\ Fairness

ASSUME FrontEndsAssumption ==
    /\ J!JmapAssumption
    /\ MilterAssumption
    /\ D!MaildirAssumption

-----------------------------------------------------------------------------
(* The properties of the other parts, stated and explained in their modules. *)

PassEnds == J!PassEnds
NothingMissed == J!NothingMissed
FailedStaysUnmarked == J!FailedStaysUnmarked
NothingOverlooked == D!NothingOverlooked
============================================================================
