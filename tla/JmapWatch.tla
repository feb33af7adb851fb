----------------------------- MODULE JmapWatch -----------------------------
(***************************************************************************)
(* jmap-watch (jmap_watch.rs): run the pipeline over the messages of a     *)
(* mailbox that do not carry the seen keyword, page by page and oldest     *)
(* first, mark each with the keyword, and wait for the server to report a  *)
(* change.  Nothing is stored but the keywords, which are the server's.    *)
(*                                                                         *)
(* Messages are numbered by receivedAt, the order the query sorts by;      *)
(* they arrive, and are moved away, in any order.  The pipeline is reduced *)
(* to whether everything it extracted was filed: an extractor or a sink    *)
(* may fail, and pipeline::run returns Ok all the same.                    *)
(***************************************************************************)
EXTENDS Naturals, FiniteSets, FiniteSetsExt

CONSTANTS
    MaxMessage,     \* bound: messages are 1..MaxMessage
    PageSize,       \* max_objects_in_get of the session
    Setup,          \* the options to look at: --dry-run, and --once or not
    MaxErrors       \* bound: requests that fail

Email == 1 .. MaxMessage

JmapAssumption ==
    /\ MaxMessage \in Nat
    /\ PageSize \in Nat \ {0}
    /\ Setup \subseteq [dry_run : BOOLEAN, once : BOOLEAN]
    /\ MaxErrors \in Nat

VARIABLES
    mailbox,    \* messages that are in the mailbox
    marked,     \* messages with the keyword
    gone,       \* messages that were moved away or destroyed
    reported,   \* the event source holds a StateChange for Email
    pc,
    skip,       \* given up on, or looked at, in this run of the program
    position,   \* where the next query starts
    page,       \* messages of the current page still to do
    errors,     \* requests that failed so far
    ran,        \* history: messages the pipeline was run on
    filed,      \* history: messages everything was filed of
    setup       \* the one of Setup that is used, for good

vars == <<mailbox, marked, gone, reported, pc, skip, position, page, errors, ran, filed,
          setup>>
server == <<mailbox, marked, gone>>
history == <<ran, filed>>

Control == {"down", "subscribe", "query", "get", "next", "mark", "wait"}

\* A pass of process_pending.
Passing == {"query", "get", "next", "mark"}

Init ==
    /\ mailbox \in SUBSET Email
    /\ marked = {} /\ gone = {}
    /\ reported = FALSE
    /\ pc = "down"
    /\ skip = {} /\ position = 0 /\ page = {} /\ errors = 0
    /\ ran = {} /\ filed = {}
    /\ setup \in Setup

\* A message arrives, or is moved here from another mailbox.
Arrive(m) ==
    /\ m \notin mailbox \cup gone
    /\ mailbox' = mailbox \cup {m}
    /\ reported' = TRUE
    /\ UNCHANGED <<marked, gone, pc, skip, position, page, errors, ran, filed, setup>>

\* The user moves or deletes a message.
Leave(m) ==
    /\ m \in mailbox
    /\ mailbox' = mailbox \ {m}
    /\ gone' = gone \cup {m}
    /\ reported' = TRUE
    /\ UNCHANGED <<marked, pc, skip, position, page, errors, ran, filed, setup>>

Start ==
    /\ pc = "down"
    /\ pc' = IF setup.once THEN "query" ELSE "subscribe"
    /\ skip' = {} /\ position' = 0 /\ page' = {}
    /\ UNCHANGED <<reported, errors, ran, filed, setup>>
    /\ UNCHANGED server

\* Mutant: the position of the last pass is kept.
event_source_KeepsPosition ==
    /\ pc = "subscribe"
    /\ reported' = FALSE
    /\ pc' = "query"
    /\ UNCHANGED <<skip, position, page, errors, ran, filed, setup>>
    /\ UNCHANGED server

\* watch_once subscribes, and the pass starts after that.
event_source ==
    /\ pc = "subscribe"
    /\ reported' = FALSE
    /\ pc' = "query"
    /\ position' = 0
    /\ UNCHANGED <<skip, page, errors, ran, filed, setup>>
    /\ UNCHANGED server

-----------------------------------------------------------------------------
(***************************************************************************)
(* process_pending                                                         *)
(***************************************************************************)

\* Email/query of a set, in the order of receivedAt, from position on.
PageOf(S) ==
    LET rank(m) == Cardinality({k \in S : k < m})
    IN {m \in S : rank(m) >= position /\ rank(m) < position + PageSize}

Unmarked == mailbox \ marked

query_email ==
    /\ pc = "query"
    /\ page' = PageOf(Unmarked)
    /\ pc' = IF page' # {} THEN "get" ELSE IF setup.once THEN "down" ELSE "wait"
    /\ UNCHANGED <<reported, skip, position, errors, ran, filed, setup>>
    /\ UNCHANGED server

\* Email/get leaves out what was destroyed since the query.
get_email ==
    /\ pc = "get"
    /\ \E destroyed \in SUBSET (page \cap gone) : page' = page \ destroyed
    /\ pc' = "next"
    /\ UNCHANGED <<reported, skip, position, errors, ran, filed, setup>>
    /\ UNCHANGED server

PageDone ==
    /\ pc = "next"
    /\ page = {}
    /\ pc' = "query"
    /\ UNCHANGED <<reported, skip, position, page, errors, ran, filed, setup>>
    /\ UNCHANGED server

\* Mutant: the next query starts where this one did.
SkipOver_StaysPut ==
    /\ pc = "next"
    /\ page # {} /\ Min(page) \in skip
    /\ page' = page \ {Min(page)}
    /\ UNCHANGED <<reported, pc, skip, position, errors, ran, filed, setup>>
    /\ UNCHANGED server

\* A message that was skipped before keeps its place in the results.
SkipOver ==
    /\ pc = "next"
    /\ page # {} /\ Min(page) \in skip
    /\ page' = page \ {Min(page)}
    /\ position' = position + 1
    /\ UNCHANGED <<reported, pc, skip, errors, ran, filed, setup>>
    /\ UNCHANGED server

\* download and pipeline::run.
run ==
    /\ pc = "next"
    /\ page # {} /\ Min(page) \notin skip
    /\ ran' = ran \cup {Min(page)}
    /\ \/ filed' = filed \cup {Min(page)}
       \/ UNCHANGED filed
    /\ pc' = "mark"
    /\ UNCHANGED <<reported, skip, position, page, errors, setup>>
    /\ UNCHANGED server

email_set_keyword ==
    /\ pc = "mark"
    /\ ~ setup.dry_run
    /\ marked' = marked \cup {Min(page)}
    /\ reported' = TRUE
    /\ page' = page \ {Min(page)}
    /\ pc' = "next"
    /\ UNCHANGED <<mailbox, gone, skip, position, errors, ran, filed, setup>>

\* A dry run marks nothing and remembers where it is.
LeaveUnmarked ==
    /\ pc = "mark"
    /\ setup.dry_run
    /\ skip' = skip \cup {Min(page)}
    /\ position' = position + 1
    /\ page' = page \ {Min(page)}
    /\ pc' = "next"
    /\ UNCHANGED <<reported, errors, ran, filed, setup>>
    /\ UNCHANGED server

-----------------------------------------------------------------------------

\* watch_once: the event source reports a change.
StateChange ==
    /\ pc = "wait"
    /\ reported
    /\ reported' = FALSE
    /\ pc' = "query"
    /\ position' = 0
    /\ UNCHANGED <<skip, page, errors, ran, filed, setup>>
    /\ UNCHANGED server

\* RESYNC_INTERVAL has passed, or the event source broke.
Resync ==
    /\ pc = "wait"
    /\ pc' = "subscribe"
    /\ UNCHANGED <<reported, skip, position, page, errors, ran, filed, setup>>
    /\ UNCHANGED server

\* The event source loses a notification.
Lose ==
    /\ reported
    /\ reported' = FALSE
    /\ UNCHANGED <<pc, skip, position, page, errors, ran, filed, setup>>
    /\ UNCHANGED server

\* A request fails: reconnect after a while, or exit.  A keyword may have
\* been set and the answer lost.
Error ==
    /\ pc \in Passing
    /\ errors < MaxErrors
    /\ errors' = errors + 1
    /\ pc' = IF setup.once THEN "down" ELSE "subscribe"
    /\ page' = {}
    /\ \/ UNCHANGED marked
       \/ pc = "mark" /\ ~ setup.dry_run /\ marked' = marked \cup {Min(page)}
    /\ UNCHANGED <<mailbox, gone, reported, skip, position, ran, filed, setup>>

\* Ctrl-C, or the process dies.
Exit ==
    /\ pc # "down"
    /\ pc' = "down"
    /\ page' = {}
    /\ UNCHANGED <<reported, skip, position, errors, ran, filed, setup>>
    /\ UNCHANGED server

Pass ==
    \/ query_email \/ get_email \/ PageDone
    \/ SkipOver \/ run \/ email_set_keyword \/ LeaveUnmarked

Next ==
    \/ \E m \in Email : Arrive(m) \/ Leave(m)
    \/ Start \/ event_source \/ Pass
    \/ StateChange \/ Resync \/ Lose \/ Error \/ Exit

Spec == Init /\ [][Next]_vars

(***************************************************************************)
(* The program runs on, its timer fires, and requests are answered: only   *)
(* MaxErrors of them fail.  (A dry run, which looks at a mailbox from the  *)
(* beginning in every pass, may starve when a request fails in each.)      *)
(***************************************************************************)
Fairness ==
    /\ WF_vars(event_source)
    /\ WF_vars(Resync)
    /\ WF_vars(query_email)
    /\ WF_vars(get_email)
    /\ WF_vars(PageDone)
    /\ WF_vars(SkipOver)
    /\ WF_vars(run)
    /\ WF_vars(email_set_keyword)
    /\ WF_vars(LeaveUnmarked)

FairSpec == Spec /\ Fairness

-----------------------------------------------------------------------------

TypeOK ==
    /\ mailbox \subseteq Email /\ marked \subseteq Email /\ gone \subseteq Email
    /\ reported \in BOOLEAN /\ pc \in Control
    /\ skip \subseteq Email /\ page \subseteq Email
    /\ position \in 0 .. MaxMessage /\ errors \in 0 .. MaxErrors
    /\ ran \subseteq Email /\ filed \subseteq Email
    /\ setup \in Setup

(***************************************************************************)
(* A pass ends, although it queries the same mailbox from where it is      *)
(* until nothing is left, with messages arriving and leaving meanwhile.    *)
(***************************************************************************)
PassEnds == pc \in Passing ~> pc \notin Passing

(***************************************************************************)
(* Every message of the mailbox is dealt with while the program runs, also *)
(* one whose notification is lost or that slips behind the position of the *)
(* current pass.                                                           *)
(***************************************************************************)
NothingMissed ==
    \A m \in Email :
        m \in mailbox /\ pc # "down" ~>
            m \in (marked \cap ran) \cup skip \cup gone \/ pc = "down"

(***************************************************************************)
(* "A message whose pipeline run fails is left without the keyword and is  *)
(* retried on the next start" (README).                                    *)
(***************************************************************************)
FailedStaysUnmarked == marked \subseteq filed
=============================================================================
