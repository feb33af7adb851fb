------------------------------ MODULE ImapScan ------------------------------
(***************************************************************************)
(* imap-scan --watch (imap_scan.rs) and its saved position (imap_state.rs):*)
(* where a run starts, how it works through the mailbox chunk by chunk,    *)
(* what it saves when, and how it gets past a message whose FETCH response *)
(* cannot be parsed.                                                       *)
(*                                                                         *)
(* The mailbox is the messages 1..top under the current UIDVALIDITY.  The  *)
(* pipeline is reduced to which extractors have seen which message: a      *)
(* fetched message goes to every extractor of the run, and only those that *)
(* want it matter (the prefilter drops the rest).  An extractor whose      *)
(* script changed is another extractor: its fingerprint differs.           *)
(*                                                                         *)
(* UID lists are sorted, so the UIDs still to do are a set and the         *)
(* position in the list is its smallest member.                            *)
(***************************************************************************)
EXTENDS Naturals, FiniteSets, FiniteSetsExt

CONSTANTS
    MaxUid,         \* bound: UIDs are 1..MaxUid
    MaxValidity,    \* bound: UIDVALIDITY is 1..MaxValidity
    Batch,          \* PREFILTER_BATCH
    Extractor,
    Wants,          \* [Extractor -> SUBSET Uid]: messages an extractor wants
    Garbled,        \* UIDs whose BODYSTRUCTURE cannot be parsed
    Hopeless,       \* UIDs whose FETCH response cannot be parsed at all
    Window,         \* UIDs in the --since / --before window
    Limit,          \* --limit
    KeepsPosition,  \* main.rs: no --since, --before, --limit, --dry-run
    NoCursor

Uid == 1 .. MaxUid

ASSUME ScanAssumption ==
    /\ MaxUid \in Nat /\ MaxValidity \in Nat /\ Batch \in Nat \ {0}
    /\ Wants \in [Extractor -> SUBSET Uid]
    /\ Garbled \subseteq Uid /\ Hopeless \subseteq Uid /\ Window \subseteq Uid
    /\ Limit \in Nat
    /\ KeepsPosition \in BOOLEAN
    /\ KeepsPosition => Window = Uid /\ Limit = MaxUid

VARIABLES
    validity, top,  \* the server: UIDVALIDITY and highest UID
    cursor,         \* the saved position, NoCursor if there is none
    online,         \* the session is usable
    pc,             \* where the process is, "down" if it does not run
    stage,          \* which list process_uids_with_resume works through
    running,        \* config.extractors of this run
    rescan,         \* --rescan
    session,        \* uid_validity as this run examined it
    after,          \* resume_after, and later the watch cursor
    pending,        \* UIDs of the list that are not done
    isolated,       \* pending UIDs below isolate_until
    without,        \* without_structure, 0 for none
    mark,           \* the UID to checkpoint
    processed,      \* history: which extractor has seen which message
    skipped         \* history: messages that were given up on

run == <<stage, running, rescan, session, after>>
quarantine == <<isolated, without>>
vars == <<validity, top, cursor, online, pc, run, pending, quarantine, mark,
          processed, skipped>>

Control == {"down", "resave", "search", "fetch", "save", "watch"}

Cursors == [validity : 1 .. MaxValidity, last : Uid, extractors : SUBSET Extractor]

Present == 1 .. top
MaxOf(S) == IF S = {} THEN 0 ELSE Max(S)

\* The first n UIDs of a sorted list.
First(n, S) == {u \in S : Cardinality({v \in S : v <= u}) <= n}

\* changed_since: extractors that have not seen the mail up to the cursor.
changed_since(E) == IF cursor = NoCursor THEN E ELSE E \ cursor.extractors

\* The extractors the current list is for.
Current == IF stage = "backfill" THEN changed_since(running) ELSE running

\* A message passed to the pipeline.
See(U) == {p \in U \X Current : p[1] \in Wants[p[2]]}

\* A UID SEARCH may be narrowed to the senders some extractor wants.
Found(S, E, narrowed) ==
    IF narrowed THEN {u \in S : \E e \in E : u \in Wants[e]} ELSE S

-----------------------------------------------------------------------------

Init ==
    /\ validity = 1
    /\ top \in 0 .. MaxUid
    /\ cursor = NoCursor
    /\ online = FALSE
    /\ pc = "down"
    /\ stage = "initial" /\ running = {} /\ rescan = FALSE /\ session = 1
    /\ after = 0
    /\ pending = {} /\ isolated = {} /\ without = 0
    /\ mark = 0
    /\ processed = {} /\ skipped = {}

\* A message arrives; being new, it is in the window.
Arrive ==
    /\ top < MaxUid
    /\ top + 1 \in Window
    /\ top' = top + 1
    /\ UNCHANGED <<validity, cursor, online, pc, run, pending, quarantine, mark,
                   processed, skipped>>

\* The mailbox is renumbered: other messages have these UIDs now.
Renumber ==
    /\ validity < MaxValidity
    /\ validity' = validity + 1
    /\ top' \in 0 .. MaxUid
    /\ online' = FALSE
    /\ processed' = {} /\ skipped' = {}
    /\ UNCHANGED <<cursor, pc, run, pending, quarantine, mark>>

\* The connection drops.
Disconnect ==
    /\ online
    /\ pc # "down"
    /\ online' = FALSE
    /\ UNCHANGED <<validity, top, cursor, pc, run, pending, quarantine, mark,
                   processed, skipped>>

\* The process dies, is interrupted, or gives up.
Down == pc' = "down" /\ online' = FALSE

\* Hand a list to process_uids_with_resume.
WorkThrough(list) ==
    /\ pending' = list
    /\ isolated' = {} /\ without' = 0

(***************************************************************************)
(* run: EXAMINE, load the cursor, and backfill if extractors are new.  A   *)
(* cursor saved under another UIDVALIDITY, or with --rescan any cursor, is *)
(* not used.                                                               *)
(***************************************************************************)
Start(E, again) ==
    /\ pc = "down"
    /\ online' = TRUE
    /\ running' = E
    /\ rescan' = again
    /\ session' = validity
    /\ LET resumes == /\ KeepsPosition
                      /\ ~ again
                      /\ cursor # NoCursor
                      /\ cursor.validity = validity
           last == IF resumes THEN cursor.last ELSE 0
           changed == changed_since(E)
       IN
       /\ after' = last
       /\ IF resumes /\ changed # {}
            THEN \E narrowed \in BOOLEAN :
                    /\ stage' = "backfill"
                    /\ pc' = "fetch"
                    /\ WorkThrough(Found(Present \cap 1 .. last, changed, narrowed))
            ELSE /\ stage' = "initial"
                 /\ pc' = "search"
                 /\ WorkThrough({})
    /\ UNCHANGED <<validity, top, cursor, mark, processed, skipped>>

\* run: the first UID SEARCH, everything after the saved position or the
\* requested window, and the cursor for --watch.
Search ==
    /\ pc = "search"
    /\ online
    /\ \E narrowed \in BOOLEAN :
          LET range == IF after = 0 THEN Present \cap Window
                                    ELSE {u \in Present : u > after}
              initial_uids == First(Limit, Found(range, running, narrowed))
          IN /\ WorkThrough(initial_uids)
             /\ after' = MaxOf(initial_uids \cup {after})
    /\ pc' = "fetch"
    /\ UNCHANGED <<validity, top, cursor, online, stage, running, rescan, session,
                   mark, processed, skipped>>

\* The first search fails: run returns the error.
SearchFails ==
    /\ pc = "search"
    /\ ~ online
    /\ Down
    /\ UNCHANGED <<validity, top, cursor, run, pending, quarantine, mark,
                   processed, skipped>>

-----------------------------------------------------------------------------
(***************************************************************************)
(* process_uids_with_resume                                                *)
(***************************************************************************)

\* slice_end and chunks: a single message while isolating.
Chunk ==
    IF Min(pending) \in isolated THEN {Min(pending)} ELSE First(Batch, pending)

with_structure(u) == without # u

Parses(u) == u \notin Hopeless /\ (u \in Garbled => ~ with_structure(u))

Fetching == pc = "fetch" /\ online /\ pending # {}

(***************************************************************************)
(* A chunk is fetched and every message in it went through the pipeline.   *)
(* Its last UID is checkpointed, except in a backfill.                     *)
(***************************************************************************)
FetchChunk ==
    /\ Fetching
    /\ \A u \in Chunk : Parses(u)
    /\ processed' = processed \cup See(Chunk)
    /\ pending' = pending \ Chunk
    /\ mark' = Max(Chunk)
    /\ pc' = IF stage = "backfill" THEN "fetch" ELSE "save"
    /\ UNCHANGED <<validity, top, cursor, online, run, quarantine, skipped>>

\* The connection fails during a chunk, after some of its bodies.
FetchFails ==
    /\ Fetching
    /\ \E n \in 0 .. Cardinality(Chunk) :
          processed' = processed \cup See({u \in First(n, Chunk) : Parses(u)})
    /\ online' = FALSE
    /\ UNCHANGED <<validity, top, cursor, pc, run, pending, quarantine, mark, skipped>>

\* Quarantine::on_unparseable: look at the chunk one message at a time.
Isolate ==
    /\ Fetching
    /\ \E u \in Chunk : ~ Parses(u)
    /\ Min(pending) \notin isolated
    /\ isolated' = First(Batch, pending)
    /\ online' = FALSE
    /\ UNCHANGED <<validity, top, cursor, pc, run, pending, without, mark, processed,
                   skipped>>

\* Fetch the message again, without BODYSTRUCTURE.
DropStructure ==
    /\ Fetching
    /\ ~ Parses(Min(pending))
    /\ Min(pending) \in isolated
    /\ with_structure(Min(pending))
    /\ without' = Min(pending)
    /\ online' = FALSE
    /\ UNCHANGED <<validity, top, cursor, pc, run, pending, isolated, mark, processed,
                   skipped>>

\* Mutant: the chunk's first message is skipped without isolating it.
Skip_Unisolated ==
    /\ Fetching
    /\ \E u \in Chunk : ~ Parses(u)
    /\ skipped' = skipped \cup {Min(pending)}
    /\ pending' = pending \ {Min(pending)}
    /\ mark' = Min(pending)
    /\ online' = FALSE
    /\ pc' = IF stage = "backfill" THEN "fetch" ELSE "save"
    /\ UNCHANGED <<validity, top, cursor, run, quarantine, processed>>

\* Give up on the message.
Skip ==
    /\ Fetching
    /\ ~ Parses(Min(pending))
    /\ Min(pending) \in isolated
    /\ ~ with_structure(Min(pending))
    /\ skipped' = skipped \cup {Min(pending)}
    /\ pending' = pending \ {Min(pending)}
    /\ mark' = Min(pending)
    /\ online' = FALSE
    /\ pc' = IF stage = "backfill" THEN "fetch" ELSE "save"
    /\ UNCHANGED <<validity, top, cursor, run, quarantine, processed>>

\* Mutant: a renumbered mailbox goes unnoticed.
reconnect_Unchecked ==
    /\ pc \in {"fetch", "watch"}
    /\ ~ online
    /\ online' = TRUE
    /\ UNCHANGED <<validity, top, cursor, pc, run, pending, quarantine, mark,
                   processed, skipped>>

\* reconnect and reselect: refuse to go on in a renumbered mailbox.
reconnect ==
    /\ pc \in {"fetch", "watch"}
    /\ ~ online
    /\ IF session = validity THEN online' = TRUE /\ UNCHANGED pc ELSE Down
    /\ UNCHANGED <<validity, top, cursor, run, pending, quarantine, mark,
                   processed, skipped>>

\* What is saved: everything up to and including this UID is done.
Position(last) == [validity |-> session, last |-> last, extractors |-> running]

\* save_cursor for a chunk; a failure is only logged.
checkpoint ==
    /\ pc = "save"
    /\ \/ KeepsPosition /\ cursor' = Position(mark)
       \/ UNCHANGED cursor
    /\ pc' = "fetch"
    /\ UNCHANGED <<validity, top, online, run, pending, quarantine, mark,
                   processed, skipped>>

\* The list is done.
ListDone ==
    /\ pc = "fetch"
    /\ pending = {}
    /\ pc' = IF stage = "backfill" THEN "resave" ELSE "watch"
    /\ UNCHANGED <<validity, top, cursor, online, run, pending, quarantine, mark,
                   processed, skipped>>

-----------------------------------------------------------------------------

\* run: after a backfill the old position holds for all extractors.
SaveBackfill ==
    /\ pc = "resave"
    /\ \/ cursor' = Position(after)
       \/ UNCHANGED cursor
    /\ pc' = "search"
    /\ stage' = "initial"
    /\ UNCHANGED <<validity, top, online, running, rescan, session, after, pending,
                   quarantine, mark, processed, skipped>>

\* Mutant: the search starts one UID too late.
watch_loop_OffByOne ==
    /\ pc = "watch"
    /\ online
    /\ \E narrowed \in BOOLEAN :
          LET new_uids == Found({u \in Present : u > after + 1}, running, narrowed)
          IN /\ new_uids # {}
             /\ WorkThrough(new_uids)
             /\ after' = Max(new_uids)
    /\ pc' = "fetch"
    /\ stage' = "watching"
    /\ UNCHANGED <<validity, top, cursor, online, running, rescan, session, mark,
                   processed, skipped>>

(***************************************************************************)
(* watch_loop: IDLE returned, search for everything past the cursor.  The  *)
(* code moves its cursor when the list is done; nothing reads it earlier.  *)
(***************************************************************************)
watch_loop ==
    /\ pc = "watch"
    /\ online
    /\ \E narrowed \in BOOLEAN :
          LET new_uids == Found({u \in Present : u > after}, running, narrowed)
          IN /\ new_uids # {}
             /\ WorkThrough(new_uids)
             /\ after' = Max(new_uids)
    /\ pc' = "fetch"
    /\ stage' = "watching"
    /\ UNCHANGED <<validity, top, cursor, online, running, rescan, session, mark,
                   processed, skipped>>

\* Mutant: an interrupted backfill counts as done.
Exit_BackfillCounts ==
    /\ pc # "down"
    /\ Down
    /\ IF stage = "backfill" THEN cursor' = Position(after) ELSE UNCHANGED cursor
    /\ UNCHANGED <<validity, top, run, pending, quarantine, mark, processed, skipped>>

\* The process is interrupted, fails or dies.
Exit ==
    /\ pc # "down"
    /\ Down
    /\ UNCHANGED <<validity, top, cursor, run, pending, quarantine, mark,
                   processed, skipped>>

\* What the server's answer to a FETCH leads to.
Answer == FetchChunk \/ Isolate \/ DropStructure \/ Skip

Next ==
    \/ Arrive \/ Renumber \/ Disconnect
    \/ \E E \in SUBSET Extractor \ {{}}, again \in BOOLEAN : Start(E, again)
    \/ Search \/ SearchFails
    \/ Answer \/ FetchFails
    \/ reconnect \/ checkpoint \/ ListDone \/ SaveBackfill
    \/ watch_loop
    \/ Exit

Spec == Init /\ [][Next]_vars

(***************************************************************************)
(* The process runs on and reconnects whenever it is disconnected, and if  *)
(* it asks again and again the server answers now and then.                *)
(***************************************************************************)
Fairness ==
    /\ WF_vars(reconnect)
    /\ WF_vars(checkpoint)
    /\ WF_vars(ListDone)
    /\ WF_vars(SaveBackfill)
    /\ WF_vars(Search \/ SearchFails)
    /\ SF_vars(Answer)
    /\ SF_vars(watch_loop)

FairSpec == Spec /\ Fairness

-----------------------------------------------------------------------------

TypeOK ==
    /\ validity \in 1 .. MaxValidity /\ top \in 0 .. MaxUid
    /\ cursor \in Cursors \cup {NoCursor}
    /\ online \in BOOLEAN /\ pc \in Control
    /\ stage \in {"initial", "backfill", "watching"}
    /\ running \in SUBSET Extractor /\ rescan \in BOOLEAN
    /\ session \in 1 .. MaxValidity /\ after \in 0 .. MaxUid
    /\ pending \subseteq Uid /\ isolated \subseteq Uid
    /\ without \in 0 .. MaxUid /\ mark \in 0 .. MaxUid
    /\ processed \subseteq Uid \X Extractor /\ skipped \subseteq Uid

(***************************************************************************)
(* "Every message up to and including this UID has been processed" by "the *)
(* extractors that processed them" (imap_state.rs Cursor), whatever        *)
(* crashes, restarts with other extractors, interrupted backfills and      *)
(* renumberings came before; a message that was given up on counts.        *)
(***************************************************************************)
CursorMeansProcessed ==
    cursor # NoCursor /\ cursor.validity = validity =>
        \A e \in cursor.extractors : \A u \in Wants[e] :
            u <= cursor.last => <<u, e>> \in processed \/ u \in skipped

(***************************************************************************)
(* Only a message that cannot be parsed even on its own and without its    *)
(* BODYSTRUCTURE is ever given up on (imap_scan.rs Quarantine).            *)
(***************************************************************************)
OnlyHopelessSkipped == skipped \subseteq Hopeless

(***************************************************************************)
(* A restart picks up after the last processed message, and a backfill is  *)
(* only for the extractors that need it: without --rescan no message goes  *)
(* to an extractor for which the saved position covers it.                 *)
(***************************************************************************)
NoRework ==
    [][FetchChunk /\ ~ rescan =>
          \A u \in Chunk, e \in Current :
              \/ cursor = NoCursor
              \/ cursor.validity # session
              \/ u > cursor.last
              \/ e \notin cursor.extractors]_vars

(***************************************************************************)
(* "Watch refuses to continue if the mailbox's UIDVALIDITY changes" (the   *)
(* README): what a run finds in a mailbox that was renumbered under it is  *)
(* never taken for the messages it was working through.                    *)
(***************************************************************************)
RefusesRenumbered ==
    [][session # validity => processed' \subseteq processed]_vars

(***************************************************************************)
(* What is fetched is due (the two above): a restart or a reconnect        *)
(* neither repeats what the saved position covers nor goes on in a mailbox *)
(* whose UIDs mean other messages now.                                     *)
(***************************************************************************)
FetchesAreDue == NoRework /\ RefusesRenumbered

(***************************************************************************)
(* Under --watch every message that is in the mailbox is seen sooner or    *)
(* later by every extractor that wants it, or given up on, or the process  *)
(* stops - no arrival between a SEARCH and the next IDLE is missed.        *)
(***************************************************************************)
NothingMissed ==
    \A u \in Uid, e \in Extractor :
        u \in Wants[e] /\ u <= top /\ pc # "down" /\ e \in running
            ~> \/ <<u, e>> \in processed \/ u \in skipped
               \/ pc = "down" \/ session # validity

(***************************************************************************)
(* "Only consider messages from this date onward" (main.rs, --since).      *)
(***************************************************************************)
OnlyWindow == \A u \in Uid, e \in Extractor : <<u, e>> \in processed => u \in Window
=============================================================================
