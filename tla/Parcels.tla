------------------------------ MODULE Parcels ------------------------------
(***************************************************************************)
(* A parcel's record, merged from the status mails about it, and its       *)
(* registration with the trackers (targets/parcels.rs, targets/trackers.rs)*)
(*                                                                         *)
(* One tracking number is modelled.  The mails are merged in any order,    *)
(* by several workers, and any of them again: a rescan replays them.  An   *)
(* undated mail stands for a carrier poll or a mail without a usable date. *)
(* A field of the record, and an entry of its history, is abstracted to    *)
(* the mail it came from; update_file is one step (RecordStore).           *)
(***************************************************************************)
EXTENDS Naturals, Sequences, FiniteSets, FiniteSetsExt

CONSTANTS
    Worker,
    Mail,
    DateOf,         \* [Mail -> Nat \cup {NoDate}]: receivedAt
    StatusOf,       \* [Mail -> Status \cup {NoStatus}]: deliveryStatus
    TimeOf,         \* [Mail -> Nat \cup {NoDate}]: actualDeliveryTime
    HasCarrier,     \* mails that name the carrier
    Tracker,
    MaxHistory,     \* bound: entries of the record's history
    NoDate, NoStatus, NoRecord, NoMail

Status == {"OnItsWay", "OutForDelivery", "Delivered", "Returned"}

\* What is on file about the parcel, a field being the mail it came from.
Record ==
    [received : Nat \cup {NoDate}, state : Mail \cup {NoMail},
     time : Nat \cup {NoDate}, carrier : HasCarrier \cup {NoMail},
     history : Seq(Mail)]

ParcelsAssumption ==
    /\ DateOf \in [Mail -> Nat \cup {NoDate}]
    /\ StatusOf \in [Mail -> Status \cup {NoStatus}]
    /\ TimeOf \in [Mail -> Nat \cup {NoDate}]
    /\ HasCarrier \subseteq Mail
    /\ MaxHistory \in Nat
    /\ NoDate \notin Nat
    /\ NoStatus \notin Status
    /\ NoMail \notin Mail
    /\ NoRecord \notin Record

VARIABLES
    record,     \* the record on file, or NoRecord
    pc,         \* [Worker -> {"idle", "file", "register"}]
    mail,       \* [Worker -> Mail \cup {NoMail}]
    sinks,      \* [Worker -> SUBSET Tracker]: trackers still to tell
    tried,      \* history, [Tracker -> Nat]: registrations attempted
    filed       \* history: the mails that were merged

vars == <<record, pc, mail, sinks, tried, filed>>

-----------------------------------------------------------------------------
(***************************************************************************)
(* merge                                                                   *)
(***************************************************************************)

Dated(m) == DateOf[m] # NoDate

\* sink.rs supersedes.
supersedes(existing, incoming) ==
    existing # NoDate /\ incoming # NoDate /\ existing > incoming

\* ParcelStatus::is_terminal.
is_terminal(m) == m \in Mail /\ StatusOf[m] \in {"Delivered", "Returned"}

Latest(D) == IF D = {} THEN NoDate ELSE Max(D)
Earliest(D) == IF D = {} THEN NoDate ELSE Min(D)

\* The entries of a history, and the dates of some.
Entries(history) == {history[i] : i \in DOMAIN history}
Dates(entries) == {DateOf[m] : m \in entries} \ {NoDate}

\* Mutant: only the date the parcel was first filed under counts.
newest_received_at_TopLevel(r) == r.received

newest_received_at(r) == Latest(Dates(Entries(r.history)) \cup ({r.received} \ {NoDate}))

\* When a parcel in a terminal state got there, as far as the record tells.
final_since(r) ==
    IF r.time # NoDate THEN r.time
    ELSE Earliest(Dates({m \in Entries(r.history) : is_terminal(m)}))

is_same_snapshot(a, b) ==
    /\ DateOf[a] = DateOf[b]
    /\ StatusOf[a] = StatusOf[b]
    /\ TimeOf[a] = TimeOf[b]

\* Mutant: a dated entry is looked for in the last place only.
is_recorded_LastOnly(history, m) ==
    history # <<>> /\ is_same_snapshot(history[Len(history)], m)

\* A dated entry repeats any before it, an undated one only the last.
is_recorded(history, m) ==
    IF Dated(m) THEN \E i \in DOMAIN history : is_same_snapshot(history[i], m)
    ELSE history # <<>> /\ is_same_snapshot(history[Len(history)], m)

\* The entries kept of the first n: the first of every repetition.
drop_repeated_entries(history) ==
    LET kept[n \in 0 .. Len(history)] ==
            IF n = 0 THEN <<>>
            ELSE IF is_recorded(kept[n - 1], history[n]) THEN kept[n - 1]
            ELSE Append(kept[n - 1], history[n])
    IN kept[Len(history)]

is_older(r, m) == supersedes(newest_received_at(r), DateOf[m])

\* Mutant: an undated mail may take a parcel out of a terminal state.
is_stale_OlderOnly(r, m) == is_older(r, m)

is_stale(r, m) ==
    \/ is_older(r, m)
    \/ /\ is_terminal(r.state)
       /\ ~ is_terminal(m)
       /\ ~ (Dated(m) /\ final_since(r) # NoDate /\ DateOf[m] > final_since(r))

with_initial_history(m) ==
    [received |-> DateOf[m],
     state |-> IF StatusOf[m] = NoStatus THEN NoMail ELSE m,
     time |-> TimeOf[m],
     carrier |-> IF m \in HasCarrier THEN m ELSE NoMail,
     history |-> <<m>>]

(***************************************************************************)
(* A stale mail contributes nothing that describes the parcel's state, an  *)
(* older one only fills in what the record lacks.                          *)
(***************************************************************************)
merge(r, m) ==
    [received |-> IF r.received = NoDate THEN DateOf[m] ELSE r.received,
     state |-> IF is_stale(r, m) \/ StatusOf[m] = NoStatus THEN r.state ELSE m,
     time |-> IF is_stale(r, m) \/ TimeOf[m] = NoDate THEN r.time ELSE TimeOf[m],
     carrier |-> IF m \in HasCarrier /\ (is_older(r, m) => r.carrier = NoMail)
                   THEN m ELSE r.carrier,
     history |-> drop_repeated_entries(Append(r.history, m))]

-----------------------------------------------------------------------------

Init ==
    /\ record = NoRecord
    /\ pc = [w \in Worker |-> "idle"]
    /\ mail = [w \in Worker |-> NoMail]
    /\ sinks = [w \in Worker |-> {}]
    /\ tried = [t \in Tracker |-> 0]
    /\ filed = {}

\* A worker gets a mail about the parcel, for the first time or again.
Begin(w, m) ==
    /\ pc[w] = "idle"
    /\ pc' = [pc EXCEPT ![w] = "file"]
    /\ mail' = [mail EXCEPT ![w] = m]
    /\ UNCHANGED <<record, sinks, tried, filed>>

\* file_parcel returns, or its process dies.
Return(w) ==
    /\ pc' = [pc EXCEPT ![w] = "idle"]
    /\ mail' = [mail EXCEPT ![w] = NoMail]
    /\ sinks' = [sinks EXCEPT ![w] = {}]

\* update_file without a record: FileOutcome::Created, the trackers are told
\* if the mail names the carrier.
Create(w) ==
    /\ pc[w] = "file"
    /\ record = NoRecord
    /\ record' = with_initial_history(mail[w])
    /\ filed' = filed \cup {mail[w]}
    /\ IF mail[w] \in HasCarrier
         THEN /\ pc' = [pc EXCEPT ![w] = "register"]
              /\ sinks' = [sinks EXCEPT ![w] = Tracker]
              /\ UNCHANGED mail
         ELSE Return(w)
    /\ UNCHANGED tried

\* update_file with a record: FileOutcome::Updated.
Update(w) ==
    /\ pc[w] = "file"
    /\ record # NoRecord
    /\ Len(record.history) < MaxHistory
    /\ record' = merge(record, mail[w])
    /\ filed' = filed \cup {mail[w]}
    /\ Return(w)
    /\ UNCHANGED tried

\* Mutant: a tracker that is down ends the fan-out.
register_best_effort_StopsEarly(w, t) ==
    /\ pc[w] = "register"
    /\ t \in sinks[w]
    /\ tried' = [tried EXCEPT ![t] = @ + 1]
    /\ \/ sinks' = [sinks EXCEPT ![w] = @ \ {t}]
       \/ sinks' = [sinks EXCEPT ![w] = {}]
    /\ UNCHANGED <<record, pc, mail, filed>>

\* One tracker is asked; what it answers is only logged.
register_best_effort(w, t) ==
    /\ pc[w] = "register"
    /\ t \in sinks[w]
    /\ tried' = [tried EXCEPT ![t] = @ + 1]
    /\ sinks' = [sinks EXCEPT ![w] = @ \ {t}]
    /\ UNCHANGED <<record, pc, mail, filed>>

Registered(w) ==
    /\ pc[w] = "register"
    /\ sinks[w] = {}
    /\ Return(w)
    /\ UNCHANGED <<record, tried, filed>>

\* The record cannot be read or written, or the process dies.
Fail(w) ==
    /\ pc[w] # "idle"
    /\ Return(w)
    /\ UNCHANGED <<record, tried, filed>>

Step(w) ==
    \/ Create(w)
    \/ Update(w)
    \/ \E t \in Tracker : register_best_effort(w, t)
    \/ Registered(w)

Next ==
    \/ \E w \in Worker, m \in Mail : Begin(w, m)
    \/ \E w \in Worker : Step(w) \/ Fail(w)

Spec == Init /\ [][Next]_vars

-----------------------------------------------------------------------------

TypeOK ==
    /\ record \in Record \cup {NoRecord}
    /\ pc \in [Worker -> {"idle", "file", "register"}]
    /\ mail \in [Worker -> Mail \cup {NoMail}]
    /\ sinks \in [Worker -> SUBSET Tracker]
    /\ tried \in [Tracker -> Nat]
    /\ filed \subseteq Mail

OnRecord == record # NoRecord

(***************************************************************************)
(* On record, where every merged mail is dated, has a status, and tells of *)
(* no delivery later than itself, the parcel's status is that of the       *)
(* newest of them, in whatever order, and however often, they were merged  *)
(* (parcels.rs merge: "a mailbox is not processed in date order").         *)
(***************************************************************************)
StatusIsNewest ==
    (\A m \in filed : /\ Dated(m)
                      /\ StatusOf[m] # NoStatus
                      /\ TimeOf[m] # NoDate => TimeOf[m] <= DateOf[m]) =>
        \A m \in filed : DateOf[record.state] >= DateOf[m]

(***************************************************************************)
(* A delivered or returned parcel is in transit again only on the word of  *)
(* a mail dated after a delivery that some mail dates, by its own date or  *)
(* by the time it gives - never of an undated mail, nor when nothing dates *)
(* the delivery (parcels.rs merge).                                        *)
(***************************************************************************)
DeliveredStays ==
    OnRecord /\ ~ is_terminal(record.state) /\ (\E m \in filed : is_terminal(m)) =>
        \E n, d \in filed :
            /\ ~ is_terminal(n) /\ Dated(n)
            /\ \/ is_terminal(d) /\ Dated(d) /\ DateOf[n] > DateOf[d]
               \/ TimeOf[d] # NoDate /\ DateOf[n] > TimeOf[d]

(***************************************************************************)
(* The history has each dated mail exactly once, however often the mailbox *)
(* is scanned again (parcels.rs is_recorded).                              *)
(***************************************************************************)
HistoryHasEachOnce ==
    OnRecord =>
        \A m \in filed : Dated(m) =>
            Cardinality({i \in DOMAIN record.history :
                            is_same_snapshot(record.history[i], m)}) = 1

(***************************************************************************)
(* What an older mail says of the carrier never replaces what a newer one  *)
(* said, although the record does not keep whose word it was.              *)
(***************************************************************************)
CarrierNeverRegresses ==
    [][OnRecord /\ record'.carrier # record.carrier /\ record.carrier # NoMail =>
           ~ supersedes(DateOf[record.carrier], DateOf[record'.carrier])]_vars

(***************************************************************************)
(* The newest mail has the say, in status and carrier (StatusIsNewest,     *)
(* CarrierNeverRegresses).                                                 *)
(***************************************************************************)
NewestHasTheSay == [](OnRecord => StatusIsNewest) /\ CarrierNeverRegresses

(***************************************************************************)
(* "One tracker being down does not stop the others" (trackers.rs): unless *)
(* its process dies, a worker that starts to tell the trackers tells all,  *)
(* and nobody tells one twice.  One that dies leaves a parcel that nobody  *)
(* follows: the next mail finds its record and tells nobody.               *)
(***************************************************************************)
FanOutCompletes ==
    [][\A w \in Worker : Registered(w) => \A t \in Tracker : tried[t] = 1]_vars
=============================================================================
