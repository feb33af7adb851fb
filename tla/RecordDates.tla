---------------------------- MODULE RecordDates ----------------------------
(***************************************************************************)
(* The order in which records replace each other, shared by every sink     *)
(* that files a JSON record (targets/sink.rs, targets/json_target.rs).  A  *)
(* record is abstracted to the message it was filed from.                  *)
(***************************************************************************)
EXTENDS Naturals

CONSTANTS
    Message,    \* the messages that are filed, each standing for its record
    Path,       \* the files records live in
    PathOf,     \* [Message -> Path]: the slug of a message's record
    DateOf,     \* [Message -> Nat \cup {NoDate}]: its receivedAt
    NoDate,     \* a record without a usable receivedAt
    NoFile,     \* nothing on file yet
    Corrupt     \* a file that does not parse as a record

\* What a path can hold.
OnFile == Message \cup {NoFile, Corrupt}

ASSUME RecordAssumption ==
    /\ PathOf \in [Message -> Path]
    /\ DateOf \in [Message -> Nat \cup {NoDate}]
    /\ NoDate \notin Nat
    /\ NoFile \notin Message
    /\ Corrupt \notin Message
    /\ NoFile # Corrupt

(***************************************************************************)
(* targets/sink.rs supersedes: a record is kept only when both dates are   *)
(* known and it is strictly newer.                                         *)
(***************************************************************************)
supersedes(existing, incoming) ==
    /\ existing # NoDate
    /\ incoming # NoDate
    /\ existing > incoming

\* targets/json_target.rs received_at_in, as is_from_newer uses it: a file
\* that is not there or cannot be parsed has no date.
received_at_in(f) == IF f \in Message THEN DateOf[f] ELSE NoDate

\* targets/json_target.rs is_from_newer.
is_from_newer(f, m) == supersedes(received_at_in(f), DateOf[m])

(***************************************************************************)
(* Everything filed at path p carries a date.  Where something does not,   *)
(* the newest record may give way to it, and that to an old one.           *)
(***************************************************************************)
AllDated(p) == \A m \in Message : PathOf[m] = p => DateOf[m] # NoDate
=============================================================================
