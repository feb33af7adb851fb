----------------------------- MODULE NewestWins -----------------------------
(***************************************************************************)
(* What a directory of records promises to everybody who files into it,   *)
(* whatever happens inside: a record is replaced only by one that is not   *)
(* older, in one indivisible step, and a filing is reported to the caller  *)
(* only when the record on file is the caller's own or one from a newer    *)
(* message ("the newest message wins regardless of the order messages are  *)
(* processed in", targets/sink.rs, module documentation).                  *)
(*                                                                         *)
(* RecordStore.tla is the mechanism - lock, read, merge, temporary file,   *)
(* rename, crash - and implements this specification.                      *)
(***************************************************************************)
EXTENDS RecordDates

VARIABLES
    onfile,     \* [Path -> OnFile]
    settled     \* the messages whose filing was reported as done

-----------------------------------------------------------------------------

Init ==
    /\ onfile \in [Path -> OnFile]
    /\ \A p \in Path : onfile[p] \in Message => PathOf[onfile[p]] = p
    /\ settled = {}

\* The record of m replaces what is on file, which is not from a newer one.
Put(m) ==
    /\ ~ is_from_newer(onfile[PathOf[m]], m)
    /\ onfile' = [onfile EXCEPT ![PathOf[m]] = m]
    /\ UNCHANGED settled

\* The caller is told that m is dealt with.
Settle(m) ==
    /\ \/ onfile[PathOf[m]] = m
       \/ is_from_newer(onfile[PathOf[m]], m)
    /\ settled' = settled \cup {m}
    /\ UNCHANGED onfile

Next == \E m \in Message : Put(m) \/ Settle(m)

Spec == Init /\ [][Next]_<<onfile, settled>>
=============================================================================
