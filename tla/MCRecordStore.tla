--------------------------- MODULE MCRecordStore ---------------------------
(***************************************************************************)
(* RecordStore with three threads in two processes, one directory of two   *)
(* files: one whose messages are all dated (two of them, and one with the  *)
(* date of the first), one that an undated message is filed into as well.  *)
(***************************************************************************)
EXTENDS RecordStore, TLC

CONSTANTS w1, w2, w3, milter, scan, bill, letter, year
CONSTANTS old, new, late, plain

MCProcess == {milter, scan}
MCProcessOf == [w \in Worker |-> IF w = w3 THEN scan ELSE milter]
MCDir == {year}
MCPath == {bill, letter}
MCDirOf == [p \in MCPath |-> year]
MCMessage == {old, new, late, plain}
MCPathOf == old :> bill @@ new :> bill @@ late :> letter @@ plain :> letter
MCDateOf == old :> 1 @@ new :> 2 @@ late :> 2 @@ plain :> NoDate

\* Only the bill is worth starting from every content; the other file exists
\* to share the directory.
MCInit == Init /\ file[letter] \in {NoFile, late}
MCFairSpec == MCInit /\ [][Next]_vars /\ Fairness
=============================================================================
