------------------------------- MODULE Reindex -------------------------------
(***************************************************************************)
(* Renaming the archive (targets/reservations.rs reindex, main.rs): the    *)
(* legs filed under the names older versions gave them are moved to where  *)
(* they are filed now, and the copies that one leg collected under several *)
(* names are merged into the newest.  It runs beside the watchers, dies at *)
(* any point, and takes no lock.                                           *)
(*                                                                         *)
(* A record is abstracted to the leg it is about and the date of the mail  *)
(* it was filed from.  A name is a leg, for the place where that leg is    *)
(* filed now, or a member of OldName.                                      *)
(***************************************************************************)
EXTENDS Naturals, Sequences, FiniteSets

CONSTANTS
    Indexer,        \* processes that run reindex
    Leg,            \* flights and trains, filed under their number
    NoLeg,          \* a hotel, say: not a leg with a number
    OldName,        \* names older versions filed records under
    Rank,           \* [Name -> Nat]: the order in which names sort
    NoDate,
    NoFile,
    Corrupt,        \* a file that does not parse
    Disk,           \* the archives that are looked at: [Name -> contents]
    Mail,           \* the mails a watcher files meanwhile: <<leg, date>>
    Company         \* who is about: [crew : SUBSET Indexer, watched : BOOLEAN]

Name == Leg \cup OldName
Record == (Leg \cup {NoLeg}) \X (Nat \cup {NoDate})

ReindexAssumption ==
    /\ Leg \cap OldName = {} /\ IsFiniteSet(Name)
    /\ Rank \in [Name -> Nat]
    /\ \A m, n \in Name : Rank[m] = Rank[n] => m = n
    /\ Disk \subseteq [Name -> Record \cup {NoFile, Corrupt}]
    /\ \A d \in Disk, l \in Leg : d[l] \in Record => d[l][1] = l
    /\ Mail \subseteq Leg \X (Nat \cup {NoDate})
    /\ Company \subseteq [crew : SUBSET Indexer, watched : BOOLEAN]
    /\ NoLeg \notin Leg /\ NoDate \notin Nat
    /\ NoFile \notin Record /\ Corrupt \notin Record

VARIABLES
    files,      \* [Name -> Record \cup {NoFile, Corrupt}]
    at,         \* [Indexer -> where it is]
    dry,        \* [Indexer -> BOOLEAN]: --dry-run
    paths,      \* [Indexer -> SUBSET Name]: the names still to look at
    body,       \* [Indexer -> the record it has read]
    claimed,    \* [Indexer -> SUBSET Leg]: targets filled so far
    done,       \* [Indexer -> Seq(report)]: what it reports
    newest,     \* history, [Leg -> the newest mail ever filed, or 0]; NoDate
                \* for a leg of which there ever was an undated copy
    foretold,   \* history: what a dry run reported of the files as they are
    company     \* the one of Company that is used, for good

vars == <<files, at, dry, paths, body, claimed, done, newest, foretold, company>>

\* The dates of a leg's copies, and the newest of some of them.
DatesOf(l, F) == {F[n][2] : n \in {n \in Name : F[n] \in Record /\ F[n][1] = l}}

Latest(D) ==
    IF NoDate \in D THEN NoDate ELSE CHOOSE d \in D : \A e \in D : e <= d

Init ==
    /\ files \in Disk
    /\ at = [i \in Indexer |-> "idle"]
    /\ dry = [i \in Indexer |-> FALSE]
    /\ paths = [i \in Indexer |-> {}]
    /\ body = [i \in Indexer |-> NoFile]
    /\ claimed = [i \in Indexer |-> {}]
    /\ done = [i \in Indexer |-> <<>>]
    /\ newest = [l \in Leg |-> Latest({0} \cup DatesOf(l, files))]
    /\ foretold = NoFile
    /\ company \in Company

Goto(i, where) == at' = [at EXCEPT ![i] = where]

\* The name that is looked at: they are sorted, and each is listed once.
First(i) == CHOOSE n \in paths[i] : \A m \in paths[i] : Rank[n] <= Rank[m]
PassFirst(i) == paths' = [paths EXCEPT ![i] = @ \ {First(i)}]

\* json_target.rs filed_from_newer: what is at a name is newer than d.
filed_from_newer(n, d) ==
    /\ files[n] \in Record
    /\ files[n][2] # NoDate /\ d # NoDate
    /\ files[n][2] > d

-----------------------------------------------------------------------------
(* The watchers. *)

\* file_one: a mail about a leg, under the directory's lock.
file_one(l, d) ==
    /\ company.watched
    /\ ~ filed_from_newer(l, d)
    /\ files' = [files EXCEPT ![l] = <<l, d>>]
    /\ newest' = [newest EXCEPT ![l] = Latest({@, d})]
    /\ foretold' = NoFile
    /\ UNCHANGED <<at, dry, paths, body, claimed, done>>

-----------------------------------------------------------------------------
(* reindex. *)

\* archived_records, sorted.
archived_records(i) ==
    /\ i \in company.crew /\ at[i] = "idle"
    /\ dry' \in {[dry EXCEPT ![i] = b] : b \in BOOLEAN}
    /\ paths' = [paths EXCEPT ![i] = {n \in Name : files[n] # NoFile}]
    /\ Goto(i, "list")
    /\ UNCHANGED <<files, body, claimed, done, newest, foretold>>

\* The next name is gone, is no leg, or is where its leg is filed.
Leave(i) ==
    /\ at[i] = "list" /\ paths[i] # {}
    /\ LET n == First(i) IN
          \/ files[n] = NoFile
          \/ files[n] \in Record /\ files[n][1] \in {NoLeg, n}
    /\ PassFirst(i)
    /\ UNCHANGED <<files, at, dry, body, claimed, done, newest, foretold>>

\* Its record is read and goes to another name.
Read(i) ==
    /\ at[i] = "list" /\ paths[i] # {}
    /\ LET n == First(i) IN
          /\ files[n] \in Record /\ files[n][1] \notin {NoLeg, n}
          /\ body' = [body EXCEPT ![i] = files[n]]
    /\ Goto(i, "probe")
    /\ UNCHANGED <<files, dry, paths, claimed, done, newest, foretold>>

\* Mutant: what a dry run would have filled is not remembered.
Merges_OnDisk(i, target) == files[target] # NoFile

\* Whether the leg has a copy at its target, as far as the run knows.
Merges(i, target) == files[target] # NoFile \/ target \in claimed[i]

\* The copy at the target is newer: it stays, and the one read goes.
Kept(i) ==
    /\ Goto(i, "remove")
    /\ UNCHANGED <<files, paths, body>>

\* target.exists, and what the run will report.
Probe(i) ==
    /\ at[i] = "probe"
    /\ LET target == body[i][1] IN
          /\ claimed' = [claimed EXCEPT ![i] = @ \cup {target}]
          /\ done' = [done EXCEPT ![i] =
                         Append(@, <<First(i), target, Merges(i, target)>>)]
          /\ IF dry[i]
               THEN /\ PassFirst(i)
                    /\ body' = [body EXCEPT ![i] = NoFile]
                    /\ Goto(i, "list")
               ELSE /\ Goto(i, IF Merges(i, target) THEN "compare" ELSE "write")
                    /\ UNCHANGED <<paths, body>>
    /\ UNCHANGED <<files, dry, newest, foretold>>

\* Mutant: the dates of the two copies are not compared.
Compare_Skipped(i) ==
    /\ at[i] = "compare"
    /\ Goto(i, "write")
    /\ UNCHANGED <<files, dry, paths, body, claimed, done, newest, foretold>>

\* filed_from_newer: the dates of the two copies are compared.
Compare(i) ==
    /\ at[i] = "compare"
    /\ IF filed_from_newer(body[i][1], body[i][2])
         THEN Kept(i)
         ELSE Goto(i, "write") /\ UNCHANGED <<files, paths, body>>
    /\ UNCHANGED <<dry, claimed, done, newest, foretold>>

\* The record is written to its target, whatever is there by now.
write_atomic(i) ==
    /\ at[i] = "write"
    /\ files' = [files EXCEPT ![body[i][1]] = body[i]]
    /\ Goto(i, "remove")
    /\ UNCHANGED <<dry, paths, body, claimed, done, newest, foretold>>

\* The old name is removed; if it is gone already the run fails.
remove_file(i) ==
    /\ at[i] = "remove"
    /\ files[First(i)] # NoFile
    /\ files' = [files EXCEPT ![First(i)] = NoFile]
    /\ PassFirst(i)
    /\ body' = [body EXCEPT ![i] = NoFile]
    /\ Goto(i, "list")
    /\ UNCHANGED <<dry, claimed, done, newest, foretold>>

Over(i) ==
    /\ dry' = [dry EXCEPT ![i] = FALSE]
    /\ paths' = [paths EXCEPT ![i] = {}]
    /\ body' = [body EXCEPT ![i] = NoFile]
    /\ claimed' = [claimed EXCEPT ![i] = {}]
    /\ done' = [done EXCEPT ![i] = <<>>]
    /\ Goto(i, "idle")
    /\ UNCHANGED <<files, newest>>

\* The run is through; what it would have done is on record.
Finish(i) ==
    /\ at[i] = "list" /\ paths[i] = {}
    /\ foretold' = IF dry[i] THEN done[i] ELSE NoFile
    /\ Over(i)

\* It dies, a file cannot be read, parsed, written or removed: it stops
\* there, and reports nothing.
Abort(i) ==
    /\ at[i] # "idle"
    /\ foretold' = IF dry[i] THEN foretold ELSE NoFile
    /\ Over(i)

Next ==
    /\ \/ \E m \in Mail : file_one(m[1], m[2])
       \/ \E i \in Indexer :
             \/ archived_records(i) \/ Leave(i) \/ Read(i) \/ Probe(i)
             \/ Compare(i) \/ write_atomic(i) \/ remove_file(i)
             \/ Finish(i) \/ Abort(i)
    /\ UNCHANGED company

Spec == Init /\ [][Next]_vars

-----------------------------------------------------------------------------

\* One reindex at a time and no watcher.
Alone == (\A i, j \in company.crew : i = j) /\ ~ company.watched

(***************************************************************************)
(* The newest copy of a leg is on file at every moment, wherever reindex   *)
(* dies and however often it is run again (as long as every copy of the    *)
(* leg is dated: one that is not replaces any other).                      *)
(***************************************************************************)
NewestCopySurvives ==
    Alone =>
        \A l \in Leg : newest[l] \in {0, NoDate} \cup DatesOf(l, files)

(***************************************************************************)
(* "Move archived legs [...] to where they are filed now, merging the      *)
(* copies one leg collected under several names": after a run that went    *)
(* through, also one that completes what another left half-done, no old    *)
(* name holds a leg, and no other booking has moved.                       *)
(***************************************************************************)
OneCopyEach ==
    [][Alone =>
          \A i \in Indexer :
              /\ Finish(i) /\ ~ dry[i] =>
                    \A n \in OldName :
                        files[n] \in Record => files[n][1] = NoLeg
              /\ \A n \in OldName :
                    files[n] \in {NoLeg} \X (Nat \cup {NoDate}) =>
                        files'[n] = files[n]]_vars

(***************************************************************************)
(* "Targets a dry run would have filled, so it reports the merges a real   *)
(* run would do": when a dry run is followed by a real one, with nothing   *)
(* filed and nothing failed in between, the two report the same.           *)
(***************************************************************************)
DryRunForetells ==
    [][Alone =>
          \A i \in Indexer :
              Finish(i) /\ ~ dry[i] /\ foretold # NoFile => done[i] = foretold]_vars

(***************************************************************************)
(* A run that goes through does what it is for, and what a dry run said it *)
(* would (the two above).                                                  *)
(***************************************************************************)
RunDelivers == OneCopyEach /\ DryRunForetells

(***************************************************************************)
(* "Another copy of the same leg was there already; the one from the newer *)
(* mail is kept at `to`" (reservations.rs Reindexed), with a watcher about *)
(* and every copy dated: the record at a leg's target is never replaced by *)
(* one from an older mail.                                                 *)
(***************************************************************************)
NewerIsKept ==
    [][\A l \in Leg :
          files[l] \in Record /\ files'[l] # files[l] =>
              ~ filed_from_newer(l, files'[l][2])]_vars
=============================================================================
