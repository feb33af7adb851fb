----------------------------- MODULE MaildirScan -----------------------------
(***************************************************************************)
(* maildir-scan (maildir_scan.rs): list the folders, drop what is too old  *)
(* or can be told from its headers not to matter, take the first --limit   *)
(* of the rest and run the pipeline over them in parallel - while the mail *)
(* client goes on to move, flag and delete the files.                      *)
(*                                                                         *)
(* A message keeps its unique name: new/ID becomes cur/ID when the client  *)
(* sees it and cur/ID:2,S when it is read.                                 *)
(***************************************************************************)
EXTENDS Naturals, FiniteSets, Sequences

CONSTANTS
    Id,             \* message names, numbers in the order of their names
    About,          \* [Id -> [old, matches, trusted, quoted, long]]: mtime is
                    \* before --since; an extractor wants the headers; a trusted
                    \* person forwards it, and an extractor wants what is in it;
                    \* the headers exceed HEADER_PEEK_BYTES
    Scans,          \* the commands: [recurse, since, constrained, limit], where
                    \* constrained says that all extractors constrain headers
    Gone,           \* no such file
    MaxMoves        \* bound: what the mail client does during the scan

MaildirAssumption ==
    /\ Id \subseteq Nat /\ IsFiniteSet(Id)
    /\ About \in [Id -> [old : BOOLEAN, matches : BOOLEAN, trusted : BOOLEAN,
                         quoted : BOOLEAN, long : BOOLEAN]]
    /\ Scans \subseteq [recurse : BOOLEAN, since : BOOLEAN, constrained : BOOLEAN, limit : Nat]
    /\ MaxMoves \in Nat

VARIABLES
    box,        \* [Id -> Path \cup {Gone}]: the Maildir
    scan,       \* the command
    stage,      \* "list", "since", "prefilter", "run" or "done"
    unlisted,   \* the directories still to be listed, a sequence
    todo,       \* the paths this stage has still to look at
    kept,       \* those it keeps
    given,      \* the messages the pipeline was given
    moves,
    untouched   \* history: messages that were there from the start and that
                \* the client left alone

vars == <<box, scan, stage, unlisted, todo, kept, given, moves, untouched>>

\* The Maildir itself comes before its subfolder, and cur before new.
Dir == <<<<"root", "cur">>, <<"root", "new">>, <<".sub", "cur">>, <<".sub", "new">>>>
Path == [dir : DOMAIN Dir, id : Id, flagged : BOOLEAN]

Before(p, q) == p.dir < q.dir \/ (p.dir = q.dir /\ p.id < q.id)

Init ==
    /\ box \in [Id -> {p \in Path : ~ p.flagged} \cup {Gone}]
    /\ \A i \in Id : box[i] # Gone => box[i].id = i
    /\ scan \in Scans
    /\ stage = "list"
    /\ unlisted = IF scan.recurse THEN <<1, 2, 3, 4>> ELSE <<1, 2>>
    /\ todo = {}
    /\ kept = {}
    /\ given = {}
    /\ moves = 0
    /\ untouched = {i \in Id : box[i] # Gone}

\* collect_messages, one directory after the other.
collect_messages ==
    /\ stage = "list" /\ unlisted # <<>>
    /\ kept' = kept \cup {box[i] : i \in {j \in Id : box[j] # Gone /\ box[j].dir = Head(unlisted)}}
    /\ unlisted' = Tail(unlisted)
    /\ UNCHANGED <<box, scan, stage, todo, given, moves, untouched>>

\* On to the next stage with what this one has kept.
Enter(next, paths) ==
    /\ stage' = next
    /\ todo' = paths
    /\ kept' = {}
    /\ UNCHANGED <<box, scan, unlisted, given, moves, untouched>>

AfterSince == IF scan.constrained THEN "prefilter" ELSE "limit"

StageDone ==
    /\ todo = {}
    /\ \/ stage = "list" /\ unlisted = <<>>
          /\ Enter(IF scan.since THEN "since" ELSE AfterSince, kept)
       \/ stage = "since" /\ Enter(AfterSince, kept)
       \/ stage = "prefilter" /\ Enter("limit", kept)
       \/ stage = "run" /\ Enter("done", {})

Looked(p, keep) ==
    /\ todo' = todo \ {p}
    /\ kept' = IF keep THEN kept \cup {p} ELSE kept
    /\ UNCHANGED <<box, scan, stage, unlisted, moves, untouched>>

There(p) == box[p.id] = p

\* A file that cannot be stat'ed is kept.
retain(p) ==
    /\ stage = "since" /\ p \in todo
    /\ Looked(p, There(p) => ~ About[p.id].old)
    /\ UNCHANGED given

\* Mutant: the headers of a forward are taken for what they say.
could_match_any_Outer(p) ==
    There(p) /\ ~ About[p.id].long => About[p.id].matches

\* When in doubt, keep it.
could_match_any(p) ==
    There(p) /\ ~ About[p.id].long /\ ~ About[p.id].trusted => About[p.id].matches

prefilter(p) ==
    /\ stage = "prefilter" /\ p \in todo
    /\ Looked(p, could_match_any(p))
    /\ UNCHANGED given

\* The first --limit paths (0 for no limit).
First(paths) ==
    {p \in paths : scan.limit = 0 \/ Cardinality({q \in paths : Before(q, p)}) < scan.limit}

take ==
    /\ stage = "limit"
    /\ Enter("run", First(todo))

\* A file that is no longer where it was listed is passed over.
run(p) ==
    /\ stage = "run" /\ p \in todo
    /\ given' = IF There(p) THEN given \cup {p.id} ELSE given
    /\ Looked(p, TRUE)

-----------------------------------------------------------------------------

\* The mail client or the delivery agent does something to message i.
Client(i) ==
    /\ stage # "done"
    /\ moves < MaxMoves
    /\ moves' = moves + 1
    /\ untouched' = untouched \ {i}
    /\ \/ /\ box[i] = Gone
          /\ box' = [box EXCEPT ![i] = [dir |-> 2, id |-> i, flagged |-> FALSE]]
       \/ /\ box[i] # Gone /\ box[i].dir \in {2, 4}
          /\ box' = [box EXCEPT ![i].dir = @ - 1]
       \/ /\ box[i] # Gone /\ box[i].dir \in {1, 3} /\ ~ box[i].flagged
          /\ box' = [box EXCEPT ![i].flagged = TRUE]
       \/ /\ box[i] # Gone
          /\ box' = [box EXCEPT ![i] = Gone]
    /\ UNCHANGED <<scan, stage, unlisted, todo, kept, given>>

Done == stage = "done" /\ UNCHANGED vars

Next ==
    \/ collect_messages \/ StageDone \/ take
    \/ \E p \in todo : retain(p) \/ prefilter(p) \/ run(p)
    \/ \E i \in Id : Client(i)
    \/ Done

Spec == Init /\ [][Next]_vars

-----------------------------------------------------------------------------

\* The pipeline would run an extractor over it (pipeline/mod.rs run), and the
\* command asks for it.
Wanted(i) ==
    /\ IF About[i].trusted THEN About[i].quoted ELSE About[i].matches
    /\ scan.since => ~ About[i].old
    /\ box[i].dir \in {1, 2} \/ scan.recurse

(***************************************************************************)
(* Whatever the client does to other messages meanwhile, and however the   *)
(* headers look, the pipeline is given every message that it has a use for *)
(* and that was left alone; with --limit those that come first (run,       *)
(* could_match_any).                                                       *)
(***************************************************************************)
NothingOverlooked ==
    stage = "done" =>
        \A i \in untouched : Wanted(i) =>
            \/ i \in given
            \/ /\ scan.limit > 0
               /\ moves = 0 => /\ Cardinality(given) = scan.limit
                               /\ \A j \in given : Before(box[j], box[i])
=============================================================================
