----------------------------- MODULE Discovery -----------------------------
(***************************************************************************)
(* Which extractors a command runs (extractor.rs discover, main.rs         *)
(* discover_required and select_extractors), and what "mailsift lint" says *)
(* of the same directories (extractor.rs lint).                            *)
(*                                                                         *)
(* A listing is what read_dir gives for each configured directory, in the  *)
(* order it gives it: a sequence of manifests, or Unlistable.  Only files  *)
(* named *.yaml count, without those that begin with "." or "_".           *)
(***************************************************************************)
EXTENDS Naturals, Sequences, FiniteSets

CONSTANTS
    Listing,        \* sequences of directories
    Only,           \* the sets of --extractor names
    Unlistable      \* a directory that cannot be read

\* What may be wrong with a manifest.  Only lint minds empty from_domains.
Fault == {"unreadable", "yaml", "subject_regex", "unsigned_before", "requires", "from_domains"}
Script == {"ok", "missing", "not executable", "unreadable"}

Manifests == [name : Nat, order : Nat, script : Script, faults : SUBSET Fault]

DiscoveryAssumption ==
    \A l \in Listing :
        /\ l \in Seq({Unlistable} \cup Seq(Manifests))
        /\ \A d \in DOMAIN l : l[d] # Unlistable => l[d] \in Seq(Manifests)

VARIABLES
    listing,    \* the directories
    only,       \* the extractors asked for, {} for all
    dir,        \* the directory that is being read, and
    entry,      \* the entry of it that comes next
    out,        \* the extractors found, a sequence of [dir, entry]
    command,    \* "discover", "sort", "run" or "refused"
    issues,     \* the manifests, or directories, lint complains about
    lints       \* lint is at [dir, entry]

vars == <<listing, only, dir, entry, out, command, issues, lints>>

Manifest(at) == listing[at.dir][at.entry]

Init ==
    /\ listing \in Listing
    /\ only \in Only
    /\ dir = 1
    /\ entry = 1
    /\ out = <<>>
    /\ command = "discover"
    /\ issues = {}
    /\ lints = [dir |-> 1, entry |-> 1]

Here == [dir |-> dir, entry |-> entry]
Reading(at) == /\ at.dir <= Len(listing)
               /\ listing[at.dir] # Unlistable
               /\ at.entry <= Len(listing[at.dir])

-----------------------------------------------------------------------------

\* Any of these ends the command, of a manifest that is shadowed, too; but a
\* script that is not executable is passed over before most are looked at.
Bails(m) ==
    \/ m.faults \cap {"unreadable", "yaml"} # {}
    \/ m.script = "missing"
    \/ /\ m.script # "not executable"
       /\ \/ m.faults \cap {"subject_regex", "unsigned_before", "requires"} # {}
          \/ m.script = "unreadable"

Known(name) == \E i \in DOMAIN out : Manifest(out[i]).name = name

Found(at) == IF Known(Manifest(at).name) THEN out ELSE Append(out, at)

\* One entry of a directory.
discover_into ==
    /\ command = "discover" /\ Reading(Here)
    /\ IF Bails(Manifest(Here))
         THEN command' = "refused" /\ UNCHANGED out
         ELSE /\ out' = IF Manifest(Here).script = "not executable" THEN out ELSE Found(Here)
              /\ UNCHANGED command
    /\ entry' = entry + 1
    /\ UNCHANGED <<listing, only, dir, issues, lints>>

NextDirectory ==
    /\ command = "discover" /\ ~ Reading(Here)
    /\ dir' = dir + 1
    /\ entry' = 1
    /\ command' = IF dir > Len(listing) THEN "sort"
                  ELSE IF listing[dir] = Unlistable THEN "refused" ELSE "discover"
    /\ UNCHANGED <<listing, only, out, issues, lints>>

\* By order, then by name.
Before(a, b) ==
    LET ma == Manifest(a)
        mb == Manifest(b)
    IN \/ ma.order < mb.order
       \/ ma.order = mb.order /\ ma.name < mb.name

\* A set of places, in that order.  No two of those that are found have the
\* same name.
Sorted(places) ==
    {s \in [1..Cardinality(places) -> places] :
        \A i, j \in DOMAIN s : i < j => Before(s[i], s[j])}

Selected(at) == only = {} \/ Manifest(at).name \in only

\* Sorted; none at all, or a name that nobody has, is a usage error.
select_extractors ==
    /\ command = "sort"
    /\ out' \in Sorted({out[i] : i \in {i \in DOMAIN out : Selected(out[i])}})
    /\ command' = IF out # <<>> /\ \A n \in only : Known(n) THEN "run" ELSE "refused"
    /\ UNCHANGED <<listing, only, dir, entry, issues, lints>>

-----------------------------------------------------------------------------

\* Some other manifest, read before this one, has its name.
Duplicate(at) ==
    \E d \in DOMAIN listing : \E e \in 1..(IF listing[d] = Unlistable THEN 0 ELSE Len(listing[d])) :
        /\ d < at.dir \/ (d = at.dir /\ e < at.entry)
        /\ listing[d][e].faults \cap {"unreadable", "yaml"} = {}
        /\ listing[d][e].name = Manifest(at).name

\* Mutant: lint does not look at unsigned_before.
Complains_NoDate(at) ==
    LET m == Manifest(at) IN
    m.faults \ {"unsigned_before"} # {} \/ m.script \in {"missing", "not executable"} \/ Duplicate(at)

\* It reports every problem, a script that cannot be read excepted.
Complains(at) ==
    LET m == Manifest(at) IN
    m.faults # {} \/ m.script \in {"missing", "not executable"} \/ Duplicate(at)

lint_one ==
    /\ Reading(lints)
    /\ issues' = IF Complains(lints) THEN issues \cup {lints} ELSE issues
    /\ lints' = [lints EXCEPT !.entry = @ + 1]
    /\ UNCHANGED <<listing, only, dir, entry, out, command>>

lint_next ==
    /\ lints.dir <= Len(listing) /\ ~ Reading(lints)
    /\ issues' = IF listing[lints.dir] = Unlistable THEN issues \cup {lints} ELSE issues
    /\ lints' = [dir |-> lints.dir + 1, entry |-> 1]
    /\ UNCHANGED <<listing, only, dir, entry, out, command>>

-----------------------------------------------------------------------------

Linted == lints.dir > Len(listing)
Finished == command \in {"run", "refused"} /\ Linted /\ UNCHANGED vars

Next ==
    \/ discover_into \/ NextDirectory \/ select_extractors
    \/ lint_one \/ lint_next
    \/ Finished

Spec == Init /\ [][Next]_vars

-----------------------------------------------------------------------------

\* The places of all manifests with a script that can be run.
Places ==
    UNION {{[dir |-> d, entry |-> e] : e \in DOMAIN listing[d]} :
        d \in {d \in DOMAIN listing : listing[d] # Unlistable}}
Runnable == {at \in Places : Manifest(at).script = "ok"}
Earlier(a, b) == a.dir < b.dir \/ (a.dir = b.dir /\ a.entry < b.entry)

(***************************************************************************)
(* A personal directory of overrides goes before the one it overrides:     *)
(* whatever read_dir's order and whichever names were asked for, a command *)
(* runs each extractor from the first place that has one it can run, none  *)
(* twice, in order of "order" (extractor.rs discover, main.rs              *)
(* select_extractors).                                                     *)
(***************************************************************************)
OverridesWin ==
    command = "run" =>
        /\ {out[i] : i \in DOMAIN out} =
              {at \in Runnable :
                  /\ Selected(at)
                  /\ \A b \in Runnable : Earlier(b, at) => Manifest(b).name # Manifest(at).name}
        /\ \A i, j \in DOMAIN out : i < j => Before(out[i], out[j])
        /\ \A n \in only : Known(n)

(***************************************************************************)
(* A clean bill of health means that the extractors load: if lint has      *)
(* nothing to say about directories, no command is refused for them,       *)
(* except for a script that cannot be read, or for having no extractors.   *)
(***************************************************************************)
LintIsSound ==
    (Linted /\ issues = {} /\ command = "refused") =>
        \/ (out = <<>> /\ dir > Len(listing))
        \/ \E n \in only : ~ Known(n)
        \/ Manifest([dir |-> dir, entry |-> entry - 1]).script = "unreadable"

(***************************************************************************)
(* discover loads what it should, and lint foretells what it refuses (the  *)
(* two above).                                                             *)
(***************************************************************************)
DiscoveryHolds == OverridesWin /\ LintIsSound
=============================================================================
