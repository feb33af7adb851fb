---------------------------- MODULE StatsSummary ----------------------------
(***************************************************************************)
(* How the statistics log is summed up, line by line (stats.rs aggregate,  *)
(* Acc).                                                                   *)
(***************************************************************************)
EXTENDS Naturals, Sequences, FiniteSets, FiniteSetsExt, SequencesExt

CONSTANTS
    Event,          \* the events of one extractor: [ts, outcome, duration, domain]
    NoDomain,       \* there was no From: domain
    NoDuration,     \* the extractor was not run
    RECENT_DOMAINS_KEEP,
    MaxLines        \* bound: the length of the log

Outcome == {"produced", "empty", "failed", "skipped_body", "skipped_dkim"}

StatsSummaryAssumption ==
    /\ RECENT_DOMAINS_KEEP \in Nat \ {0}
    /\ MaxLines \in Nat
    /\ NoDuration \notin Nat
    /\ \A e \in Event :
          e.ts \in Nat /\ e.outcome \in Outcome /\ e.duration \in Nat \cup {NoDuration}

VARIABLES
    lines,      \* the events read so far
    acc         \* what Acc makes of them

summary_vars == <<lines, acc>>

Init ==
    /\ lines = <<>>
    /\ acc = [runs |-> 0, by |-> [o \in Outcome |-> 0], total_ms |-> 0, forked |-> 0,
              last_ts |-> 0, recent_domains |-> <<>>]

\* A domain that is new goes to the end, and then the first one may have to go.
WithDomain(recent, domain) ==
    LET longer == Append(recent, domain) IN
    IF domain = NoDomain \/ Contains(recent, domain) THEN recent
    ELSE IF Len(longer) > RECENT_DOMAINS_KEEP THEN Tail(longer) ELSE longer

\* Mutant: the time of the last line is taken for the latest.
Latest_Last(e) == e.ts

\* Lines of several processes are not in the order of their times.
Latest(e) == Max({acc.last_ts, e.ts})

bump(e) ==
    /\ Len(lines) < MaxLines
    /\ lines' = Append(lines, e)
    /\ acc' = [runs           |-> acc.runs + 1,
               by             |-> [acc.by EXCEPT ![e.outcome] = @ + 1],
               total_ms       |-> IF e.duration = NoDuration THEN acc.total_ms
                                  ELSE acc.total_ms + e.duration,
               forked         |-> IF e.duration = NoDuration THEN acc.forked ELSE acc.forked + 1,
               last_ts        |-> Latest(e),
               recent_domains |-> WithDomain(acc.recent_domains, e.domain)]

Done == Len(lines) = MaxLines /\ UNCHANGED summary_vars

Next == (\E e \in Event : bump(e)) \/ Done

Spec == Init /\ [][Next]_summary_vars

-----------------------------------------------------------------------------

\* The lines of an outcome, and those of runs that were timed.
With(o) == {i \in DOMAIN lines : lines[i].outcome = o}
Timed == {i \in DOMAIN lines : lines[i].duration # NoDuration}

\* The time that some of them took.
TimeOf(seq, S) == MapThenSumSet(LAMBDA i : seq[i].duration, S)

(***************************************************************************)
(* The row of an extractor agrees with its lines, in whatever order they   *)
(* were written: the outcomes add up to the runs, the mean is taken over   *)
(* the runs that were timed, and the last run is the latest.               *)
(***************************************************************************)
RowAgrees ==
    /\ \A o \in Outcome : acc.by[o] = Cardinality(With(o))
    /\ acc.runs = Cardinality(DOMAIN lines)
    /\ acc.forked = Cardinality(Timed)
    /\ acc.total_ms = TimeOf(lines, Timed)
    /\ lines # <<>> => acc.last_ts = Max({lines[i].ts : i \in DOMAIN lines})
=============================================================================
