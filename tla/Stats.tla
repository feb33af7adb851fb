------------------------------- MODULE Stats -------------------------------
(***************************************************************************)
(* The statistics log (stats.rs): any number of threads, of several        *)
(* processes, append a line for each extractor run, and whoever finds the  *)
(* log too big rewrites it without its old lines.                          *)
(*                                                                         *)
(* The log is a path to a file; a rewrite makes a new file and renames it  *)
(* over the path, so that whoever has the old one open goes on with that.  *)
(* A line is one write(2) with O_APPEND and therefore atomic.  No line   *)
(* is written twice and their order does not matter here: a file is a set. *)
(***************************************************************************)
EXTENDS Naturals, Sequences, FiniteSets

CONSTANTS
    Writer,
    RETENTION, PRUNE_INTERVAL,      \* in units of time
    PRUNE_MIN,                      \* in lines (PRUNE_MIN_BYTES)
    MaxTime, MaxEvents              \* bounds: the clock, the events

StatsAssumption ==
    {RETENTION, PRUNE_INTERVAL, PRUNE_MIN, MaxTime, MaxEvents} \subseteq Nat

VARIABLES
    now,
    files,      \* sequence of files, each a set of events [id, ts]
    path,       \* the file the path leads to, 0 for none
    stamp,      \* when somebody last began to prune, or Never
    writer,     \* [Writer -> where append_event is]
    event,      \* [Writer -> the event it records]
    open,       \* [Writer -> the file it has open]
    copy,       \* [Writer -> the events its prune keeps]
    events,     \* the number of events so far
    recorded,   \* those whose append has returned Ok
    overtaken   \* those of them that a prune may not have seen

vars == <<now, files, path, stamp, writer, event, open, copy, events, recorded, overtaken>>

Never == MaxTime + PRUNE_INTERVAL + 1

Init ==
    /\ now = 0
    /\ files = <<>>
    /\ path = 0
    /\ stamp = Never
    /\ writer = [w \in Writer |-> "idle"]
    /\ event = [w \in Writer |-> [id |-> 0, ts |-> 0]]
    /\ open = [w \in Writer |-> 0]
    /\ copy = [w \in Writer |-> {}]
    /\ events = 0
    /\ recorded = {}
    /\ overtaken = {}

Log == IF path = 0 THEN {} ELSE files[path]

Goto(w, where) == writer' = [writer EXCEPT ![w] = where]

-----------------------------------------------------------------------------

Tick ==
    /\ now < MaxTime
    /\ now' = now + 1
    /\ UNCHANGED <<files, path, stamp, writer, event, open, copy, events, recorded, overtaken>>

\* pipeline::run takes the time once for a message; much may happen until the
\* event is written.
record(w) ==
    /\ writer[w] = "idle" /\ events < MaxEvents
    /\ events' = events + 1
    /\ event' = [event EXCEPT ![w] = [id |-> events + 1, ts |-> now]]
    /\ Goto(w, "check size")
    /\ UNCHANGED <<now, files, path, stamp, open, copy, recorded, overtaken>>

CheckSize(w) ==
    /\ writer[w] = "check size"
    /\ Goto(w, IF path = 0 \/ Cardinality(Log) < PRUNE_MIN THEN "append" ELSE "check stamp")
    /\ UNCHANGED <<now, files, path, stamp, event, open, copy, events, recorded, overtaken>>

Recent == stamp # Never /\ now - stamp < PRUNE_INTERVAL

CheckStamp(w) ==
    /\ writer[w] = "check stamp"
    /\ Goto(w, IF Recent THEN "append" ELSE "stamp")
    /\ UNCHANGED <<now, files, path, stamp, event, open, copy, events, recorded, overtaken>>

\* The stamp goes first, then the log is opened.
Stamp(w) ==
    /\ writer[w] = "stamp"
    /\ stamp' = now
    /\ open' = [open EXCEPT ![w] = path]
    /\ Goto(w, "read")
    /\ UNCHANGED <<now, files, path, event, copy, events, recorded, overtaken>>

\* Mutant: the rest of the unit in which the retention ends goes, too.
Expired_TooSoon(e, now_ts) == e.ts <= now_ts - RETENTION

\* Written as an addition: naturals do not go below zero.
Expired(e, now_ts) == e.ts + RETENTION < now_ts

\* prune, as seen by the time of the event that is to be recorded.
ReadLog(w) ==
    /\ writer[w] = "read"
    /\ copy' = [copy EXCEPT ![w] = {e \in files[open[w]] : ~ Expired(e, event[w].ts)}]
    /\ Goto(w, "rename")
    /\ UNCHANGED <<now, files, path, stamp, event, open, events, recorded, overtaken>>

Rename(w) ==
    /\ writer[w] = "rename"
    /\ files' = Append(files, copy[w])
    /\ path' = Len(files) + 1
    /\ Goto(w, "append")
    /\ UNCHANGED <<now, stamp, event, open, copy, events, recorded, overtaken>>

\* The stamp, the copy or the rename fails, and with it append_event: the event
\* is given up with a warning.
PruneFails(w) ==
    /\ writer[w] \in {"stamp", "read", "rename"}
    /\ Goto(w, "idle")
    /\ UNCHANGED <<now, files, path, stamp, event, open, copy, events, recorded, overtaken>>

OpenLog(w) ==
    /\ writer[w] = "append"
    /\ files' = IF path = 0 THEN Append(files, {}) ELSE files
    /\ path' = IF path = 0 THEN Len(files) + 1 ELSE path
    /\ open' = [open EXCEPT ![w] = path']
    /\ Goto(w, "write")
    /\ UNCHANGED <<now, stamp, event, copy, events, recorded, overtaken>>

\* Some other writer has opened the log to prune it and not renamed it yet, or
\* has renamed it since this one opened it.
Overtaken(w) ==
    \/ open[w] # path
    \/ \E v \in Writer \ {w} : writer[v] \in {"read", "rename"}

Write(w) ==
    /\ writer[w] = "write"
    /\ files' = [files EXCEPT ![open[w]] = @ \cup {event[w]}]
    /\ recorded' = recorded \cup {event[w]}
    /\ overtaken' = IF Overtaken(w) THEN overtaken \cup {event[w]} ELSE overtaken
    /\ Goto(w, "idle")
    /\ UNCHANGED <<now, path, stamp, event, open, copy, events>>

append_event(w) ==
    \/ record(w) \/ CheckSize(w) \/ CheckStamp(w)
    \/ Stamp(w) \/ ReadLog(w) \/ Rename(w) \/ PruneFails(w)
    \/ OpenLog(w) \/ Write(w)

Done ==
    /\ events = MaxEvents /\ now = MaxTime
    /\ \A w \in Writer : writer[w] = "idle"
    /\ UNCHANGED vars

Next == Tick \/ (\E w \in Writer : append_event(w)) \/ Done

Spec == Init /\ [][Next]_vars

-----------------------------------------------------------------------------

(***************************************************************************)
(* An event that has been recorded stays in the log for RETENTION, unless  *)
(* a prune overtook its append: "concurrent writers ... lose those events  *)
(* when the rename lands" (prune).  However many threads append, and prune *)
(* at once.                                                                *)
(***************************************************************************)
RecentStayOnFile ==
    \A e \in recorded \ overtaken :
        e.ts + RETENTION >= now => e \in Log
=============================================================================
