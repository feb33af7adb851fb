----------------------------- MODULE DavFiling -----------------------------
(***************************************************************************)
(* Filing on a CalDAV or WebDAV server: GET what is there, decide, PUT on  *)
(* the condition that it is still there (targets/caldav.rs file_async,     *)
(* targets/webdav.rs update, targets/http_auth.rs), and, for events, the   *)
(* seen.db gate around it (pipeline/router.rs file_single, seen.rs).       *)
(*                                                                         *)
(* Between a worker's GET and its PUT another worker, another process or   *)
(* the user's own calendar client may write.  A PUT may be applied and its *)
(* answer lost or replaced by a 5xx, which is sent again; a PUT whose      *)
(* sender gave up or died may still be applied later.                      *)
(*                                                                         *)
(* An event stands for its body.  An entity tag is abstracted to the       *)
(* content it stands for: a strong tag matches when the resource holds     *)
(* what the GET returned.  The 401 round trip and the waits between        *)
(* attempts change nothing and are left out.                               *)
(***************************************************************************)
EXTENDS Naturals, FiniteSets

CONSTANTS
    Worker,
    Event,          \* event bodies
    Uid, UidOf,     \* UidOf \in [Event -> Uid]
    Url, UrlOf,     \* UrlOf \in [Event -> Url]: inbox or default calendar
    DateOf, NoDate, \* DateOf \in [Event -> Nat \cup {NoDate}]: DTSTAMP
    Absent,         \* no resource at a URL, no entry in seen.db
    Sink,           \* the sinks to look at: "caldav", "webdav"
    StrongTags,     \* the server's GET carries a strong ETag
    UserMay,        \* what the user's own client may do: "save", "delete"
    MaxAttempts,    \* http_auth.rs MAX_UPDATE_ATTEMPTS
    MaxResends,     \* http_auth.rs MAX_TRANSIENT_RETRIES
    MaxAbandoned    \* bound: PUTs on the way whose sender is gone

ASSUME DavAssumption ==
    /\ UidOf \in [Event -> Uid]
    /\ UrlOf \in [Event -> Url]
    /\ DateOf \in [Event -> Nat \cup {NoDate}]
    /\ NoDate \notin Nat
    /\ Absent \notin Event
    /\ Sink \subseteq {"caldav", "webdav"}
    /\ StrongTags \in BOOLEAN
    /\ UserMay \subseteq {"save", "delete"}
    /\ MaxAttempts \in Nat \ {0}
    /\ MaxResends \in Nat
    /\ MaxAbandoned \in Nat

VARIABLES
    res,        \* [Url -> Event \cup {Absent}]: the server's resources
    seen,       \* [Uid -> Event \cup {Absent}]: seen.db, a body for its hash
    wire,       \* PUTs whose sender no longer waits for the answer
    pc,         \* [Worker -> Control]
    ev,         \* [Worker -> Event \cup {Absent}]: what it files
    found,      \* [Worker -> Event \cup {Absent}]: what its GET returned
    tries,      \* [Worker -> Nat]: rounds of GET and PUT so far
    resends,    \* [Worker -> Nat]: repeats of the current PUT so far
    sink,       \* which sink it is, for good
    deleted     \* history: the user has deleted something

vars == <<res, seen, wire, pc, ev, found, tries, resends, sink, deleted>>

\* CalDAV files events, behind seen.db; WebDAV files records, without it.
Gated == sink = "caldav"

Control == {"idle", "lookup", "get", "decide", "put", "filed"}

Dated(e) == DateOf[e] # NoDate

\* targets/mod.rs event_is_newer.
event_is_newer(existing, e) ==
    /\ existing # Absent
    /\ Dated(existing)
    /\ Dated(e)
    /\ DateOf[existing] > DateOf[e]

\* What an abandoned PUT carries.
Put == [event : Event, found : Event \cup {Absent}]

\* CalDAV spares the GET for an undated event and PUTs unconditionally.
Unconditional(e) == Gated /\ ~ Dated(e)

\* Mutant: no If-Match and no If-None-Match on the PUT.
unless_changed_Never(e, was) == TRUE

(***************************************************************************)
(* http_auth.rs unless_changed, as the server evaluates it: If-None-Match  *)
(* for a resource that was absent, If-Match for one whose tag is strong,   *)
(* nothing for one that has none.                                          *)
(***************************************************************************)
unless_changed(e, was) ==
    \/ Unconditional(e)
    \/ was # Absent /\ ~ StrongTags
    \/ res[UrlOf[e]] = was

-----------------------------------------------------------------------------

\* The server's collection as earlier runs and the user left it.
Init ==
    /\ res \in [Url -> Event \cup {Absent}]
    /\ \A u \in Url : res[u] # Absent => UrlOf[res[u]] = u
    /\ seen = [k \in Uid |-> Absent]
    /\ wire = {}
    /\ pc = [w \in Worker |-> "idle"]
    /\ ev = [w \in Worker |-> Absent]
    /\ found = [w \in Worker |-> Absent]
    /\ tries = [w \in Worker |-> 0]
    /\ resends = [w \in Worker |-> 0]
    /\ sink \in Sink
    /\ deleted = FALSE

\* The worker is done with its event, whatever the result.
Return(w) ==
    /\ pc' = [pc EXCEPT ![w] = "idle"]
    /\ ev' = [ev EXCEPT ![w] = Absent]
    /\ found' = [found EXCEPT ![w] = Absent]
    /\ tries' = [tries EXCEPT ![w] = 0]
    /\ resends' = [resends EXCEPT ![w] = 0]

\* Where the sink starts: at the GET, or at the PUT when there is nothing to
\* order by.
Start(e) == IF Unconditional(e) THEN "put" ELSE "get"

\* A message with event e reaches the sink, for the first time or again.
Begin(w, e) ==
    /\ pc[w] = "idle"
    /\ pc' = [pc EXCEPT ![w] = IF Gated THEN "lookup" ELSE Start(e)]
    /\ ev' = [ev EXCEPT ![w] = e]
    /\ UNCHANGED <<res, seen, wire, found, tries, resends>>

\* Mutant: the store is told before the sink is called.
NotSeen_MarksFirst(w) ==
    /\ pc[w] = "lookup"
    /\ seen' = [seen EXCEPT ![UidOf[ev[w]]] = ev[w]]
    /\ pc' = [pc EXCEPT ![w] = Start(ev[w])]
    /\ UNCHANGED <<res, wire, ev, found, tries, resends>>

(***************************************************************************)
(* seen.rs is_seen under router.rs file_single: an event filed with this   *)
(* very body is skipped; a store that cannot be read says "not seen".      *)
(***************************************************************************)
SkipSeen(w) ==
    /\ pc[w] = "lookup"
    /\ seen[UidOf[ev[w]]] = ev[w]
    /\ Return(w)
    /\ UNCHANGED <<res, seen, wire>>

NotSeen(w) ==
    /\ pc[w] = "lookup"
    /\ pc' = [pc EXCEPT ![w] = Start(ev[w])]
    /\ UNCHANGED <<res, seen, wire, ev, found, tries, resends>>

get_if_exists(w) ==
    /\ pc[w] = "get"
    /\ found' = [found EXCEPT ![w] = res[UrlOf[ev[w]]]]
    /\ pc' = [pc EXCEPT ![w] = "decide"]
    /\ UNCHANGED <<res, seen, wire, ev, tries, resends>>

\* FileOutcome::Kept; the store is not told.
log_kept(w) ==
    /\ pc[w] = "decide"
    /\ event_is_newer(found[w], ev[w])
    /\ Return(w)
    /\ UNCHANGED <<res, seen, wire>>

Replace(w) ==
    /\ pc[w] = "decide"
    /\ ~ event_is_newer(found[w], ev[w])
    /\ pc' = [pc EXCEPT ![w] = "put"]
    /\ UNCHANGED <<res, seen, wire, ev, found, tries, resends>>

\* The PUT is applied and answered with success.
PutLands(w) ==
    /\ pc[w] = "put"
    /\ unless_changed(ev[w], found[w])
    /\ res' = [res EXCEPT ![UrlOf[ev[w]]] = ev[w]]
    /\ pc' = [pc EXCEPT ![w] = "filed"]
    /\ UNCHANGED <<seen, wire, ev, found, tries, resends>>

\* The server answers 429 or 5xx, having applied the PUT or not, and the
\* request is sent again (send_with_auth_retry).
PutRetried(w) ==
    /\ pc[w] = "put"
    /\ resends[w] < MaxResends
    /\ resends' = [resends EXCEPT ![w] = @ + 1]
    /\ \/ UNCHANGED res
       \/ /\ unless_changed(ev[w], found[w])
          /\ res' = [res EXCEPT ![UrlOf[ev[w]]] = ev[w]]
    /\ UNCHANGED <<seen, wire, pc, ev, found, tries>>

(***************************************************************************)
(* 412 Precondition Failed: start over from the GET, or give up after      *)
(* MAX_UPDATE_ATTEMPTS rounds.                                             *)
(***************************************************************************)
PutRefused(w) ==
    /\ pc[w] = "put"
    /\ ~ unless_changed(ev[w], found[w])
    /\ IF tries[w] + 1 < MaxAttempts
         THEN /\ tries' = [tries EXCEPT ![w] = @ + 1]
              /\ resends' = [resends EXCEPT ![w] = 0]
              /\ pc' = [pc EXCEPT ![w] = "get"]
              /\ UNCHANGED <<ev, found>>
         ELSE Return(w)
    /\ UNCHANGED <<res, seen, wire>>

\* The GET or the PUT fails for good - refused, out of retries, connection
\* lost before it was applied: a warning, and the artifact is lost.
Fail(w) ==
    /\ pc[w] \in {"get", "put"}
    /\ Return(w)
    /\ UNCHANGED <<res, seen, wire>>

\* The client stops waiting - timeout, lost connection, process death - and
\* the PUT stays on its way.
Abandon(w) ==
    /\ pc[w] = "put"
    /\ Cardinality(wire) < MaxAbandoned
    /\ wire' = wire \cup {[event |-> ev[w], found |-> found[w]]}
    /\ Return(w)
    /\ UNCHANGED <<res, seen>>

\* The server gets to an abandoned PUT.
LandLate(m) ==
    /\ wire' = wire \ {m}
    /\ IF unless_changed(m.event, m.found)
         THEN res' = [res EXCEPT ![UrlOf[m.event]] = m.event]
         ELSE UNCHANGED res
    /\ UNCHANGED <<seen, pc, ev, found, tries, resends>>

\* router.rs file_single after Created or Updated: seen.rs mark, which may
\* fail without anybody noticing.
mark(w) ==
    /\ pc[w] = "filed"
    /\ \/ Gated /\ seen' = [seen EXCEPT ![UidOf[ev[w]]] = ev[w]]
       \/ UNCHANGED seen
    /\ Return(w)
    /\ UNCHANGED <<res, wire>>

\* The process dies with the worker anywhere but waiting for a PUT (Abandon).
Crash(w) ==
    /\ pc[w] \in {"lookup", "decide", "filed"}
    /\ Return(w)
    /\ UNCHANGED <<res, seen, wire>>

\* The user's calendar client saves a version that is not older.
UserSave(e) ==
    /\ "save" \in UserMay
    /\ ~ event_is_newer(res[UrlOf[e]], e)
    /\ Dated(e)
    /\ res' = [res EXCEPT ![UrlOf[e]] = e]
    /\ UNCHANGED <<seen, wire, pc, ev, found, tries, resends>>

\* The user deletes the event or the file.
UserDelete(u) ==
    /\ "delete" \in UserMay
    /\ res[u] # Absent
    /\ res' = [res EXCEPT ![u] = Absent]
    /\ deleted' = TRUE
    /\ UNCHANGED <<seen, wire, pc, ev, found, tries, resends>>

Step(w) ==
    \/ SkipSeen(w)
    \/ NotSeen(w)
    \/ get_if_exists(w)
    \/ log_kept(w)
    \/ Replace(w)
    \/ PutLands(w)
    \/ PutRetried(w)
    \/ PutRefused(w)
    \/ mark(w)

Filing ==
    \/ \E w \in Worker, e \in Event : Begin(w, e)
    \/ \E w \in Worker : Step(w)
    \/ \E w \in Worker : Fail(w) \/ Abandon(w) \/ Crash(w)
    \/ \E m \in wire : LandLate(m)

Next ==
    /\ \/ Filing /\ UNCHANGED deleted
       \/ \E e \in Event : UserSave(e) /\ UNCHANGED deleted
       \/ \E u \in Url : UserDelete(u)
    /\ UNCHANGED sink

Spec == Init /\ [][Next]_vars

-----------------------------------------------------------------------------

TypeOK ==
    /\ res \in [Url -> Event \cup {Absent}]
    /\ seen \in [Uid -> Event \cup {Absent}]
    /\ wire \subseteq Put
    /\ pc \in [Worker -> Control]
    /\ ev \in [Worker -> Event \cup {Absent}]
    /\ found \in [Worker -> Event \cup {Absent}]
    /\ tries \in [Worker -> 0 .. MaxAttempts - 1]
    /\ resends \in [Worker -> 0 .. MaxResends]
    /\ sink \in Sink
    /\ deleted \in BOOLEAN

\* What is at u is e or a take that may not give way to it.
Covers(u, e) ==
    /\ res[u] # Absent
    /\ Dated(e) => Dated(res[u]) /\ DateOf[res[u]] >= DateOf[e]

\* Every event with this URL carries a date.
AllDated(u) == \A e \in Event : UrlOf[e] = u => Dated(e)

(***************************************************************************)
(* No PUT replaces a newer take, wherever it was written from and however  *)
(* late the PUT lands (caldav.rs: "another writer, or the user's calendar  *)
(* client, can't slip a newer take in underneath it"; webdav.rs update).   *)
(***************************************************************************)
NeverOverwritesNewer ==
    [][\A u \in Url :
          AllDated(u) /\ res'[u] # Absent => ~ event_is_newer(res[u], res'[u])]_vars

(***************************************************************************)
(* As long as the user deletes nothing, seen.db vouches only for what is   *)
(* on the calendar, as filed or in a newer take, whatever order the PUTs   *)
(* and the marks of concurrent workers come in: skipping an event it knows *)
(* loses nothing (seen.rs: "a stale store costs at most some wasted        *)
(* network round-trips, never lost data").  Not so once the user deletes:  *)
(* an older take filed afterwards stays, and the newer one is skipped.     *)
(***************************************************************************)
SeenIsFiled ==
    ~ deleted =>
        \A k \in Uid :
            seen[k] # Absent /\ AllDated(UrlOf[seen[k]])
                => Covers(UrlOf[seen[k]], seen[k])
=============================================================================
