------------------------------ MODULE Dashboard ------------------------------
(***************************************************************************)
(* The web dashboard (web.rs) while the daemons file: one reader opens a   *)
(* page, leafs through it and follows its links; a request lists the       *)
(* directories, then reads the records one by one, with no lock, and every *)
(* page is made from the directories anew.  Requests share nothing, so one *)
(* at a time is enough.                                                    *)
(*                                                                         *)
(* The daemons write through temporary files (sink.rs write_atomic).  The  *)
(* cards of the overview are counted in one step.                          *)
(***************************************************************************)
EXTENDS DashboardPages

CONSTANTS
    Configs,    \* what is configured, [Kind -> {"dir", "remote", "none"}]
    Disks,      \* what may be on file to begin with, [files -> Body]
    Filings,    \* what may be filed, sequences of [file, fields]
    Queries,    \* the pages a reader begins with: [how, kind, year, n, matching]
    MaxFilings, MaxMoves, MaxVisits, LastDay    \* bounds

IsFields(fields) == \A key \in DOMAIN fields : fields[key] \in Nat \cup {Garbled}

\* A reader begins with the first page.
DashboardAssumption ==
    /\ PagesAssumption
    /\ Configs \subseteq [Kind -> {"dir", "remote", "none"}]
    /\ \A d \in Disks :
          /\ IsFiniteSet(DOMAIN d)
          /\ \A f \in DOMAIN d : /\ f \in FileName
                                  /\ d[f].whole /\ d[f].mtime \in Nat /\ IsFields(d[f].fields)
    /\ \A filing \in Filings :
          /\ filing \in Seq({filing[i] : i \in DOMAIN filing})
          /\ \A i \in DOMAIN filing : filing[i].file \in FileName /\ IsFields(filing[i].fields)
    /\ \A q \in Queries :
          /\ q \in [how : {"list", "all", "index", "api"}, kind : Kind \cup {"all"}, year : Nat,
                    n : {1}, matching : SUBSET Nat]
          /\ q.kind = "all" <=> q.how \in {"all", "index"}

VARIABLES
    config,
    disk,       \* a partial function from files to their bodies
    writing,    \* what the daemon has still to write
    temp,       \* its temporary file is there
    filings, moves, visits,
    today,
    query,      \* the request
    stage,      \* "idle", "list", "read", "exists" or "answered"
    dirs,       \* [kind, year] still to be listed
    todo,       \* the names listed and not yet read
    rows,
    cards,      \* [Kind -> Nat], for the overview
    answer,     \* [status, shown, page, pages]
    link,       \* the file the last request was about, or NoLink
    before,     \* history: the names on file when the reader began,
    seen,       \* what was shown since,
    altered,    \* whether that may have changed its order since,
    quiet,      \* whether nothing was written during this request,
    lacking     \* and the groups that had no sidecar when they were listed

vars == <<config, disk, writing, temp, filings, moves, visits, today, query, stage, dirs,
          todo, rows, cards, answer, link, before, seen, altered, quiet, lacking>>

server == <<query, stage, dirs, todo, rows, cards, answer, link, seen, lacking>>
files == <<disk, writing, temp, filings, moves>>

Partial == [whole |-> FALSE, fields |-> <<>>, mtime |-> today]
NoLink == [kind |-> "none"]
NoAnswer == [status |-> 0, shown |-> {}, page |-> 0, pages |-> 0]

\* AppState: a kind can be browsed if it is filed in a directory.
Browsable(k) == config[k] = "dir"

OnFile == DOMAIN disk

Init ==
    /\ config \in Configs
    /\ disk \in {d \in Disks : \A f \in DOMAIN d : config[f.kind] = "dir"}
    /\ writing = <<>> /\ temp = FALSE
    /\ filings = 0 /\ moves = 0 /\ visits = 0
    /\ today = 1
    /\ query = [how |-> "none"]
    /\ stage = "idle"
    /\ dirs = {} /\ todo = {} /\ rows = {} /\ cards = <<>>
    /\ answer = NoAnswer
    /\ link = NoLink
    /\ before = {} /\ seen = {}
    /\ altered = FALSE /\ quiet = TRUE
    /\ lacking = {}

-----------------------------------------------------------------------------
(* The daemons. *)

Target == writing[1].file

\* A record, perhaps with its document, or a ticket's blob and sidecar.
File(filing) ==
    /\ writing = <<>> /\ filings < MaxFilings
    /\ Browsable(filing[1].file.kind)
    /\ writing' = filing
    /\ filings' = filings + 1
    /\ UNCHANGED <<config, disk, temp, moves, today, visits, before, altered, quiet>>
    /\ UNCHANGED server

\* On the page of everything a ticket gets another date when its sidecar lands,
\* and its temporary file is a row of its own for as long as it is there.
Retimed == query.how = "all" /\ Target.kind = "tickets"

write_tmp ==
    /\ writing # <<>> /\ ~ temp
    /\ LET tmp == Temp(Target.kind, Target.year) IN
       disk' = [f \in OnFile \cup {tmp} |-> IF f = tmp THEN Partial ELSE disk[f]]
    /\ temp' = TRUE
    /\ altered' = (altered \/ Retimed)
    /\ quiet' = FALSE
    /\ UNCHANGED <<config, writing, filings, moves, today, visits, before>>
    /\ UNCHANGED server

persist ==
    /\ writing # <<>> /\ temp
    /\ LET tmp == Temp(Target.kind, Target.year)
           body == [whole |-> TRUE, fields |-> writing[1].fields, mtime |-> disk[tmp].mtime]
       IN  disk' = [f \in (OnFile \ {tmp}) \cup {Target} |-> IF f = Target THEN body ELSE disk[f]]
    /\ writing' = Tail(writing)
    /\ temp' = FALSE
    /\ altered' = (altered \/ Target \in OnFile \/ Retimed)
    /\ quiet' = FALSE
    /\ UNCHANGED <<config, filings, moves, today, visits, before>>
    /\ UNCHANGED server

\* The daemon dies; its temporary file stays.
Crash ==
    /\ writing # <<>>
    /\ writing' = <<>> /\ temp' = FALSE
    /\ UNCHANGED <<config, disk, filings, moves, today, visits, before, altered, quiet>>
    /\ UNCHANGED server

\* reservations.rs reindex gives a record another name.
Reindexed(f) ==
    /\ moves < MaxMoves
    /\ f \in Listed(OnFile, "reservations")
    /\ LET to == [f EXCEPT !.slug = @ + 10] IN
        /\ to \notin OnFile
        /\ disk' = [g \in (OnFile \ {f}) \cup {to} |-> IF g = to THEN disk[f] ELSE disk[g]]
    /\ moves' = moves + 1
    /\ altered' = TRUE /\ quiet' = FALSE
    /\ UNCHANGED <<config, writing, temp, filings, today, visits, before>>
    /\ UNCHANGED server

Midnight ==
    /\ today < LastDay
    /\ today' = today + 1
    /\ quiet' = FALSE
    /\ UNCHANGED <<config, visits, before, altered>>
    /\ UNCHANGED files /\ UNCHANGED server

-----------------------------------------------------------------------------
(* A request. *)

Kinds(q) == IF q.how \in {"all", "index"} THEN {k \in Kind : Browsable(k)} ELSE {q.kind}

\* read_dir_or_empty: a directory that is not there yet has nothing in it.
Root(k) ==
    IF k \in FlatKind THEN {[kind |-> k, year |-> Flat]}
    ELSE {[kind |-> k, year |-> f.year] : f \in {g \in OnFile : g.kind = k}}

Answer(status, shown, page, pages) ==
    /\ answer' = [status |-> status, shown |-> shown, page |-> page, pages |-> pages]
    /\ stage' = "answered"
    /\ dirs' = {} /\ todo' = {}

\* The router hands the request to its handler; what is not configured is not
\* there (require_dir).
Handle(q) ==
    /\ query' = q
    /\ quiet' = TRUE
    /\ lacking' = {}
    /\ link' = NoLink
    /\ rows' = {}
    /\ IF q.how \in {"list", "api"} /\ ~ Browsable(q.kind)
         THEN Answer(404, {}, 0, 0) /\ cards' = <<>>
         ELSE /\ stage' = "list"
              /\ dirs' = UNION {Root(k) : k \in Kinds(q)}
              /\ todo' = {}
              /\ answer' = NoAnswer
              /\ cards' = IF q.how = "index"
                            THEN [k \in Kinds(q) |-> Cardinality(count_year(OnFile, k))]
                            ELSE <<>>
    /\ UNCHANGED <<config, today>>
    /\ UNCHANGED files

\* The reader opens a page ...
Visit(q) ==
    /\ stage \in {"idle", "answered"} /\ visits < MaxVisits
    /\ visits' = visits + 1
    /\ before' = OnFile
    /\ seen' = {}
    /\ altered' = FALSE
    /\ Handle(q)

\* ... and goes on to the next, with the same search and year (Pager).
NextPage ==
    /\ stage = "answered" /\ answer.status = 200 /\ link = NoLink
    /\ query.how \in {"list", "all"} /\ answer.page < answer.pages
    /\ seen' = seen \cup answer.shown
    /\ Handle([query EXCEPT !.n = answer.page + 1])
    /\ UNCHANGED <<visits, before, altered>>

Names(d) ==
    LET there == {f \in OnFile : f.kind = d.kind /\ f.year = d.year}
    IN  IF d.kind = "tickets" THEN Groups(there) ELSE Listed(there, d.kind)

list_dir(d) ==
    /\ stage = "list" /\ todo = {} /\ d \in dirs
    /\ dirs' = dirs \ {d}
    /\ todo' = Names(d)
    /\ UNCHANGED <<config, today, visits, query, stage, rows, cards, answer, link, before,
                   seen, altered, quiet, lacking>>
    /\ UNCHANGED files

\* What a page shows of record or ticket f.
Row(f, fields, mtime, links) ==
    [kind |-> f.kind, year |-> f.year, slug |-> f.slug, links |-> links,
     active |-> f.kind = "subscriptions" /\ query.how = "list"
                    /\ is_subscription_active(fields, today),
     date |-> IF query.how \in {"all", "index"} THEN FeedDate(f.kind, fields, mtime)
              ELSE ListedDate(f.kind, fields, mtime)]

\* The year chip and the search; neither applies to the overview, nor the year
\* to what has none.  The events page has no search.
Wanted(f) ==
    \/ query.how = "index"
    \/ query.kind = "events"
    \/ /\ f.year # Flat /\ query.how # "all" => query.year \in {Flat, f.year}
       /\ matches_search(query, f.slug)

Shown(f, more) ==
    /\ todo' = todo \ {f}
    /\ rows' = rows \cup more
    /\ UNCHANGED <<stage, dirs, answer>>

\* One record that cannot be read fails the page; an event, or the sidecar of
\* a ticket, is shown without its fields.
read_json(f) ==
    /\ stage = "list" /\ f \in todo
    /\ CASE f.kind = "tickets" ->
              LET meta == {g \in f.files : g.ext = "meta.json" /\ g \in OnFile /\ disk[g].whole}
                  fields == IF meta = {} THEN <<>> ELSE disk[CHOOSE g \in meta : TRUE].fields
                  mtimes == {Undated} \cup {disk[g].mtime : g \in f.files \cap OnFile}
                  newest == CHOOSE d \in mtimes : \A e \in mtimes : e <= d
              IN  /\ Shown(f, IF Wanted(f) THEN {Row(f, fields, newest, f.files)} ELSE {})
                  /\ lacking' = IF meta = {} THEN lacking \cup {<<f.year, f.slug>>} ELSE lacking
         [] f.kind = "events" ->
              LET row == IF f \in OnFile THEN Row(f, disk[f].fields, disk[f].mtime, {f})
                         ELSE Row(f, <<>>, today, {f})
              IN  Shown(f, IF Wanted(f) THEN {row} ELSE {}) /\ UNCHANGED lacking
         [] OTHER ->
              /\ IF f \in OnFile /\ disk[f].whole
                   THEN Shown(f, IF Wanted(f) THEN {Row(f, disk[f].fields, disk[f].mtime,
                                                        {f} \cup sibling_blobs(OnFile, f))}
                                 ELSE {})
                   ELSE Answer(500, {}, 0, 0) /\ UNCHANGED rows
              /\ UNCHANGED lacking
    /\ UNCHANGED <<config, today, visits, query, cards, link, before, seen, altered, quiet>>
    /\ UNCHANGED files

Ready == stage = "list" /\ dirs = {} /\ todo = {}

Served ==
    /\ UNCHANGED <<config, today, visits, query, rows, cards, link, before, seen, altered, quiet,
                   lacking>>
    /\ UNCHANGED files

\* The lists that come in pages, and those that do not.
RenderList ==
    /\ Ready /\ query.how = "list"
    /\ IF query.kind \in {"events", "subscriptions", "tickets"}
         THEN Answer(200, rows, 1, 1)
         ELSE \E order \in Sorted(rows, ListOrder(rows)) :
                LET page == paginate(order, query.n)
                IN  Answer(200, {page[i] : i \in DOMAIN page},
                           Clamped(query.n, Len(order)), Pages(Len(order)))
    /\ Served

\* Everything: what is upcoming on the first page only, the rest in pages.
list_all ==
    /\ Ready /\ query.how = "all"
    /\ \E order \in Sorted(Recent(rows, today), Latest(rows)) :
        LET page == paginate(order, query.n)
        IN  Answer(200, {page[i] : i \in DOMAIN page}
                            \cup (IF query.n <= 1 THEN Upcoming(rows, today) ELSE {}),
                   Clamped(query.n, Len(order)), Pages(Len(order)))
    /\ Served

\* The overview: the cards and the first rows of either section.
index ==
    /\ Ready /\ query.how = "index"
    /\ \E next \in Sorted(Upcoming(rows, today), Soonest(rows)),
          last \in Sorted(Recent(rows, today), Latest(rows)) :
        LET Top(s) == {s[i] : i \in {j \in DOMAIN s : j <= FEED_HOMEPAGE_LIMIT}}
        IN  /\ answer' = [status |-> 200, shown |-> Top(next) \cup Top(last), page |-> 1,
                          pages |-> IF Cardinality(rows) > FEED_HOMEPAGE_LIMIT THEN 2 ELSE 1]
            /\ stage' = "answered"
            /\ UNCHANGED <<dirs, todo>>
    /\ Served

\* The JSON of a kind: all of it at once.
api ==
    /\ Ready /\ query.how = "api"
    /\ Answer(200, rows, 1, 1)
    /\ Served

-----------------------------------------------------------------------------
(* The reader follows a link of the page. *)

Links(r) ==
    {[to |-> "file", kind |-> r.kind, file |-> f] : f \in r.links}
        \cup (IF r.kind = "events" THEN {}
              ELSE {[to |-> "view", kind |-> r.kind,
                     file |-> [kind |-> r.kind, year |-> r.year, slug |-> r.slug,
                               ext |-> IF r.kind = "tickets" THEN "meta.json" ELSE "json"]]})

Linked == UNION {Links(r) : r \in answer.shown}

Follow(l) ==
    /\ stage = "answered" /\ answer.status = 200 /\ link = NoLink /\ l \in Linked
    /\ query.how = "list"
    /\ link' = l
    /\ stage' = "read"
    /\ UNCHANGED <<config, today, visits, query, dirs, todo, rows, cards, answer, before, seen,
                   altered, quiet, lacking>>
    /\ UNCHANGED files

Respond(status) ==
    /\ answer' = [NoAnswer EXCEPT !.status = status]
    /\ stage' = "answered"
    /\ UNCHANGED <<config, today, visits, query, dirs, todo, rows, cards, link, before, seen,
                   altered, quiet, lacking>>
    /\ UNCHANGED files

\* read_status: no such file is 404.
Status(f) == IF f \notin OnFile THEN 404 ELSE IF disk[f].whole THEN 200 ELSE 500

\* The files are served as they are (serve_shard_file).
serve_file ==
    /\ stage = "read" /\ link.to = "file"
    /\ Respond(IF link.file \in OnFile THEN 200 ELSE 404)

\* The page of one record: read_shard_json or read_flat_json.
View(k) ==
    /\ stage = "read" /\ link.to = "view" /\ link.kind = k
    /\ Respond(Status(link.file))

view_bill == View("bills")
view_receipt == View("receipts")
view_reservation == View("reservations")
view_parcel == View("parcels")
view_subscription == View("subscriptions")

view_ticket ==
    /\ stage = "read" /\ link.to = "view" /\ link.kind = "tickets"
    /\ IF Status(link.file) = 200
         THEN Respond(200)
         ELSE /\ stage' = "exists"
              /\ UNCHANGED <<config, today, visits, query, dirs, todo, rows, cards, answer, link,
                             before, seen, altered, quiet, lacking>>
              /\ UNCHANGED files

\* A sidecar that cannot be read is missing if it is not there when that is
\* looked at.
SidecarMissing ==
    /\ stage = "exists"
    /\ Respond(IF link.file \in OnFile THEN 500 ELSE 404)

-----------------------------------------------------------------------------

Next ==
    \/ \E filing \in Filings : File(filing)
    \/ write_tmp \/ persist \/ Crash
    \/ \E f \in OnFile : Reindexed(f)
    \/ Midnight
    \/ \E q \in Queries : Visit(q)
    \/ NextPage
    \/ \E d \in dirs : list_dir(d)
    \/ \E f \in todo : read_json(f)
    \/ RenderList \/ list_all \/ index \/ api
    \/ \E l \in Linked : Follow(l)
    \/ serve_file \/ view_bill \/ view_receipt \/ view_reservation
    \/ view_parcel \/ view_subscription \/ view_ticket \/ SidecarMissing

Spec == Init /\ [][Next]_vars

-----------------------------------------------------------------------------

\* The entries of a page, given the names on file.
Entries(names, k) ==
    IF k = "tickets" THEN {g \in Groups(names) : g.slug # NoStem} ELSE Listed(names, k)

Like(f, r) == f.kind = r.kind /\ f.year = r.year /\ f.slug = r.slug

\* On the page of everything, rows of one date come in the directory's order.
Tied(f) ==
    /\ query.how = "all"
    /\ \E r, s \in rows : r # s /\ r.date = s.date /\ Like(f, r)

(***************************************************************************)
(* A reader who leafs through a list, or through everything, to its last   *)
(* page has been shown all that was on file when they began and that they  *)
(* asked for, although each page is made from the directories anew and the *)
(* daemons go on filing - unless records were replaced or moved, or among  *)
(* everything a ticket was filed, and they may have been past what is      *)
(* listed elsewhere since (paginate, the sort_by of the list handlers,     *)
(* split_feed).                                                            *)
(***************************************************************************)
NothingSkipped ==
    /\ stage = "answered" /\ link = NoLink /\ answer.status = 200
    /\ query.how \in {"list", "all"} /\ answer.page = answer.pages
    /\ ~ altered
    => \A k \in Kinds(query) : \A f \in Entries(before, k) :
          Wanted(f) /\ ~ Tied(f) => \E r \in seen \cup answer.shown : Like(f, r)

(***************************************************************************)
(* The dashboard reports a failure of its own only when records are being  *)
(* renamed under it, or when the sidecar of a ticket lands just as it is   *)
(* missed: never for a directory that is not there yet, nor for a file     *)
(* that is being written (AppError, read_status, view_ticket).             *)
(***************************************************************************)
FaultsAreReal ==
    answer.status = 500 =>
        \/ link = NoLink /\ moves > 0
        \/ link # NoLink /\ link.kind = "tickets" /\ filings > 0

(***************************************************************************)
(* A link on a page leads somewhere, whatever is filed before the reader   *)
(* follows it, unless the record was renamed, or the ticket's sidecar was  *)
(* not there yet, or what is linked never was a ticket (sibling_blobs,     *)
(* serve_shard_file, the view handlers).                                   *)
(***************************************************************************)
LinksLead ==
    stage = "answered" /\ link # NoLink /\ answer.status # 200 =>
        \/ link.kind = "reservations" /\ moves > 0
        \/ link.kind = "tickets" /\ link.file.slug = NoStem
        \/ link.to = "view" /\ <<link.file.year, link.file.slug>> \in lacking

(***************************************************************************)
(* The overview adds up: when nothing was filed meanwhile, the card of a   *)
(* kind counts what the feed has of it, and when the overview does not     *)
(* show all of the feed it links to where it is (count_flat, count_year,   *)
(* count_ticket_groups, build_feed, index).                                *)
(***************************************************************************)
OverviewAddsUp ==
    stage = "answered" /\ query.how = "index" /\ link = NoLink /\ answer.status = 200 =>
        /\ quiet => \A k \in Kinds(query) : cards[k] = Cardinality({r \in rows : r.kind = k})
        /\ answer.shown # rows => answer.pages = 2

(***************************************************************************)
(* Whatever is filed while it answers, the dashboard's answers are true to *)
(* the archives (the three above).                                         *)
(***************************************************************************)
AnswersAreTrue == FaultsAreReal /\ LinksLead /\ OverviewAddsUp
=============================================================================
