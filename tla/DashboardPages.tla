--------------------------- MODULE DashboardPages ---------------------------
(***************************************************************************)
(* What the dashboard (web.rs) makes of the files it has read: which of    *)
(* them it lists, by which date, in which order, on which page.            *)
(*                                                                         *)
(* A file is its directory, its stem and its extension.  The body of a     *)
(* record is abstracted to its date fields, a partial function.  Dates are *)
(* days, and a file is modified (mtime) on the day it is written.          *)
(***************************************************************************)
EXTENDS Naturals, FiniteSets, Sequences

CONSTANTS
    Garbled,                \* a date that does not parse
    PAGE_SIZE,              \* rows on a page
    FEED_HOMEPAGE_LIMIT     \* rows in a section of the overview

PagesAssumption ==
    /\ PAGE_SIZE \in Nat \ {0}
    /\ FEED_HOMEPAGE_LIMIT \in Nat

Undated == 0       \* no date; it comes after all others
Flat == 0       \* the "year" of a directory that has no year shards
NoStem == 0     \* the stem of ".tmpXXXXXX", as rsplit_once('.') sees it

Kind == {"events", "bills", "parcels", "receipts", "subscriptions", "reservations", "tickets"}
FlatKind == {"events", "parcels", "subscriptions"}

Extension(kind) == IF kind = "events" THEN "ics" ELSE "json"

\* What the sinks file, the documents beside the records included.
FileName ==
    {f \in [kind : Kind, year : Nat, slug : Nat \ {NoStem},
            ext : {"ics", "json", "meta.json", "pdf"}] :
        f.kind \in FlatKind => f.year = Flat}

\* The temporary file of sink.rs write_atomic: its name has no extension.
Temp(kind, year) == [kind |-> kind, year |-> year, slug |-> NoStem, ext |-> "none"]

\* walk_flat_json, walk_year_json and the loop over the events: the names
\* that are records.
Listed(files, kind) == {f \in files : f.kind = kind /\ f.ext = Extension(kind)}

\* group_ticket_files: what has a dot in its name belongs to the ticket whose
\* name comes before it.
Groups(files) ==
    {[kind |-> "tickets", year |-> f.year, slug |-> f.slug,
      files |-> {g \in files : g.kind = "tickets" /\ g.year = f.year /\ g.slug = f.slug}]
        : f \in {g \in files : g.kind = "tickets"}}

\* The overview's cards: count_flat, count_year, count_active_subscriptions
\* and count_ticket_groups.
count_year(files, kind) ==
    IF kind = "tickets" THEN Groups(files)
    ELSE {f \in files : f.kind = kind /\ f.ext = Extension(kind)}

\* Mutant: whatever lies in the directory.
sibling_blobs_Any(files, f) ==
    {g \in files : g.kind = f.kind /\ g.year = f.year /\ g.ext # "json"}

\* The documents that lie beside a record.
sibling_blobs(files, f) ==
    {g \in files : g.kind = f.kind /\ g.year = f.year /\ g.slug = f.slug /\ g.ext # "json"}

-----------------------------------------------------------------------------

\* The first of the fields that there is.
pick_str(fields, keys) ==
    LET there == {i \in DOMAIN keys : keys[i] \in DOMAIN fields}
    IN  IF there = {} THEN Undated
        ELSE fields[keys[CHOOSE i \in there : \A j \in there : i <= j]]

parse_any_date(raw) == IF raw = Garbled THEN Undated ELSE raw

Dated(fields, keys) == parse_any_date(pick_str(fields, keys))

Else(date, other) == IF date = Undated THEN other ELSE date

\* The date each list is sorted by.
list_bills(fields) == Dated(fields, <<"dueDate", "paymentDueDate", "date">>)

list_parcels(fields) ==
    Dated(fields, <<"actualDeliveryTime", "expectedArrivalUntil", "receivedAt",
                    "expectedArrivalFrom", "seen_at">>)

list_receipts(fields) == Dated(fields, <<"orderDate", "date">>)

list_subscriptions(fields) == Dated(fields, <<"orderDate", "receivedAt">>)

\* An unreadable date does not count.
reservation_listed_date(fields) ==
    Else(Dated(fields, <<"departureTime", "startDate", "doorTime", "checkinTime", "startTime">>),
         Dated(fields, <<"receivedAt">>))

\* For want of a date in the sidecar, the latest mtime of the group.
list_tickets(fields, mtime) == Else(Dated(fields, <<"receivedAt">>), mtime)

ListedDate(kind, fields, mtime) ==
    CASE kind = "bills" -> list_bills(fields)
      [] kind = "parcels" -> list_parcels(fields)
      [] kind = "receipts" -> list_receipts(fields)
      [] kind = "subscriptions" -> list_subscriptions(fields)
      [] kind = "reservations" -> reservation_listed_date(fields)
      [] kind = "tickets" -> list_tickets(fields, mtime)
      [] kind = "events" -> Undated

\* The date of a record in the feed, but for reservations and tickets.
build_feed(kind, fields) ==
    CASE kind = "events" -> Dated(fields, <<"DTSTART">>)
      [] kind = "bills" ->
            Dated(fields, <<"receivedAt", "dueDate", "paymentDueDate", "date", "issueDate">>)
      [] kind = "parcels" ->
            Dated(fields, <<"actualDeliveryTime", "expectedArrivalUntil",
                            "expectedArrivalFrom", "receivedAt">>)
      [] kind = "receipts" -> Dated(fields, <<"receivedAt", "orderDate", "date">>)
      [] kind = "subscriptions" ->
            Else(Dated(fields, <<"receivedAt">>),
                 Dated(fields, <<"renewalDate", "nextPaymentDate">>))

\* In the feed everything has a date.
FeedDate(kind, fields, mtime) ==
    CASE kind = "reservations" -> Else(reservation_listed_date(fields), mtime)
      [] kind = "tickets" -> list_tickets(fields, mtime)
      [] OTHER -> Else(build_feed(kind, fields), mtime)

\* A subscription counts as active for twice its cycle after the last mail,
\* here two days, or for good if no mail is dated.
is_subscription_active(fields, today) ==
    LET received == Dated(fields, <<"receivedAt">>)
    IN  received = Undated \/ today <= received + 2

-----------------------------------------------------------------------------

\* Mutant: rows of the same date are left as the directory has them.
RowBefore_ByDate(r, s) ==
    \/ r.active /\ ~ s.active
    \/ r.active = s.active /\ r.date > s.date

\* The order of the lists: what is active first (subscriptions), newest
\* first, and then by year and name.
RowBefore(r, s) ==
    \/ r.active /\ ~ s.active
    \/ /\ r.active = s.active
       /\ \/ r.date > s.date
          \/ r.date = s.date /\ r.year > s.year
          \/ r.date = s.date /\ r.year = s.year /\ r.slug < s.slug

\* Rows put in an order; those that it does not tell apart come as the
\* directory lists them, which may be in any way.
Sorted(rows, precedes) ==
    LET n == Cardinality(rows)
    IN  {s \in [1..n -> rows] :
            \A i, j \in 1..n : i < j => s[i] # s[j] /\ <<s[j], s[i]>> \notin precedes}

ListOrder(rows) == {p \in rows \X rows : RowBefore(p[1], p[2])}
Soonest(rows) == {p \in rows \X rows : p[1].date < p[2].date}
Latest(rows) == {p \in rows \X rows : p[1].date > p[2].date}

\* split_feed: what is upcoming, and what is past.
Upcoming(rows, today) == {r \in rows : r.date >= today}
Recent(rows, today) == rows \ Upcoming(rows, today)

Pages(total) == IF total = 0 THEN 1 ELSE (total + PAGE_SIZE - 1) \div PAGE_SIZE

\* A page beyond the last is the last.
Clamped(n, total) ==
    IF n < 1 THEN 1 ELSE IF n > Pages(total) THEN Pages(total) ELSE n

\* The rows of page n.
paginate(rows, n) ==
    LET page == Clamped(n, Len(rows))
        end == page * PAGE_SIZE
    IN  SubSeq(rows, (page - 1) * PAGE_SIZE + 1, IF end > Len(rows) THEN Len(rows) ELSE end)

\* matches_search: the rows that a search finds are given by their names.
matches_search(query, slug) == slug \in query.matching
=============================================================================
