----------------------------- MODULE MCProcess -----------------------------
(* Values for what surrounds the filing.                                   *)
EXTENDS Process, TLC
CONSTANT None

(***************************************************************************)
(* Pipeline: a vendor's mail, well signed, unsigned from before and after  *)
(* it signed, and forged; one that a friend forwards as an attachment and  *)
(* inline; and an attachment from somebody who is not trusted.             *)
(***************************************************************************)
vendor == <<"com", "vendor">>
evil == <<"com", "evil">>
friend == <<"com", "friend">>

Leaf(type) == [type |-> type, name |-> None, inner |-> None, lines |-> <<>>]
Passed(d) == [pass |-> TRUE, d |-> d, i |-> None]
Mime(from, leaves, results) ==
    [from |-> from, subject |-> None, leaves |-> leaves, results |-> results]
Both == <<Leaf("plain"), Leaf("html")>>
Attached == <<Leaf("plain"), [Leaf("rfc822") EXCEPT !.inner = Mime(vendor, Both, <<>>)]>>
Line(line, value) == [line |-> line, value |-> value]
Quoted ==
    <<[Leaf("plain") EXCEPT !.lines =
         <<Line("label", "x"), Line("from", vendor), Line("text", "x"), Line("from", evil)>>],
      Leaf("html")>>
Delivered(message, trusted, received_at, signed, oversized) ==
    [message |-> message, trusted |-> trusted, received_at |-> received_at,
     signed |-> signed, oversized |-> oversized]

MCMail ==
    {Delivered(Mime(vendor, Both, <<{Passed(vendor)}>>), FALSE, 5, {vendor}, big) : big \in BOOLEAN} \cup
    {Delivered(Mime(vendor, Both, <<{Passed(evil)}, {Passed(vendor)}>>), FALSE, 5, {evil}, FALSE),
     Delivered(Mime(vendor, Both,
                    <<{[pass |-> FALSE, d |-> vendor, i |-> None],
                       [pass |-> TRUE, d |-> None, i |-> evil]}>>), FALSE, 1, {evil}, FALSE),
     Delivered(Mime(vendor \o <<"sub">>, Both, <<{Passed(vendor)}>>), FALSE, None, {vendor}, FALSE),
     Delivered(Mime(friend, Attached, <<{Passed(friend)}>>), TRUE, 5, {friend}, FALSE),
     Delivered(Mime(friend, Quoted, <<{Passed(friend)}>>), TRUE, 5, {friend}, FALSE),
     Delivered(Mime(evil, Attached, <<{Passed(evil)}>>), FALSE, 5, {evil}, FALSE)}

Wanting(domains, requires, dkim, before) ==
    [from_domains |-> domains, subjects |-> {}, requires |-> requires, require_dkim |-> dkim,
     unsigned_before |-> before]
MCExtractor ==
    <<Wanting({[wildcard |-> TRUE, domain |-> vendor]}, {[by |-> "type", type |-> "html"]},
              {[entry |-> "domain", domain |-> vendor]}, 3),
      Wanting({}, {}, {[entry |-> "@from"]}, None),
      Wanting({}, {[by |-> "type", type |-> "pdf"]}, {}, None)>>

Art(kind, slug, ext) == [kind |-> kind, slug |-> slug, ext |-> ext]
MCOutput ==
    {<<>>,
     <<Art("reservation", "a", "json"), Art("reservation", "b", "json"), Art("ticket", "a", "pdf"),
       Art("ticket", "a", "pkpass")>>,
     <<Art("bill", "a", "pdf"), Art("bill", "a", "json")>>,
     <<Art("receipt", "a", "json"), Art("receipt", "a", "pdf"), Art("receipt", "z", "pdf"),
       Art("event", "a", "ics")>>}
Targets == {"reservation", "bill", "parcel", "subscription", "receipt", "ticket"}
MCConfig ==
    {[enforce |-> TRUE, dry_run |-> d, targets |-> Targets, forward |-> TRUE] : d \in BOOLEAN} \cup
    {[enforce |-> e, dry_run |-> FALSE, targets |-> {IF e THEN "receipt" ELSE "bill"},
      forward |-> FALSE] : e \in BOOLEAN}

(***************************************************************************)
(* ExtractorRun: every script of up to two operations, and some that fill  *)
(* a pipe while the other end of another one is full.                      *)
(***************************************************************************)
Op == {"read", "stdout", "stderr", "artifact", "unknown", "badmanifest", "fork"}
MCScripts ==
    {<<"nospawn">>, <<"stdout", "stdout", "stderr", "stderr", "read", "succeed">>,
     <<"fork", "stderr", "stderr", "stdout", "stdout", "hang">>,
     <<"read", "read", "read", "artifact", "artifact", "unknown", "succeed">>} \cup
    {Append(s, l) : s \in UNION {[1 .. n -> Op] : n \in 0 .. 2}, l \in {"succeed", "fail", "hang"}}

(***************************************************************************)
(* Discovery: up to two directories of up to two manifests, of two names   *)
(* and orders, any one of them with something wrong.                       *)
(***************************************************************************)
Manifest(name, order, script, faults) ==
    [name |-> name, order |-> order, script |-> script, faults |-> faults]
Sound == {Manifest(n, o, "ok", {}) : n \in {1, 2}, o \in {1, 2}}
Unsound ==
    {Manifest(1, 1, s, {}) : s \in {"missing", "not executable", "unreadable"}} \cup
    {Manifest(1, 1, s, {f}) : s \in {"ok", "not executable"},
        f \in {"unreadable", "yaml", "subject_regex", "unsigned_before", "requires", "from_domains"}}
CDir == {<<>>} \cup {<<m>> : m \in Sound} \cup {<<m, n>> : m \in Sound, n \in Sound}
COdd == {None} \cup {<<m>> : m \in Unsound} \cup {<<m, n>> : m \in {Manifest(1, 2, "ok", {})}, n \in Unsound}
MCListing ==
    {<<d>> : d \in CDir \cup COdd} \cup {<<d, e>> : d \in {<<m>> : m \in Sound}, e \in CDir \cup COdd}
    \cup {<<d, <<>>>> : d \in COdd}
MCOnly == {{}, {1}, {2, 3}}

(***************************************************************************)
(* StatsSummary: the events of an extractor at two times.                  *)
(***************************************************************************)
MCEvent ==
    {[ts |-> t, outcome |-> o, duration |-> IF o = "skipped_dkim" THEN None ELSE 2, domain |-> d] :
        t \in {1, 2}, o \in {"produced", "skipped_dkim"}, d \in {"a", "b", "c"}}

(***************************************************************************)
(* Startup: one setting after another given on the command line, in the    *)
(* configuration, in both or in neither, with each of the credentials or   *)
(* without; and a configuration of everything with one thing wrong in it.  *)
(***************************************************************************)
Plain ==
    [events |-> {}, receipts |-> {}, tickets |-> {}, transport |-> {}, from |-> FALSE,
     to |-> FALSE, url_user |-> {}, user |-> {}, password |-> {}, karrio |-> {},
     seventeentrack |-> FALSE, firefly |-> {}]
Calm ==
    [command |-> "scan", dry_run |-> FALSE, no_dedup |-> FALSE,
     features |-> {"gssapi", "smtp"}, extractors |-> "found", flags |-> Plain,
     config |-> [Plain EXCEPT !.events = {"dir"}], wrong |-> {}, unreadable |-> {}]
Sometimes(setting) == {{}, {setting}}
Token == {"url", "token"}
Variants == SUBSET {"dir", "dav"}
Features == {{"gssapi", "smtp"}, {}}
Of(block, set) == IF block THEN set ELSE {}

\* Every kind of remote target at once, to take one thing from it.
Rich ==
    [Plain EXCEPT !.events = {"dav"}, !.receipts = {"forward"}, !.tickets = {"dav"},
                  !.transport = {"smtp"}, !.from = TRUE, !.to = TRUE,
                  !.url_user = {"tickets", "smtp"}, !.user = {"events"},
                  !.password = {"events", "tickets", "smtp"}, !.karrio = Token,
                  !.seventeentrack = TRUE, !.firefly = Token]

EventsInput ==
    {[Calm EXCEPT !.command = c, !.dry_run = d, !.no_dedup = d, !.flags.events = f,
                  !.config.events = g] :
        c \in {"scan", "replay", "milter"}, d \in BOOLEAN, f \in Variants, g \in Variants} \cup
    {[Calm EXCEPT !.features = e, !.flags.events = f, !.config.events = g, !.flags.password = p,
                  !.flags.url_user = Of("dav" \in f, u), !.config.user = Of("dav" \in g, v),
                  !.config.password = Of("dav" \in g, q)] :
        e \in Features, f \in Variants, g \in Variants, u \in Sometimes("events"),
        p \in Sometimes("events"), v \in Sometimes("events"), q \in Sometimes("events")}
ForwardInput ==
    {[Calm EXCEPT !.features = e, !.flags.receipts = f, !.flags.transport = t,
                  !.flags.from = m, !.flags.to = "forward" \in f, !.flags.password = p,
                  !.flags.url_user = Of("smtp" \in t, u) \cup Of("dav" \in f, v)] :
        e \in Features, f \in SUBSET {"dir", "dav", "forward"},
        t \in SUBSET {"sendmail", "smtp"}, m \in BOOLEAN,
        u \in Sometimes("smtp"), v \in Sometimes("receipts"), p \in {{}, {"smtp", "receipts"}}}
ReceiptsInput ==
    {[Calm EXCEPT !.flags.receipts = f, !.flags.password = p, !.config.receipts = g,
                  !.config.transport = Of("forward" \in g, t), !.config.from = "forward" \in g,
                  !.config.to = "forward" \in g /\ n,
                  !.config.url_user =
                      Of("forward" \in g /\ "smtp" \in t, {"smtp"} \cap u)
                        \cup Of("dav" \in g, {"receipts"} \cap u),
                  !.config.password = Of("forward" \in g, {"smtp"} \cap q)
                                        \cup Of("dav" \in g, {"receipts"} \cap q)] :
        f \in Sometimes("dav"), p \in Sometimes("receipts"),
        g \in SUBSET {"dir", "dav", "forward"}, t \in SUBSET {"sendmail", "smtp"},
        n \in BOOLEAN, u \in {{}, {"smtp", "receipts"}}, q \in {{}, {"smtp", "receipts"}}}
TicketsInput ==
    {[Calm EXCEPT !.flags.tickets = f, !.config.tickets = g, !.flags.password = p,
                  !.flags.url_user = Of("dav" \in f, u), !.config.user = Of("dav" \in g, v),
                  !.config.password = Of("dav" \in g, q)] :
        f \in Variants, g \in Variants, p \in Sometimes("tickets"),
        u \in Sometimes("tickets"), v \in Sometimes("tickets"), q \in Sometimes("tickets")}
ServicesInput ==
    {[Calm EXCEPT !.flags.karrio = k, !.config.karrio = l, !.flags.firefly = x,
                  !.config.firefly = y, !.config.seventeentrack = t] :
        k \in SUBSET Token, l \in {{}, Token}, x \in SUBSET Token, y \in {{}, Token},
        t \in BOOLEAN}
FaultyInput ==
    {[Calm EXCEPT !.config = Rich, !.wrong = w] :
        w \in {{}} \cup {{<<"config", x>>} :
                 x \in {"file", "events", "tickets", "from", "to", "smtp", "karrio", "firefly"}}} \cup
    {[Calm EXCEPT !.config = Rich, !.command = c, !.extractors = x] :
        c \in {"scan", "milter"}, x \in {"refused", "none"}} \cup
    {[Calm EXCEPT !.config = Rich, !.extractors = "unknown"]} \cup
    {[Calm EXCEPT !.config = Rich, !.flags = f, !.unreadable = {<<"config", x>>}] :
        f \in {Plain, [Plain EXCEPT !.password = {"events", "tickets"}]},
        x \in {"events", "tickets", "smtp", "karrio", "seventeentrack", "firefly"}}
MCInput ==
    EventsInput \cup ForwardInput \cup ReceiptsInput \cup TicketsInput \cup
    ServicesInput \cup FaultyInput

(***************************************************************************)
(* Dashboard: a few records of two kinds at a time, some of them without a *)
(* date or with one that does not parse, and one more filed of each kind.  *)
(***************************************************************************)
AKind == {"events", "bills", "parcels", "receipts", "subscriptions", "reservations", "tickets"}
File(k, y, s, e) == [kind |-> k, year |-> y, slug |-> s, ext |-> e]
Body(fields) == [whole |-> TRUE, fields |-> fields, mtime |-> 1]

MCConfigs ==
    {[k \in AKind |-> IF k \in on THEN "dir" ELSE IF k = "receipts" THEN "remote" ELSE "none"] :
        on \in {{"bills", "parcels"}, {"events", "tickets"}, {"receipts", "subscriptions"},
                {"reservations"}}}
MCDisks ==
    {<<>>,
     File("bills", 1, 1, "json") :> Body([dueDate |-> 2])
       @@ File("bills", 1, 1, "pdf") :> Body(<<>>)
       @@ File("bills", 2, 1, "json") :> Body([dueDate |-> 2, receivedAt |-> 1])
       @@ File("bills", 2, 2, "json") :> Body([dueDate |-> Garbled])
       @@ File("parcels", 0, 1, "json") :> Body([expectedArrivalFrom |-> 2]),
     File("parcels", 0, 1, "json") :> Body([expectedArrivalFrom |-> 2])
       @@ File("parcels", 0, 2, "json") :> Body([receivedAt |-> 2])
       @@ File("parcels", 0, 3, "json") :> Body(<<>>),
     File("events", 0, 1, "ics") :> Body([DTSTART |-> 2])
       @@ File("events", 0, 2, "ics") :> Body(<<>>)
       @@ File("tickets", 1, 1, "pdf") :> Body(<<>>)
       @@ File("tickets", 1, 1, "meta.json") :> Body([receivedAt |-> 1]),
     File("receipts", 1, 1, "json") :> Body([orderDate |-> 1])
       @@ File("receipts", 1, 1, "pdf") :> Body(<<>>)
       @@ File("receipts", 1, 2, "json") :> Body([receivedAt |-> 1])
       @@ File("subscriptions", 0, 1, "json") :> Body([orderDate |-> 2])
       @@ File("subscriptions", 0, 2, "json") :> Body([receivedAt |-> 1]),
     File("reservations", 1, 1, "json") :> Body([departureTime |-> Garbled, receivedAt |-> 1])
       @@ File("reservations", 1, 2, "json") :> Body([checkinTime |-> 2])
       @@ File("reservations", 2, 3, "json") :> Body([checkinTime |-> 2])}

Filed(f, fields) == <<[file |-> f, fields |-> fields]>>
MCFilings ==
    {Filed(File("bills", 1, 3, "json"), [dueDate |-> 2])
       \o Filed(File("bills", 1, 3, "pdf"), <<>>),
     Filed(File("parcels", 0, 1, "json"), [actualDeliveryTime |-> 1]),
     Filed(File("parcels", 0, 4, "json"), [receivedAt |-> 1]),
     Filed(File("events", 0, 3, "ics"), [DTSTART |-> 1]),
     Filed(File("tickets", 1, 2, "pdf"), <<>>)
       \o Filed(File("tickets", 1, 2, "meta.json"), [receivedAt |-> 2]),
     Filed(File("receipts", 1, 2, "json"), [orderDate |-> 2]),
     Filed(File("subscriptions", 0, 3, "json"), [receivedAt |-> 2]),
     Filed(File("reservations", 1, 4, "json"), [startTime |-> 1])}

Every == 0 .. 20
Query(how, k, y, m) == [how |-> how, kind |-> k, year |-> y, n |-> 1, matching |-> m]
MCQueries ==
    {Query("list", k, 0, Every) : k \in AKind} \cup
    {Query("list", "bills", 1, Every), Query("list", "bills", 2, {1}),
     Query("all", "all", 0, Every), Query("all", "all", 0, {1}), Query("index", "all", 0, Every),
     Query("api", "bills", 0, Every), Query("api", "parcels", 0, {1})}
=============================================================================
