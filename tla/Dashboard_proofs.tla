-------------------------- MODULE Dashboard_proofs --------------------------
(***************************************************************************)
(* What the dashboard promises, for all values of the constants.           *)
(*                                                                         *)
(* Its answers are true to the archives: what has been listed, and every   *)
(* link of what has been read, leads to a file that is there until it is   *)
(* renamed (Leads), a link that is being followed among them (LinkInv); an *)
(* overview on a quiet archive has every entry exactly once, listed or     *)
(* read (OnceEach).                                                        *)
(*                                                                         *)
(* A reader who leafs through a list is shown all of it: of what was on    *)
(* file when they began, whatever they have not been shown comes after all *)
(* the pages behind them (FarEnough).  Until something is replaced or      *)
(* renamed, entries are only added ahead of it (Steady, AheadGrows), and   *)
(* each page takes a full page off what is left (PageShows).               *)
(***************************************************************************)
EXTENDS Process, FiniteSetTheorems, SequenceTheorems, WellFoundedInduction, TLAPS

\* < is well-founded, the form in which the library's lemmas take it.
LEMMA LessOnNat == IsWellFoundedOn(OpToRel(<, Nat), Nat)
BY NatLessThanWellFounded

\* A set of numbers has a smallest member.
LEMMA Smallest ==
    ASSUME NEW K, K \subseteq Nat, K # {}
    PROVE  \E x \in K : \A y \in K : x <= y
<1>1. PICK x \in K : \A y \in K : <<y, x>> \notin OpToRel(<, Nat)
  BY LessOnNat, WFMin
<1>2. \A y \in K : ~ (y < x)
  BY <1>1 DEF OpToRel
<1>. QED BY <1>2

-----------------------------------------------------------------------------

\* What the daemon may have to write, and its temporary files.
Filed == UNION {{filing[i] : i \in DOMAIN filing} : filing \in Filings}
Temps == {A!Temp(k, y) : k \in A!Kind, y \in Nat}

Stored(f) ==
    /\ f \in Temps \/ (f \in A!FileName /\ a_disk[f].whole)
    /\ a_disk[f].mtime \in Nat /\ A!IsFields(a_disk[f].fields)

TempThere ==
    a_temp => a_writing # <<>> /\ A!Temp(A!Target.kind, A!Target.year) \in A!OnFile

FilesInv ==
    /\ IsFiniteSet(A!OnFile) /\ (\A f \in A!OnFile : Stored(f)) /\ TempThere
    /\ a_today \in Nat
    /\ a_writing \in Seq(Filed)
    /\ a_filings \in Nat /\ a_moves \in Nat
    /\ a_writing # <<>> => a_filings > 0

\* What has been filed is there until the reindexing renames it.
StillThere(f) == f \in A!OnFile \/ (f.kind = "reservations" /\ a_moves > 0)

\* What has been listed is still there.  A group without a stem is no ticket.
TodoThere ==
    \A f \in a_todo :
        /\ f.kind \in A!Kind
        /\ IF f.kind = "tickets"
             THEN \A g \in f.files :
                    /\ g.kind = "tickets" /\ g.year = f.year /\ g.slug = f.slug
                    /\ f.slug # A!NoStem => g \in A!FileName /\ StillThere(g)
             ELSE f \in A!FileName /\ f.ext = A!Extension(f.kind) /\ StillThere(f)

\* Where a link leads.
Stray(l) ==
    \/ l.kind = "tickets" /\ l.file.slug = A!NoStem
    \/ l.to = "view" /\ <<l.file.year, l.file.slug>> \in a_lacking
Leads(l) ==
    \/ Stray(l)
    \/ l.file \in A!FileName /\ l.file.kind = l.kind /\ StillThere(l.file)

\* Every link of every row leads somewhere.
RowsLead ==
    /\ IsFiniteSet(a_rows)
    /\ \A r \in a_rows : r.kind \in A!Kind /\ \A l \in A!Links(r) : Leads(l)

\* The pages of an answer.
AnswerInv ==
    /\ a_stage \in {"idle", "list", "read", "exists", "answered"}
    /\ a_stage # "idle" =>
          /\ DOMAIN a_query = {"how", "kind", "year", "n", "matching"}
          /\ a_query.how \in {"list", "all", "index", "api"} /\ a_query.n \in Nat
    /\ a_answer.page \in Nat
    /\ a_answer.shown \subseteq a_rows

\* The link the reader has followed.
LinkInv ==
    /\ a_stage \in {"list", "read", "exists"} => (a_link = A!NoLink <=> a_stage = "list")
    /\ a_stage \in {"read", "exists"} =>
          /\ a_query.how = "list"
          /\ a_answer.status = 200
          /\ a_link.to \in {"file", "view"}
          /\ a_link.to = "view" => /\ a_link.file.kind = a_link.kind
                                   /\ a_link.file.ext = IF a_link.kind = "tickets"
                                                         THEN "meta.json" ELSE "json"
    /\ a_stage = "read" => Leads(a_link)
    /\ a_stage = "exists" =>
          /\ a_link.to = "view" /\ a_link.kind = "tickets" /\ Stray(a_link)
          /\ a_link.file.ext = "meta.json"
          /\ a_link.file \in A!OnFile => a_filings > 0

\* The entries of a kind, and of an overview, by directory.
Inventory(k) == A!count_year(A!OnFile, k)
OverviewEntries == UNION {Inventory(k) : k \in A!Kinds(a_query)}
Place(e) == [kind |-> e.kind, year |-> e.year]

\* What an overview has listed and read while nothing is written: each entry
\* once.
OnceEach ==
    a_stage = "list" /\ a_query.how = "index" /\ a_quiet =>
        /\ a_cards = [k \in A!Kinds(a_query) |-> A!Cardinality(Inventory(k))]
        /\ \A d \in a_dirs : d = Place(d) /\ d.kind \in A!Kinds(a_query)
        /\ a_todo \subseteq {e \in OverviewEntries : Place(e) \notin a_dirs}
        /\ \A r \in a_rows :
              \E e \in OverviewEntries \ a_todo : A!Like(e, r) /\ Place(e) \notin a_dirs
        /\ \A r, s \in a_rows : A!Like(r, s) => r = s
        /\ \A e \in OverviewEntries :
              \/ e \in a_todo
              \/ Place(e) \in a_dirs
              \/ \E r \in a_rows : A!Like(e, r)

DashboardInv ==
    /\ FilesInv /\ TodoThere /\ RowsLead /\ AnswerInv /\ LinkInv /\ OnceEach
    /\ A!AnswersAreTrue

-----------------------------------------------------------------------------

\* What is filed has a name that is no temporary file's.
LEMMA TempOrName ==
    /\ \A f \in Temps : f.slug = A!NoStem /\ f.ext = "none"
    /\ \A f \in A!FileName :
          /\ f.kind \in A!Kind /\ f.year \in Nat /\ f.slug \in Nat \ {0}
          /\ f.ext \in {"ics", "json", "meta.json", "pdf"}
          /\ f = [kind |-> f.kind, year |-> f.year, slug |-> f.slug, ext |-> f.ext]
          /\ f.kind \in A!FlatKind => f.year = A!Flat
BY DEF Temps, A!FileName, A!Temp, A!NoStem

LEMMA FiledIs ==
    ASSUME A!DashboardAssumption
    PROVE  /\ \A w \in Filed : w.file \in A!FileName /\ A!IsFields(w.fields)
           /\ \A filing \in Filings : filing \in Seq(Filed)
<1>1. \A w \in Filed : w.file \in A!FileName /\ A!IsFields(w.fields)
  <2>1. ASSUME NEW filing \in Filings, NEW i \in DOMAIN filing
        PROVE  filing[i].file \in A!FileName /\ A!IsFields(filing[i].fields)
    BY DEF A!DashboardAssumption
  <2>. QED BY <2>1 DEF Filed
<1>2. ASSUME NEW filing \in Filings
      PROVE  filing \in Seq(Filed)
  <2>1. filing \in Seq({filing[i] : i \in DOMAIN filing})
    BY DEF A!DashboardAssumption
  <2>2. DOMAIN filing = 1 .. Len(filing) /\ Len(filing) \in Nat
    BY <2>1
  <2>3. \A i \in DOMAIN filing : filing[i] \in Filed
    BY DEF Filed
  <2>. QED BY <2>1, <2>2, <2>3
<1>. QED BY <1>1, <1>2

LEMMA TargetIs ==
    ASSUME A!DashboardAssumption, FilesInv, a_writing # <<>>
    PROVE  /\ A!Target \in A!FileName /\ A!IsFields(a_writing[1].fields)
           /\ Tail(a_writing) \in Seq(Filed)
           /\ A!Target.kind \in A!Kind /\ A!Target.year \in Nat
<1>1. a_writing[1] \in Filed /\ Tail(a_writing) \in Seq(Filed)
  BY DEF FilesInv
<1>. QED BY <1>1, FiledIs, TempOrName DEF A!Target

\* The steps of a request touch no file.
Requesting ==
    \/ \E q \in Queries : A!Visit(q)
    \/ A!NextPage
    \/ \E d \in a_dirs : A!list_dir(d)
    \/ \E f \in a_todo : A!read_json(f)
    \/ A!RenderList \/ A!list_all \/ A!index \/ A!api
    \/ \E l \in A!Linked : A!Follow(l)
    \/ A!serve_file \/ A!view_bill \/ A!view_receipt \/ A!view_reservation
    \/ A!view_parcel \/ A!view_subscription \/ A!view_ticket \/ A!SidecarMissing

Filing ==
    \/ \E filing \in Filings : A!File(filing)
    \/ A!write_tmp \/ A!persist \/ A!Crash
    \/ \E f \in A!OnFile : A!Reindexed(f)
    \/ A!Midnight

LEMMA EitherSide ==
    ASSUME A!Next
    PROVE  \/ Filing /\ UNCHANGED A!server
           \/ Requesting /\ UNCHANGED A!files
<1>1. A!Next <=> Filing \/ Requesting
  BY DEF A!Next, Filing, Requesting
<1>2. Filing => UNCHANGED A!server
  BY DEF Filing, A!File, A!write_tmp, A!persist, A!Crash, A!Reindexed, A!Midnight
<1>3. Requesting => UNCHANGED A!files
  BY DEF Requesting, A!Visit, A!NextPage, A!Handle, A!list_dir, A!read_json, A!RenderList,
         A!list_all, A!index, A!api, A!Served, A!Follow, A!serve_file, A!View, A!view_bill,
         A!view_receipt, A!view_reservation, A!view_parcel, A!view_subscription, A!view_ticket,
         A!SidecarMissing, A!Respond
<1>. QED BY <1>1, <1>2, <1>3

\* The files.
LEMMA FilesInvStep ==
    ASSUME A!DashboardAssumption, FilesInv, A!Next
    PROVE  /\ FilesInv'
           /\ a_moves <= a_moves' /\ a_filings <= a_filings'
           /\ \A f \in A!FileName : StillThere(f) => StillThere(f)'
           /\ \A f : f \in A!OnFile' /\ f.ext = "meta.json" /\ f.kind = "tickets" =>
                        f \in A!OnFile \/ a_filings' > 0
<1>. USE FilesInv, TempOrName DEF FilesInv, StillThere
<1>0. /\ UNCHANGED a_disk => A!OnFile' = A!OnFile /\ \A f : Stored(f) => Stored(f)'
      /\ UNCHANGED <<a_disk, a_writing, a_temp>> => (TempThere => TempThere')
      /\ ~ a_temp' => TempThere'
      /\ \A f : A!IsFields(f)' <=> A!IsFields(f)
  BY DEF A!OnFile, Stored, TempThere, A!Target, A!Temp, A!IsFields
<1>1. CASE Requesting /\ UNCHANGED A!files
  <2>1. a_today' = a_today
    BY <1>1 DEF Requesting, A!Visit, A!NextPage, A!Handle, A!list_dir, A!read_json, A!RenderList,
         A!list_all, A!index, A!api, A!Served, A!Follow, A!serve_file, A!View, A!view_bill,
         A!view_receipt, A!view_reservation, A!view_parcel, A!view_subscription, A!view_ticket,
         A!SidecarMissing, A!Respond
  <2>. QED BY <1>0, <1>1, <2>1 DEF A!files
<1>2. ASSUME NEW filing \in Filings, A!File(filing)
      PROVE  /\ UNCHANGED <<a_disk, a_moves, a_today, a_temp>> /\ a_filings' = a_filings + 1
             /\ a_writing' \in Seq(Filed) /\ ~ a_temp'
  BY <1>2, FiledIs DEF A!File, TempThere
<1>3. CASE A!write_tmp
  <2>. DEFINE tmp == A!Temp(A!Target.kind, A!Target.year)
  <2>1. /\ a_disk' = [f \in DOMAIN a_disk \cup {tmp} |-> IF f = tmp THEN A!Partial ELSE a_disk[f]]
        /\ UNCHANGED <<a_writing, a_filings, a_moves, a_today>> /\ a_writing # <<>>
    BY <1>3 DEF A!write_tmp, A!OnFile
  <2>2. tmp \in Temps /\ tmp' = tmp
    BY <2>1, TargetIs DEF Temps, A!Temp, A!Target
  <2>3. A!Partial.mtime \in Nat /\ A!IsFields(A!Partial.fields)
    BY DEF A!Partial, A!IsFields
  <2>. HIDE DEF tmp
  <2>4. /\ A!OnFile' = A!OnFile \cup {tmp} /\ a_disk'[tmp] = A!Partial
        /\ \A f \in A!OnFile : f # tmp => a_disk'[f] = a_disk[f]
    BY <2>1 DEF A!OnFile
  <2>5. ASSUME NEW f \in A!OnFile'
        PROVE  Stored(f)'
    BY <1>0, <2>2, <2>3, <2>4 DEF Stored
  <2>6. \A f : f \in A!OnFile' /\ f.ext = "meta.json" => f \in A!OnFile
    BY <2>2, <2>4
  <2>7. IsFiniteSet(A!OnFile')
    BY <2>4, FS_AddElement
  <2>8. FilesInv'
    <3>1. TempThere'
      BY <2>1, <2>2, <2>4 DEF TempThere, tmp
    <3>. QED BY <2>1, <2>5, <2>7, <3>1
  <2>. QED BY <2>1, <2>4, <2>6, <2>8
<1>4. CASE A!persist
  <2>. DEFINE tmp == A!Temp(A!Target.kind, A!Target.year)
              body == [whole |-> TRUE, fields |-> a_writing[1].fields, mtime |-> a_disk[tmp].mtime]
  <2>1. /\ a_disk' = [f \in (DOMAIN a_disk \ {tmp}) \cup {A!Target} |->
                        IF f = A!Target THEN body ELSE a_disk[f]]
        /\ a_writing' = Tail(a_writing) /\ UNCHANGED <<a_filings, a_moves, a_today>>
        /\ a_writing # <<>> /\ a_temp /\ a_temp' = FALSE
    BY <1>4 DEF A!persist, A!OnFile
  <2>2. tmp \in Temps /\ A!Target \in A!FileName /\ A!IsFields(a_writing[1].fields)
        /\ Tail(a_writing) \in Seq(Filed)
    BY <2>1, TargetIs DEF Temps
  <2>3. body.whole /\ body.mtime \in Nat /\ A!IsFields(body.fields)
    BY <2>1, <2>2 DEF TempThere, Stored
  <2>. HIDE DEF tmp, body
  <2>4. /\ A!OnFile' = (A!OnFile \ {tmp}) \cup {A!Target} /\ a_disk'[A!Target] = body
        /\ \A f \in A!OnFile' : f # A!Target => a_disk'[f] = a_disk[f]
    BY <2>1 DEF A!OnFile
  <2>5. ASSUME NEW f \in A!OnFile'
        PROVE  Stored(f)'
    BY <1>0, <2>2, <2>3, <2>4 DEF Stored
  <2>6. IsFiniteSet(A!OnFile')
    <3>1. IsFiniteSet(A!OnFile \ {tmp})
      BY FS_RemoveElement
    <3>. QED BY <2>4, <3>1, FS_AddElement
  <2>7. FilesInv'
    BY <1>0, <2>1, <2>2, <2>5, <2>6
  <2>8. \A f \in A!FileName : f \in A!OnFile => f \in A!OnFile'
    BY <2>2, <2>4 DEF A!NoStem
  <2>9. \A f \in A!OnFile' : f \in A!OnFile \/ a_filings' > 0
    BY <2>1, <2>4
  <2>. QED BY <2>1, <2>7, <2>8, <2>9
<1>5. CASE A!Crash
  <2>1. <<>> \in Seq(Filed)
    OBVIOUS
  <2>. QED BY <1>0, <1>5, <2>1 DEF A!Crash
<1>6. ASSUME NEW f \in A!OnFile, A!Reindexed(f)
      PROVE  /\ FilesInv'
             /\ a_moves' = a_moves + 1 /\ a_filings' = a_filings
             /\ \A g \in A!FileName : g \in A!OnFile => g \in A!OnFile' \/ g.kind = "reservations"
             /\ \A g \in A!OnFile' : g \in A!OnFile \/ g.kind = "reservations"
  <2>1. f \in A!FileName /\ f.kind = "reservations" /\ Stored(f)
    BY <1>6 DEF A!Reindexed, A!Listed, A!Extension, Stored
  <2>. DEFINE to == [f EXCEPT !.slug = @ + 10]
  <2>2. to \in A!FileName /\ to.kind = "reservations"
    BY <2>1 DEF A!FileName, A!FlatKind, A!NoStem
  <2>3. /\ a_disk' = [g \in (DOMAIN a_disk \ {f}) \cup {to} |->
                        IF g = to THEN a_disk[f] ELSE a_disk[g]]
        /\ a_moves' = a_moves + 1 /\ UNCHANGED <<a_writing, a_filings, a_temp, a_today>>
    BY <1>6 DEF A!Reindexed, A!OnFile
  <2>. HIDE DEF to
  <2>4. /\ A!OnFile' = (A!OnFile \ {f}) \cup {to} /\ a_disk'[to] = a_disk[f]
        /\ \A g \in A!OnFile' : g # to => a_disk'[g] = a_disk[g]
    BY <2>3 DEF A!OnFile
  <2>5. IsFiniteSet(A!OnFile')
    <3>1. IsFiniteSet(A!OnFile \ {f})
      BY FS_RemoveElement
    <3>. QED BY <2>4, <3>1, FS_AddElement
  <2>6. ASSUME NEW g \in A!OnFile'
        PROVE  Stored(g)'
    BY <1>0, <2>1, <2>2, <2>4 DEF Stored
  <2>7. TempThere'
    <3>1. A!Temp(A!Target.kind, A!Target.year)' = A!Temp(A!Target.kind, A!Target.year)
      BY <2>3 DEF A!Temp, A!Target
    <3>2. A!Temp(A!Target.kind, A!Target.year) # f
      BY <2>1 DEF A!Temp, A!NoStem
    <3>. QED BY <2>3, <2>4, <3>1, <3>2 DEF TempThere
  <2>8. FilesInv'
    BY <2>3, <2>5, <2>6, <2>7
  <2>. QED BY <2>1, <2>2, <2>3, <2>4, <2>8
<1>7. CASE A!Midnight
  BY <1>0, <1>7 DEF A!Midnight, A!files
<1>8. CASE \E filing \in Filings : A!File(filing)
  BY <1>0, <1>2, <1>8
<1>9. CASE \E f \in A!OnFile : A!Reindexed(f)
  BY <1>6, <1>9
<1>. QED BY <1>1, <1>3, <1>4, <1>5, <1>7, <1>8, <1>9, EitherSide DEF Filing


-----------------------------------------------------------------------------

\* A link leads where it led as long as nothing is forgotten.
LEMMA LeadsStill ==
    ASSUME A!DashboardAssumption, FilesInv, A!Next, a_lacking \subseteq a_lacking'
    PROVE  \A l : (Stray(l) => Stray(l)') /\ (Leads(l) => Leads(l)')
BY FilesInvStep DEF Leads, Stray

LEMMA LinkIs ==
    ASSUME NEW r, r.kind \in A!Kind, NEW l \in A!Links(r)
    PROVE  /\ l # A!NoLink /\ l.kind = r.kind /\ l.to \in {"file", "view"}
           /\ l.to = "file" => l.file \in r.links
           /\ l.to = "view" => l.file = [kind |-> r.kind, year |-> r.year, slug |-> r.slug,
                                        ext |-> IF r.kind = "tickets" THEN "meta.json" ELSE "json"]
<1>1. l.kind = r.kind /\ r.kind # "none"
  BY DEF A!Links, A!Kind
<1>. QED BY <1>1 DEF A!Links, A!NoLink

\* The daemons and the days.
LEMMA FilingKeepsLinks ==
    ASSUME A!DashboardAssumption, DashboardInv, A!Next, Filing, UNCHANGED A!server
    PROVE  TodoThere' /\ RowsLead' /\ AnswerInv' /\ LinkInv' /\ A!FaultsAreReal' /\ A!LinksLead'
<1>. USE DEF DashboardInv
<1>1. UNCHANGED <<a_query, a_stage, a_todo, a_rows, a_answer, a_link, a_lacking>>
  BY DEF A!server
<1>2. TodoThere'
  BY <1>1, FilesInvStep DEF TodoThere
<1>3. RowsLead'
  <2>1. \A r : A!Links(r)' = A!Links(r)
    BY DEF A!Links
  <2>. QED BY <1>1, <2>1, LeadsStill DEF RowsLead
<1>4. AnswerInv'
  BY <1>1 DEF AnswerInv
<1>5. LinkInv'
  <2>1. CASE a_stage \in {"idle", "list", "answered"}
    BY <1>1, <2>1 DEF LinkInv
  <2>2. CASE a_stage = "read"
    BY <1>1, <2>2, LeadsStill DEF LinkInv
  <2>3. CASE a_stage = "exists"
    <3>1. a_link.file.kind = "tickets" /\ a_link.file.ext = "meta.json"
      BY <2>3 DEF LinkInv
    <3>2. a_link.file \in A!OnFile' => a_filings' > 0
      BY <2>3, <3>1, FilesInvStep DEF LinkInv, FilesInv, Stored
    <3>3. Stray(a_link)'
      BY <1>1, <2>3 DEF LinkInv, Stray
    <3>. QED BY <1>1, <2>3, <3>2, <3>3 DEF LinkInv
  <2>. QED BY <2>1, <2>2, <2>3 DEF AnswerInv
<1>6. A!FaultsAreReal'
  BY <1>1, FilesInvStep DEF FilesInv, Stored, A!AnswersAreTrue, A!FaultsAreReal
<1>7. A!LinksLead'
  BY <1>1, FilesInvStep DEF FilesInv, Stored, A!AnswersAreTrue, A!LinksLead
<1>. QED BY <1>2, <1>3, <1>4, <1>5, <1>6, <1>7

\* A request begins.
LEMMA HandleKeepsLinks ==
    ASSUME A!DashboardAssumption, DashboardInv, NEW q, A!Handle(q),
           DOMAIN q = {"how", "kind", "year", "n", "matching"},
           q.how \in {"list", "all", "index", "api"}, q.n \in Nat
    PROVE  TodoThere' /\ RowsLead' /\ AnswerInv' /\ LinkInv' /\ A!FaultsAreReal' /\ A!LinksLead'
<1>1. /\ a_query' = q /\ a_link' = A!NoLink /\ a_rows' = {} /\ a_todo' = {}
      /\ a_stage' \in {"list", "answered"}
      /\ a_answer'.status \in {404, 0} /\ a_answer'.shown = {} /\ a_answer'.page = 0
  BY DEF A!Handle, A!Answer, A!NoAnswer
<1>2. IsFiniteSet({})
  BY FS_EmptySet
<1>. QED BY <1>1, <1>2 DEF TodoThere, RowsLead, AnswerInv, LinkInv, A!FaultsAreReal, A!LinksLead

LEMMA RequestBegins ==
    ASSUME A!DashboardAssumption, DashboardInv, (\E q \in Queries : A!Visit(q)) \/ A!NextPage
    PROVE  \E q : /\ A!Handle(q)
                  /\ DOMAIN q = {"how", "kind", "year", "n", "matching"}
                  /\ q.how \in {"list", "all", "index", "api"} /\ q.n \in Nat
<1>1. ASSUME NEW q \in Queries, A!Visit(q)
      PROVE  /\ A!Handle(q) /\ DOMAIN q = {"how", "kind", "year", "n", "matching"}
             /\ q.how \in {"list", "all", "index", "api"} /\ q.n \in Nat
  <2>1. q \in [how : {"list", "all", "index", "api"}, kind : A!Kind \cup {"all"}, year : Nat,
               n : Nat, matching : SUBSET Nat]
    BY DEF A!DashboardAssumption
  <2>. QED BY <1>1, <2>1 DEF A!Visit
<1>2. CASE A!NextPage
  <2>. DEFINE q == [a_query EXCEPT !.n = a_answer.page + 1]
  <2>1. A!Handle(q) /\ a_query.how \in {"list", "all"} /\ a_stage = "answered"
    BY <1>2 DEF A!NextPage
  <2>2. /\ DOMAIN q = {"how", "kind", "year", "n", "matching"} /\ q.how = a_query.how
        /\ q.n = a_answer.page + 1 /\ q.n \in Nat
    BY <2>1 DEF DashboardInv, AnswerInv
  <2>. QED BY <2>1, <2>2
<1>. QED BY <1>1, <1>2

\* What a directory lists.
LEMMA NamesAre ==
    ASSUME FilesInv, NEW d, NEW f \in A!Names(d)
    PROVE  /\ f.kind = d.kind /\ f.year = d.year
           /\ IF f.kind = "tickets"
                THEN /\ \A g \in f.files :
                           /\ g.kind = "tickets" /\ g.year = f.year /\ g.slug = f.slug
                           /\ f.slug # A!NoStem => g \in A!FileName /\ g \in A!OnFile
                     /\ f.kind \in A!Kind
                ELSE /\ f \in A!FileName /\ f.ext = A!Extension(f.kind) /\ f \in A!OnFile
                     /\ f.kind \in A!Kind
<1>1. CASE d.kind = "tickets"
  BY <1>1, TempOrName DEF A!Names, A!Groups, FilesInv, Stored, A!Kind
<1>2. CASE d.kind # "tickets"
  BY <1>2, TempOrName DEF A!Names, A!Listed, FilesInv, Stored, A!Extension
<1>. QED BY <1>1, <1>2

LEMMA ListingKeepsLinks ==
    ASSUME A!DashboardAssumption, DashboardInv, NEW d \in a_dirs, A!list_dir(d)
    PROVE  TodoThere' /\ RowsLead' /\ AnswerInv' /\ LinkInv' /\ A!FaultsAreReal' /\ A!LinksLead'
<1>1. /\ UNCHANGED <<a_query, a_stage, a_rows, a_answer, a_link, a_lacking, a_disk, a_moves>>
      /\ a_todo' = A!Names(d) /\ a_stage = "list"
      /\ UNCHANGED <<a_filings>>
  BY DEF A!list_dir, A!files
<1>2. \A f : StillThere(f)' <=> StillThere(f)
  BY <1>1 DEF StillThere, A!OnFile
<1>3. TodoThere'
  <2>1. \A f : f \in A!OnFile => StillThere(f)
    BY DEF StillThere
  <2>. HIDE DEF StillThere
  <2>. QED BY <1>1, <1>2, <2>1, NamesAre DEF TodoThere, DashboardInv
<1>4. RowsLead'
  BY <1>1, <1>2 DEF DashboardInv, RowsLead, Leads, Stray, A!Links
<1>5. LinkInv'
  BY <1>1, <1>2 DEF DashboardInv, LinkInv, Leads, Stray, A!OnFile
<1>6. AnswerInv' /\ A!FaultsAreReal' /\ A!LinksLead'
  BY <1>1 DEF DashboardInv, AnswerInv, A!AnswersAreTrue, A!FaultsAreReal, A!LinksLead
<1>. QED BY <1>3, <1>4, <1>5, <1>6

\* What read_json makes of a name: a row, unless nobody asked for it, or the
\* page fails.
IsRead(f) ==
    /\ a_todo' = a_todo \ {f} /\ UNCHANGED <<a_stage, a_dirs, a_answer>>
    /\ \/ a_rows' = a_rows /\ ~ A!Wanted(f)
       \/ \E fields, mtime, links :
             /\ a_rows' = a_rows \cup {A!Row(f, fields, mtime, links)}
             /\ links \subseteq IF f.kind = "tickets" THEN f.files
                               ELSE {f} \cup A!sibling_blobs(A!OnFile, f)
IsUnreadable(f) ==
    /\ a_todo' = {} /\ a_dirs' = {} /\ a_stage' = "answered" /\ a_rows' = a_rows
    /\ a_answer' = [status |-> 500, shown |-> {}, page |-> 0, pages |-> 0]
    /\ f.kind # "tickets" /\ f.kind # "events"
    /\ f \in A!OnFile => ~ a_disk[f].whole

LEMMA ReadingIsOne ==
    ASSUME NEW f, A!read_json(f)
    PROVE  /\ a_stage = "list"
           /\ UNCHANGED <<a_disk, a_filings, a_moves, a_query, a_cards, a_link, a_quiet, a_config>>
           /\ a_lacking \subseteq a_lacking'
           /\ IsRead(f) \/ IsUnreadable(f)
           /\ f.kind = "tickets" =>
                 \/ \E g \in f.files : g.ext = "meta.json" /\ g \in A!OnFile
                 \/ <<f.year, f.slug>> \in a_lacking'
<1>. USE DEF A!Shown, A!Answer, IsRead, IsUnreadable
<1>1. /\ a_stage = "list"
      /\ UNCHANGED <<a_disk, a_filings, a_moves, a_query, a_cards, a_link, a_quiet, a_config>>
  BY DEF A!read_json, A!files
<1>2. CASE f.kind = "tickets"
  <2>. DEFINE meta == {g \in f.files : g.ext = "meta.json" /\ g \in A!OnFile /\ a_disk[g].whole}
  <2>1. PICK fields, newest :
            /\ A!Shown(f, IF A!Wanted(f) THEN {A!Row(f, fields, newest, f.files)} ELSE {})
            /\ a_lacking' = IF meta = {} THEN a_lacking \cup {<<f.year, f.slug>>} ELSE a_lacking
    BY <1>2, Zenon DEF A!read_json
  <2>2. a_todo' = a_todo \ {f} /\ UNCHANGED <<a_stage, a_dirs, a_answer>>
    BY <2>1
  <2>3. \/ a_rows' = a_rows /\ ~ A!Wanted(f)
        \/ a_rows' = a_rows \cup {A!Row(f, fields, newest, f.files)}
    BY <2>1, <1>2
  <2>. QED BY <1>1, <1>2, <2>1, <2>2, <2>3
<1>3. CASE f.kind = "events"
  <2>1. PICK fields, mtime :
            /\ A!Shown(f, IF A!Wanted(f) THEN {A!Row(f, fields, mtime, {f})} ELSE {})
            /\ UNCHANGED a_lacking
    BY <1>3, Zenon DEF A!read_json
  <2>2. a_todo' = a_todo \ {f} /\ UNCHANGED <<a_stage, a_dirs, a_answer>>
    BY <2>1
  <2>3. \/ a_rows' = a_rows /\ ~ A!Wanted(f)
        \/ a_rows' = a_rows \cup {A!Row(f, fields, mtime, {f})}
    BY <2>1
  <2>. QED BY <1>1, <1>3, <2>1, <2>2, <2>3, Zenon
<1>4. CASE f.kind # "tickets" /\ f.kind # "events"
  BY <1>1, <1>4, Zenon DEF A!read_json
<1>. QED BY <1>2, <1>3, <1>4

LEMMA ReadingKeepsLinks ==
    ASSUME A!DashboardAssumption, DashboardInv, NEW f \in a_todo, A!read_json(f)
    PROVE  TodoThere' /\ RowsLead' /\ AnswerInv' /\ LinkInv' /\ A!FaultsAreReal' /\ A!LinksLead'
<1>1. /\ UNCHANGED <<a_disk, a_filings, a_moves, a_query, a_link>>
      /\ a_todo' \subseteq a_todo /\ a_lacking \subseteq a_lacking'
      /\ a_rows \subseteq a_rows'
      /\ a_stage = "list" /\ a_stage' \in {"list", "answered"}
      /\ a_answer'.page \in Nat
      /\ a_answer' = a_answer \/ (a_answer'.status = 500 /\ a_answer'.shown = {})
  <2>1. /\ UNCHANGED <<a_disk, a_filings, a_moves, a_query, a_link>>
        /\ a_lacking \subseteq a_lacking' /\ a_stage = "list"
    BY ReadingIsOne
  <2>2. CASE IsRead(f)
    BY <2>1, <2>2 DEF DashboardInv, AnswerInv, IsRead
  <2>3. CASE IsUnreadable(f)
    BY <2>1, <2>3 DEF IsUnreadable
  <2>. QED BY <2>2, <2>3, ReadingIsOne
<1>2. /\ \A g : StillThere(g)' <=> StillThere(g)
      /\ \A l : Leads(l) => Leads(l)'
  BY <1>1 DEF StillThere, A!OnFile, Leads, Stray
<1>3. TodoThere'
  <2>. HIDE DEF StillThere
  <2>. QED BY <1>1, <1>2 DEF TodoThere, DashboardInv
<1>4. ASSUME NEW fields, NEW mtime, NEW links,
             links \subseteq IF f.kind = "tickets" THEN f.files
                            ELSE {f} \cup A!sibling_blobs(A!OnFile, f),
             NEW l \in A!Links(A!Row(f, fields, mtime, links))
      PROVE  Leads(l)'
  <2>. DEFINE r == A!Row(f, fields, mtime, links)
  <2>1. /\ r.kind = f.kind /\ r.year = f.year /\ r.slug = f.slug /\ r.links = links
        /\ r.kind \in A!Kind
    BY DEF A!Row, TodoThere, DashboardInv
  <2>2. /\ l.kind = f.kind /\ l.to \in {"file", "view"}
        /\ l.to = "file" => l.file \in links
        /\ l.to = "view" => l.file = [kind |-> f.kind, year |-> f.year, slug |-> f.slug,
                                     ext |-> IF f.kind = "tickets" THEN "meta.json" ELSE "json"]
    BY <1>4, <2>1, LinkIs
  <2>. HIDE DEF r
  <2>3. CASE f.kind = "tickets"
    <3>1. \A g \in f.files :
            /\ g.kind = "tickets" /\ g.year = f.year /\ g.slug = f.slug
            /\ f.slug # A!NoStem => g \in A!FileName /\ StillThere(g)
      BY <2>3 DEF TodoThere, DashboardInv
    <3>2. CASE l.to = "file"
      <4>1. l.file \in f.files
        BY <1>4, <2>2, <2>3, <3>2
      <4>. QED BY <1>2, <2>2, <2>3, <3>1, <4>1 DEF Leads, Stray
    <3>3. CASE l.to = "view"
      <4>1. CASE f.slug = A!NoStem
        BY <2>2, <2>3, <3>3, <4>1 DEF Leads, Stray
      <4>2. CASE <<f.year, f.slug>> \in a_lacking'
        BY <2>2, <3>3, <4>2 DEF Leads, Stray
      <4>3. ASSUME f.slug # A!NoStem, NEW g \in f.files, g.ext = "meta.json"
            PROVE  Leads(l)'
        <5>1. g \in A!FileName /\ StillThere(g)
          BY <3>1, <4>3
        <5>2. l.file = g
          BY <2>2, <2>3, <3>1, <3>3, <4>3, <5>1, TempOrName
        <5>. QED BY <1>2, <2>2, <2>3, <3>1, <5>1, <5>2 DEF Leads
      <4>. QED BY <2>3, <4>1, <4>2, <4>3, ReadingIsOne
    <3>. QED BY <2>2, <3>2, <3>3
  <2>4. CASE f.kind # "tickets"
    <3>1. f \in A!FileName /\ f.ext = A!Extension(f.kind) /\ StillThere(f)
      BY <2>4 DEF TodoThere, DashboardInv
    <3>2. CASE l.to = "file"
      <4>1. l.file = f \/ l.file \in A!sibling_blobs(A!OnFile, f)
        BY <1>4, <2>2, <2>4, <3>2
      <4>2. ASSUME l.file \in A!sibling_blobs(A!OnFile, f)
            PROVE  l.file \in A!FileName /\ l.file.kind = f.kind /\ StillThere(l.file)
        <5>1. l.file \in A!OnFile /\ l.file.kind = f.kind /\ l.file.slug = f.slug
          BY <4>2 DEF A!sibling_blobs
        <5>2. l.file \notin Temps
          BY <3>1, <5>1, TempOrName DEF A!NoStem
        <5>. QED BY <5>1, <5>2 DEF FilesInv, Stored, DashboardInv, StillThere
      <4>. QED BY <1>2, <2>2, <3>1, <4>1, <4>2 DEF Leads
    <3>3. CASE l.to = "view"
      <4>1. f.kind # "events"
        BY <1>4, <2>1, <2>2, <3>3 DEF A!Links, r
      <4>2. l.file = f
        BY <2>2, <2>4, <3>1, <3>3, <4>1, TempOrName DEF A!Extension
      <4>. QED BY <1>2, <2>2, <3>1, <4>2 DEF Leads
    <3>. QED BY <2>2, <3>2, <3>3
  <2>. QED BY <2>3, <2>4
<1>5. RowsLead'
  <2>1. \A r : A!Links(r)' = A!Links(r)
    BY DEF A!Links
  <2>2. CASE a_rows' = a_rows
    BY <1>2, <2>1, <2>2 DEF RowsLead, DashboardInv
  <2>3. ASSUME NEW fields, NEW mtime, NEW links,
               a_rows' = a_rows \cup {A!Row(f, fields, mtime, links)},
               links \subseteq IF f.kind = "tickets" THEN f.files
                              ELSE {f} \cup A!sibling_blobs(A!OnFile, f)
        PROVE  RowsLead'
    <3>. DEFINE r == A!Row(f, fields, mtime, links)
    <3>1. r.kind \in A!Kind
      BY DEF A!Row, TodoThere, DashboardInv
    <3>2. \A l \in A!Links(r) : Leads(l)'
      BY <1>4, <2>3
    <3>. HIDE DEF r
    <3>3. IsFiniteSet(a_rows \cup {r})
      BY FS_AddElement DEF RowsLead, DashboardInv
    <3>4. a_rows' = a_rows \cup {r}
      BY <2>3 DEF r
    <3>. QED BY <1>2, <2>1, <3>1, <3>2, <3>3, <3>4 DEF RowsLead, DashboardInv
  <2>. QED BY <2>2, <2>3, ReadingIsOne DEF IsRead, IsUnreadable
<1>6. AnswerInv'
  BY <1>1 DEF AnswerInv, DashboardInv
<1>7. LinkInv'
  BY <1>1 DEF LinkInv, DashboardInv
<1>8. A!FaultsAreReal'
  <2>1. CASE a_answer' = a_answer
    BY <1>1, <2>1 DEF DashboardInv, A!AnswersAreTrue, A!FaultsAreReal
  <2>2. CASE f.kind # "tickets" /\ (f \in A!OnFile => ~ a_disk[f].whole)
    <3>1. f \notin A!OnFile
      BY <2>2, TempOrName DEF FilesInv, Stored, TodoThere, DashboardInv, A!NoStem
    <3>2. a_moves > 0
      BY <2>2, <3>1 DEF TodoThere, DashboardInv, StillThere
    <3>. QED BY <1>1, <3>2 DEF LinkInv, DashboardInv, A!FaultsAreReal
  <2>. QED BY <2>1, <2>2, ReadingIsOne DEF IsRead, IsUnreadable
<1>9. A!LinksLead'
  BY <1>1 DEF LinkInv, DashboardInv, A!LinksLead
<1>. QED BY <1>3, <1>5, <1>6, <1>7, <1>8, <1>9

-----------------------------------------------------------------------------

\* Rows put in an order are all there.
LEMMA InOrder ==
    ASSUME NEW R, IsFiniteSet(R), NEW P, NEW s \in A!Sorted(R, P)
    PROVE  /\ Cardinality(R) \in Nat /\ Len(s) = Cardinality(R)
           /\ s \in [1 .. Len(s) -> R]
           /\ {s[i] : i \in 1 .. Len(s)} = R
<1>. DEFINE n == Cardinality(R)
<1>1. n \in Nat
  BY FS_CardinalityType
<1>2. s \in [1 .. n -> R] /\ \A i, j \in 1 .. n : i < j => s[i] # s[j]
  BY DEF A!Sorted, A!Cardinality, Cardinality
<1>3. Len(s) = n
  BY <1>1, <1>2
<1>4. s \in Injection(1 .. n, R)
  BY <1>1, <1>2 DEF Injection, IsInjective
<1>5. Cardinality(1 .. n) = n
  BY <1>1, FS_Interval
<1>6. s \in Surjection(1 .. n, R)
  BY <1>4, <1>5, FS_Injection
<1>. QED BY <1>1, <1>2, <1>3, <1>6 DEF Surjection

LEMMA PageIs ==
    ASSUME A!PagesAssumption, NEW R, NEW s \in Seq(R), NEW n \in Nat
    PROVE  /\ A!Clamped(n, Len(s)) \in Nat \ {0}
           /\ {A!paginate(s, n)[i] : i \in DOMAIN A!paginate(s, n)} \subseteq R
<1>. DEFINE total == Len(s)
            page == A!Clamped(n, total)
            last == IF page * PAGE_SIZE > total THEN total ELSE page * PAGE_SIZE
            start == (page - 1) * PAGE_SIZE + 1
<1>1. total \in Nat /\ PAGE_SIZE \in Nat \ {0}
  BY DEF A!PagesAssumption
<1>2. A!Pages(total) \in Nat \ {0}
  <2>1. CASE total = 0
    BY <2>1 DEF A!Pages
  <2>2. CASE total # 0
    <3>. DEFINE x == total + PAGE_SIZE - 1
                q == x \div PAGE_SIZE
    <3>1. x \in Nat /\ x >= PAGE_SIZE
      BY <1>1, <2>2
    <3>. HIDE DEF x
    <3>2. q \in Int /\ x < (q + 1) * PAGE_SIZE
      BY <1>1, <3>1
    <3>. HIDE DEF q
    <3>3. q >= 1
      <4>1. SUFFICES ASSUME q <= 0 PROVE FALSE
        BY <3>2
      <4>2. (q + 1) * PAGE_SIZE <= PAGE_SIZE
        BY <1>1, <3>2, <4>1
      <4>. QED BY <1>1, <3>1, <3>2, <4>2
    <3>. QED BY <2>2, <3>2, <3>3 DEF A!Pages, x, q
  <2>. QED BY <2>1, <2>2
<1>3. page \in Nat \ {0}
  BY <1>2 DEF A!Clamped
<1>. HIDE DEF page
<1>4. /\ start \in Nat \ {0} /\ last \in Int /\ last <= total
  <2>1. (page - 1) * PAGE_SIZE \in Nat /\ page * PAGE_SIZE \in Nat
    BY <1>1, <1>3
  <2>. QED BY <1>1, <2>1
<1>5. A!paginate(s, n) = SubSeq(s, start, last)
  BY DEF A!paginate, page
<1>. HIDE DEF start, last
<1>6. SubSeq(s, start, last) = [i \in 1 .. (1 + last - start) |-> s[i + start - 1]]
  BY <1>1, <1>4
<1>7. \A i \in 1 .. (1 + last - start) : i + start - 1 \in 1 .. total
  BY <1>1, <1>4
<1>8. \A i \in 1 .. total : s[i] \in R
  OBVIOUS
<1>. QED BY <1>3, <1>5, <1>6, <1>7, <1>8 DEF page

\* The rows of an answer.
LEMMA RenderIs ==
    ASSUME A!DashboardAssumption, DashboardInv, A!RenderList \/ A!list_all \/ A!index \/ A!api
    PROVE  /\ UNCHANGED <<a_disk, a_filings, a_moves, a_query, a_link, a_rows, a_lacking, a_todo>>
           /\ a_stage = "list" /\ a_stage' = "answered"
           /\ a_answer'.status = 200 /\ a_answer'.page \in Nat /\ a_answer'.shown \subseteq a_rows
<1>. USE DEF A!Served, A!Ready, A!files
<1>1. A!PagesAssumption /\ IsFiniteSet(a_rows)
      /\ (a_stage = "list" => a_query.n \in Nat)
  BY DEF A!DashboardAssumption, DashboardInv, RowsLead, AnswerInv
<1>2. ASSUME NEW R, NEW P, NEW s \in A!Sorted(R, P), R \subseteq a_rows
      PROVE  s \in Seq(a_rows)
  <2>1. IsFiniteSet(R)
    BY <1>1, <1>2, FS_Subset
  <2>2. s \in [1 .. Len(s) -> R] /\ Len(s) \in Nat
    BY <2>1, InOrder
  <2>. QED BY <1>2, <2>2
<1>3. CASE A!RenderList
  <2>1. CASE a_query.kind \in {"events", "subscriptions", "tickets"}
    BY <1>3, <2>1 DEF A!RenderList, A!Answer
  <2>2. CASE a_query.kind \notin {"events", "subscriptions", "tickets"}
    <3>1. PICK order \in A!Sorted(a_rows, A!ListOrder(a_rows)) :
            A!Answer(200, {A!paginate(order, a_query.n)[i] : i \in DOMAIN A!paginate(order, a_query.n)},
                     A!Clamped(a_query.n, Len(order)), A!Pages(Len(order)))
      BY <1>3, <2>2 DEF A!RenderList
    <3>2. order \in Seq(a_rows) /\ a_query.n \in Nat
      BY <1>1, <1>2, <1>3 DEF A!RenderList
    <3>3. /\ {A!paginate(order, a_query.n)[i] : i \in DOMAIN A!paginate(order, a_query.n)}
                \subseteq a_rows
          /\ A!Clamped(a_query.n, Len(order)) \in Nat
      BY <1>1, <3>2, PageIs
    <3>. QED BY <1>3, <3>1, <3>3 DEF A!RenderList, A!Answer
  <2>. QED BY <2>1, <2>2
<1>4. CASE A!list_all
  <2>1. PICK order \in A!Sorted(A!Recent(a_rows, a_today), A!Latest(a_rows)) :
          A!Answer(200, {A!paginate(order, a_query.n)[i] : i \in DOMAIN A!paginate(order, a_query.n)}
                          \cup (IF a_query.n <= 1 THEN A!Upcoming(a_rows, a_today) ELSE {}),
                   A!Clamped(a_query.n, Len(order)), A!Pages(Len(order)))
    BY <1>4 DEF A!list_all
  <2>2. A!Recent(a_rows, a_today) \subseteq a_rows /\ A!Upcoming(a_rows, a_today) \subseteq a_rows
    BY DEF A!Recent, A!Upcoming
  <2>3. order \in Seq(a_rows) /\ a_query.n \in Nat
    BY <1>1, <1>2, <1>4, <2>2 DEF A!list_all
  <2>4. /\ {A!paginate(order, a_query.n)[i] : i \in DOMAIN A!paginate(order, a_query.n)}
              \subseteq a_rows
        /\ A!Clamped(a_query.n, Len(order)) \in Nat
    BY <1>1, <2>3, PageIs
  <2>. QED BY <1>4, <2>1, <2>2, <2>4 DEF A!list_all, A!Answer
<1>5. CASE A!index
  <2>. DEFINE Top(s) == {s[i] : i \in {j \in DOMAIN s : j <= FEED_HOMEPAGE_LIMIT}}
  <2>1. PICK next \in A!Sorted(A!Upcoming(a_rows, a_today), A!Soonest(a_rows)),
             last \in A!Sorted(A!Recent(a_rows, a_today), A!Latest(a_rows)) :
          /\ a_answer' = [status |-> 200, shown |-> Top(next) \cup Top(last), page |-> 1,
                          pages |-> IF A!Cardinality(a_rows) > FEED_HOMEPAGE_LIMIT THEN 2 ELSE 1]
          /\ a_stage' = "answered"
          /\ UNCHANGED <<a_dirs, a_todo>>
    BY <1>5 DEF A!index
  <2>2. A!Recent(a_rows, a_today) \subseteq a_rows /\ A!Upcoming(a_rows, a_today) \subseteq a_rows
    BY DEF A!Recent, A!Upcoming
  <2>3. next \in Seq(a_rows) /\ last \in Seq(a_rows)
    BY <1>2, <2>2
  <2>4. Top(next) \subseteq a_rows /\ Top(last) \subseteq a_rows
    BY <2>3
  <2>. QED BY <1>5, <2>1, <2>4 DEF A!index
<1>6. CASE A!api
  BY <1>6 DEF A!api, A!Answer
<1>. QED BY <1>3, <1>4, <1>5, <1>6

LEMMA RenderKeepsLinks ==
    ASSUME A!DashboardAssumption, DashboardInv, A!RenderList \/ A!list_all \/ A!index \/ A!api
    PROVE  TodoThere' /\ RowsLead' /\ AnswerInv' /\ LinkInv' /\ A!FaultsAreReal' /\ A!LinksLead'
<1>1. /\ UNCHANGED <<a_disk, a_filings, a_moves, a_query, a_link, a_rows, a_lacking, a_todo>>
      /\ a_stage = "list" /\ a_stage' = "answered"
      /\ a_answer'.status = 200 /\ a_answer'.page \in Nat /\ a_answer'.shown \subseteq a_rows
  BY RenderIs
<1>2. /\ \A f : StillThere(f)' <=> StillThere(f)
      /\ \A l : Leads(l)' <=> Leads(l)
      /\ \A r : A!Links(r)' = A!Links(r)
  BY <1>1 DEF StillThere, A!OnFile, Leads, Stray, A!Links
<1>3. TodoThere'
  <2>. HIDE DEF StillThere
  <2>. QED BY <1>1, <1>2 DEF TodoThere, DashboardInv
<1>4. RowsLead'
  BY <1>1, <1>2 DEF RowsLead, DashboardInv
<1>5. AnswerInv' /\ LinkInv' /\ A!FaultsAreReal' /\ A!LinksLead'
  BY <1>1 DEF AnswerInv, LinkInv, DashboardInv, A!FaultsAreReal, A!LinksLead
<1>. QED BY <1>3, <1>4, <1>5

\* The reader follows a link, and gets an answer.
LEMMA FollowingKeepsLinks ==
    ASSUME A!DashboardAssumption, DashboardInv,
           \/ \E l \in A!Linked : A!Follow(l)
           \/ A!serve_file \/ A!view_bill \/ A!view_receipt \/ A!view_reservation
           \/ A!view_parcel \/ A!view_subscription \/ A!view_ticket \/ A!SidecarMissing
    PROVE  TodoThere' /\ RowsLead' /\ AnswerInv' /\ LinkInv' /\ A!FaultsAreReal' /\ A!LinksLead'
<1>1. /\ UNCHANGED <<a_disk, a_filings, a_moves, a_query, a_rows, a_lacking, a_todo>>
      /\ a_stage # "idle" /\ a_stage' \in {"read", "exists", "answered"}
      /\ a_answer'.page \in Nat /\ a_answer'.shown \subseteq a_rows
  BY DEF A!Follow, A!serve_file, A!View, A!view_bill, A!view_receipt, A!view_reservation,
         A!view_parcel, A!view_subscription, A!view_ticket, A!SidecarMissing, A!Respond, A!NoAnswer,
         A!files, AnswerInv, DashboardInv
<1>2. /\ \A f : StillThere(f)' <=> StillThere(f)
      /\ \A l : Leads(l)' <=> Leads(l)
      /\ \A r : A!Links(r)' = A!Links(r)
  BY <1>1 DEF StillThere, A!OnFile, Leads, Stray, A!Links
<1>3. TodoThere'
  <2>. HIDE DEF StillThere
  <2>. QED BY <1>1, <1>2 DEF TodoThere, DashboardInv
<1>4. RowsLead' /\ AnswerInv'
  BY <1>1, <1>2 DEF RowsLead, AnswerInv, DashboardInv
<1>5. ASSUME NEW l \in A!Linked, A!Follow(l)
      PROVE  LinkInv' /\ A!FaultsAreReal' /\ A!LinksLead'
  <2>1. /\ a_stage' = "read" /\ a_link' = l /\ a_answer' = a_answer /\ a_answer.status = 200
        /\ a_query.how = "list"
    BY <1>5 DEF A!Follow
  <2>2. PICK r \in a_rows : l \in A!Links(r)
    BY DEF A!Linked, AnswerInv, DashboardInv
  <2>3. r.kind \in A!Kind /\ Leads(l)
    BY <2>2 DEF RowsLead, DashboardInv
  <2>4. /\ l # A!NoLink /\ l.to \in {"file", "view"} /\ l.kind = r.kind
        /\ l.to = "view" => l.file = [kind |-> r.kind, year |-> r.year, slug |-> r.slug,
                                     ext |-> IF r.kind = "tickets" THEN "meta.json" ELSE "json"]
    BY <2>2, <2>3, LinkIs
  <2>5. Leads(a_link)'
    BY <1>1, <1>2, <2>1, <2>3 DEF Leads, Stray, StillThere, A!OnFile
  <2>6. LinkInv'
    <3>1. l.to = "view" => /\ l.file.kind = l.kind
                           /\ l.file.ext = IF l.kind = "tickets" THEN "meta.json" ELSE "json"
      BY <2>4
    <3>. QED BY <1>1, <2>1, <2>4, <2>5, <3>1 DEF LinkInv
  <2>. QED BY <2>1, <2>6 DEF A!FaultsAreReal, A!LinksLead
<1>6. ASSUME NEW status, A!Respond(status),
             status = 500 => a_link # A!NoLink /\ a_link.kind = "tickets" /\ a_filings > 0,
             status # 200 => \/ a_link.kind = "reservations" /\ a_moves > 0
                             \/ Stray(a_link)
      PROVE  LinkInv' /\ A!FaultsAreReal' /\ A!LinksLead'
  <2>1. a_stage' = "answered" /\ a_link' = a_link /\ a_answer'.status = status
        /\ UNCHANGED <<a_moves, a_filings, a_lacking>>
    BY <1>6 DEF A!Respond, A!NoAnswer, A!files
  <2>. QED BY <1>6, <2>1 DEF LinkInv, A!FaultsAreReal, A!LinksLead, Stray
<1>7. CASE A!serve_file
  <2>1. a_link.file \notin A!OnFile =>
            \/ a_link.kind = "reservations" /\ a_moves > 0
            \/ Stray(a_link)
    BY <1>7 DEF A!serve_file, LinkInv, Leads, StillThere, DashboardInv
  <2>2. CASE a_link.file \in A!OnFile
    <3>1. A!Respond(200)
      BY <1>7, <2>2 DEF A!serve_file
    <3>. QED BY <1>3, <1>4, <1>6, <3>1
  <2>3. CASE a_link.file \notin A!OnFile
    <3>1. A!Respond(404)
      BY <1>7, <2>3 DEF A!serve_file
    <3>. QED BY <1>3, <1>4, <1>6, <2>1, <2>3, <3>1
  <2>. QED BY <2>2, <2>3
<1>8. ASSUME a_stage = "read", a_link.to = "view"
      PROVE  /\ A!Status(a_link.file) \in {200, 404}
             /\ A!Status(a_link.file) = 404 =>
                  /\ a_link.file \notin A!OnFile
                  /\ \/ a_link.kind = "reservations" /\ a_moves > 0
                     \/ Stray(a_link)
  <2>1. a_link.file.ext \in {"json", "meta.json"} /\ Leads(a_link)
    BY <1>8 DEF LinkInv, DashboardInv
  <2>2. a_link.file \in A!OnFile => a_disk[a_link.file].whole
    BY <2>1, TempOrName DEF FilesInv, Stored, DashboardInv
  <2>. QED BY <2>1, <2>2 DEF A!Status, Leads, StillThere
<1>9. ASSUME NEW k, A!View(k)
      PROVE  LinkInv' /\ A!FaultsAreReal' /\ A!LinksLead'
  BY <1>6, <1>8, <1>9 DEF A!View
<1>10. CASE A!view_ticket
  <2>1. CASE A!Status(a_link.file) = 200
    <3>1. A!Respond(200)
      BY <1>10, <2>1 DEF A!view_ticket
    <3>. QED BY <1>3, <1>4, <1>6, <3>1
  <2>2. CASE A!Status(a_link.file) # 200
    <3>1. /\ a_stage' = "exists" /\ UNCHANGED <<a_answer, a_link>> /\ a_stage = "read"
          /\ a_link.to = "view" /\ a_link.kind = "tickets"
      BY <1>10, <2>2 DEF A!view_ticket
    <3>2. a_link.file \notin A!OnFile /\ Stray(a_link)
      BY <1>8, <2>2, <3>1
    <3>3. LinkInv'
      BY <1>1, <3>1, <3>2 DEF LinkInv, DashboardInv, Stray, A!OnFile
    <3>. QED BY <1>1, <1>3, <1>4, <3>1, <3>3
             DEF LinkInv, DashboardInv, A!FaultsAreReal, A!LinksLead
  <2>. QED BY <2>1, <2>2
<1>11. CASE A!SidecarMissing
  <2>1. /\ a_stage = "exists" /\ a_link # A!NoLink /\ a_link.kind = "tickets" /\ Stray(a_link)
        /\ a_link.file \in A!OnFile => a_filings > 0
    BY <1>11 DEF A!SidecarMissing, LinkInv, DashboardInv
  <2>2. CASE a_link.file \in A!OnFile
    <3>1. A!Respond(500)
      BY <1>11, <2>2 DEF A!SidecarMissing
    <3>. QED BY <1>3, <1>4, <1>6, <2>1, <2>2, <3>1
  <2>3. CASE a_link.file \notin A!OnFile
    <3>1. A!Respond(404)
      BY <1>11, <2>3 DEF A!SidecarMissing
    <3>. QED BY <1>3, <1>4, <1>6, <2>1, <3>1
  <2>. QED BY <2>2, <2>3
<1>. QED BY <1>3, <1>4, <1>5, <1>7, <1>9, <1>10, <1>11
         DEF A!view_bill, A!view_receipt, A!view_reservation, A!view_parcel, A!view_subscription

-----------------------------------------------------------------------------

\* The entries of a kind.
LEMMA EntryIs ==
    ASSUME FilesInv, NEW k, NEW e \in Inventory(k)
    PROVE  /\ e.kind = k
           /\ k = "tickets" => e \in A!Groups(A!OnFile)
           /\ k # "tickets" => /\ e \in A!FileName /\ e \in A!OnFile
                               /\ e.ext = A!Extension(k)
           /\ k \notin A!FlatKind => \E f \in A!OnFile : f.kind = k /\ f.year = e.year
           /\ k \in A!FlatKind => e.year = A!Flat
<1>1. CASE k = "tickets"
  BY <1>1 DEF Inventory, A!count_year, A!Groups, A!FlatKind
<1>2. CASE k # "tickets"
  <2>1. e \in A!OnFile /\ e.kind = k /\ e.ext = A!Extension(k)
    BY <1>2 DEF Inventory, A!count_year
  <2>2. e \in A!FileName
    BY <2>1, TempOrName DEF FilesInv, Stored, A!Extension
  <2>. QED BY <1>2, <2>1, <2>2, TempOrName
<1>. QED BY <1>1, <1>2

LEMMA SameEntry ==
    ASSUME FilesInv, NEW k, NEW e \in Inventory(k), NEW l, NEW g \in Inventory(l),
           e.kind = g.kind, e.year = g.year, e.slug = g.slug
    PROVE  e = g
<1>1. k = l
  BY EntryIs
<1>2. CASE k = "tickets"
  BY <1>1, <1>2 DEF Inventory, A!count_year, A!Groups
<1>3. CASE k # "tickets"
  BY <1>1, <1>3, EntryIs, TempOrName
<1>. QED BY <1>2, <1>3

LEMMA OverviewEntryIs ==
    ASSUME FilesInv, NEW e \in OverviewEntries
    PROVE  e.kind \in A!Kinds(a_query) /\ e \in Inventory(e.kind)
<1>1. PICK k \in A!Kinds(a_query) : e \in Inventory(k)
  BY DEF OverviewEntries
<1>. QED BY <1>1, EntryIs

\* A directory lists the entries that are in it.
LEMMA NamesExactly ==
    ASSUME FilesInv, NEW d, d = Place(d)
    PROVE  A!Names(d) = {e \in Inventory(d.kind) : Place(e) = d}
<1>1. \A e : Place(e) = d <=> e.kind = d.kind /\ e.year = d.year
  BY DEF Place
<1>2. CASE d.kind = "tickets"
  <2>. DEFINE there == {f \in A!OnFile : f.kind = d.kind /\ f.year = d.year}
              In(names, f) ==
                  {g \in names : g.kind = "tickets" /\ g.year = f.year /\ g.slug = f.slug}
              Group(names, f) ==
                  [kind |-> "tickets", year |-> f.year, slug |-> f.slug, files |-> In(names, f)]
  <2>1. \A f \in there : In(there, f) = In(A!OnFile, f)
    BY <1>2
  <2>2. \A f \in there : Group(there, f) = Group(A!OnFile, f)
    BY <2>1
  <2>3. A!Names(d) = {Group(there, f) : f \in {g \in there : g.kind = "tickets"}}
    BY <1>2 DEF A!Names, A!Groups
  <2>4. Inventory(d.kind) = {Group(A!OnFile, f) : f \in {g \in A!OnFile : g.kind = "tickets"}}
    BY <1>2 DEF Inventory, A!count_year, A!Groups
  <2>5. \A f : Group(A!OnFile, f).kind = "tickets" /\ Group(A!OnFile, f).year = f.year
    OBVIOUS
  <2>6. ASSUME NEW e \in A!Names(d)
        PROVE  e \in Inventory(d.kind) /\ Place(e) = d
    <3>1. PICK f \in there : f.kind = "tickets" /\ e = Group(there, f)
      BY <2>3
    <3>2. e = Group(A!OnFile, f) /\ f \in A!OnFile /\ f.year = d.year
      BY <2>2, <3>1
    <3>3. e.kind = d.kind /\ e.year = d.year
      BY <1>2, <2>5, <3>2
    <3>. HIDE DEF Group
    <3>. QED BY <1>1, <2>4, <3>1, <3>2, <3>3
  <2>7. ASSUME NEW e \in Inventory(d.kind), Place(e) = d
        PROVE  e \in A!Names(d)
    <3>1. PICK f \in A!OnFile : f.kind = "tickets" /\ e = Group(A!OnFile, f)
      BY <2>4
    <3>2. f.year = d.year
      BY <1>1, <2>5, <2>7, <3>1
    <3>3. f \in there
      BY <1>2, <3>1, <3>2
    <3>. HIDE DEF Group
    <3>. QED BY <2>2, <2>3, <3>1, <3>3
  <2>. QED BY <2>6, <2>7
<1>3. CASE d.kind # "tickets"
  BY <1>1, <1>3 DEF A!Names, A!Listed, Inventory, A!count_year
<1>. QED BY <1>2, <1>3

\* While nothing is written, the entries stay.
LEMMA EntriesStay ==
    ASSUME UNCHANGED <<a_disk, a_config, a_query>>
    PROVE  /\ \A k : Inventory(k)' = Inventory(k)
           /\ OverviewEntries' = OverviewEntries
           /\ A!Kinds(a_query)' = A!Kinds(a_query)
BY DEF Inventory, OverviewEntries, A!OnFile, A!Kinds, A!Browsable

LEMMA OnceEachBegins ==
    ASSUME FilesInv, NEW q, A!Handle(q)
    PROVE  OnceEach'
<1>. SUFFICES ASSUME a_stage' = "list", q.how = "index"
              PROVE  OnceEach'
  BY DEF A!Handle, OnceEach
<1>1. /\ a_query' = q /\ a_rows' = {} /\ a_todo' = {} /\ UNCHANGED <<a_disk, a_config>>
      /\ a_dirs' = UNION {A!Root(k) : k \in A!Kinds(q)}
      /\ a_cards' = [k \in A!Kinds(q) |-> A!Cardinality(Inventory(k))]
  BY DEF A!Handle, A!Answer, A!files, Inventory
<1>2. /\ \A k : Inventory(k)' = Inventory(k)
      /\ A!Kinds(a_query)' = A!Kinds(q)
      /\ OverviewEntries' = UNION {Inventory(k) : k \in A!Kinds(q)}
  BY <1>1 DEF Inventory, OverviewEntries, A!OnFile, A!Kinds, A!Browsable
<1>3. \A d \in a_dirs' : d = Place(d) /\ d.kind \in A!Kinds(q)
  BY <1>1 DEF A!Root, Place
<1>4. ASSUME NEW k \in A!Kinds(q), NEW e \in Inventory(k)
      PROVE  Place(e) \in a_dirs'
  <2>1. Place(e) \in A!Root(k)
    BY EntryIs DEF A!Root, Place
  <2>. QED BY <1>1, <2>1
<1>. QED BY <1>1, <1>2, <1>3, <1>4 DEF OnceEach

LEMMA OnceEachLists ==
    ASSUME DashboardInv, NEW d \in a_dirs, A!list_dir(d)
    PROVE  OnceEach'
<1>. SUFFICES ASSUME a_query.how = "index", a_quiet
              PROVE  OnceEach'
  BY DEF A!list_dir, OnceEach
<1>1. /\ UNCHANGED <<a_disk, a_config, a_query, a_stage, a_rows, a_quiet, a_cards>>
      /\ a_todo = {} /\ a_todo' = A!Names(d) /\ a_dirs' = a_dirs \ {d} /\ a_stage = "list"
  BY DEF A!list_dir, A!files
<1>2. /\ d = Place(d) /\ d.kind \in A!Kinds(a_query) /\ OnceEach /\ FilesInv
  BY <1>1 DEF OnceEach, DashboardInv
<1>3. A!Names(d) = {e \in Inventory(d.kind) : Place(e) = d}
  BY <1>2, NamesExactly
<1>4. A!Names(d) = {e \in OverviewEntries : Place(e) = d}
  <2>1. \A e \in OverviewEntries : Place(e) = d => e \in Inventory(d.kind)
    BY <1>2, OverviewEntryIs DEF Place
  <2>. QED BY <1>2, <1>3, <2>1 DEF OverviewEntries
<1>5. \A r \in a_rows :
        \E e \in OverviewEntries \ a_todo' : A!Like(e, r) /\ Place(e) \notin a_dirs'
  BY <1>1, <1>2, <1>4 DEF OnceEach
<1>6. \A e \in OverviewEntries :
        \/ e \in a_todo'
        \/ Place(e) \in a_dirs'
        \/ \E r \in a_rows : A!Like(e, r)
  BY <1>1, <1>2, <1>4 DEF OnceEach
<1>7. a_todo' \subseteq {e \in OverviewEntries : Place(e) \notin a_dirs'}
  BY <1>1, <1>4
<1>. QED BY <1>1, <1>2, <1>5, <1>6, <1>7, EntriesStay DEF OnceEach

LEMMA OnceEachReads ==
    ASSUME DashboardInv, NEW f \in a_todo, A!read_json(f)
    PROVE  OnceEach'
<1>. SUFFICES ASSUME a_query.how = "index", a_quiet, a_stage' = "list"
              PROVE  OnceEach'
  BY ReadingIsOne DEF OnceEach
<1>1. /\ UNCHANGED <<a_disk, a_config, a_query, a_quiet, a_cards>>
      /\ a_stage = "list"
  BY ReadingIsOne
<1>2. OnceEach /\ FilesInv
  BY DEF DashboardInv
<1>3. A!Wanted(f)
  BY DEF A!Wanted
<1>4. a_todo' = a_todo \ {f} /\ a_dirs' = a_dirs
  BY ReadingIsOne DEF IsRead, IsUnreadable
<1>5. PICK fields, mtime, links : a_rows' = a_rows \cup {A!Row(f, fields, mtime, links)}
  BY <1>3, ReadingIsOne, Zenon DEF IsRead, IsUnreadable
<1>. DEFINE row == A!Row(f, fields, mtime, links)
<1>6. \A e : A!Like(e, row) <=> e.kind = f.kind /\ e.year = f.year /\ e.slug = f.slug
  BY DEF A!Row, A!Like
<1>7. f \in OverviewEntries /\ Place(f) \notin a_dirs
  BY <1>1, <1>2 DEF OnceEach
<1>8. \A e \in OverviewEntries : A!Like(e, row) <=> e = f
  BY <1>2, <1>6, <1>7, SameEntry DEF OverviewEntries
<1>9. row.kind = f.kind /\ row.year = f.year /\ row.slug = f.slug
  BY DEF A!Row
<1>. HIDE DEF row
<1>10. \A r \in a_rows : ~ A!Like(r, row) /\ ~ A!Like(row, r)
  <2>1. SUFFICES ASSUME NEW r \in a_rows,
                        r.kind = row.kind, r.year = row.year, r.slug = row.slug
                 PROVE  FALSE
    BY DEF A!Like
  <2>2. PICK e \in OverviewEntries \ a_todo : A!Like(e, r)
    BY <1>1, <1>2 DEF OnceEach
  <2>3. A!Like(e, row)
    BY <2>1, <2>2 DEF A!Like
  <2>. QED BY <1>8, <2>2, <2>3
<1>11. a_rows' = a_rows \cup {row}
  BY <1>5 DEF row
<1>12. \A r, s \in a_rows' : A!Like(r, s) => r = s
  BY <1>1, <1>2, <1>10, <1>11 DEF OnceEach
<1>13. \A r \in a_rows' :
        \E e \in OverviewEntries \ a_todo' : A!Like(e, r) /\ Place(e) \notin a_dirs'
  BY <1>1, <1>2, <1>4, <1>7, <1>8, <1>11 DEF OnceEach
<1>14. \A e \in OverviewEntries :
        \/ e \in a_todo'
        \/ Place(e) \in a_dirs'
        \/ \E r \in a_rows' : A!Like(e, r)
  BY <1>1, <1>2, <1>4, <1>7, <1>8, <1>11 DEF OnceEach
<1>15. a_todo' \subseteq {e \in OverviewEntries : Place(e) \notin a_dirs'}
  BY <1>1, <1>2, <1>4 DEF OnceEach
<1>. QED BY <1>1, <1>2, <1>4, <1>12, <1>13, <1>14, <1>15, EntriesStay DEF OnceEach

\* When all has been read, there is a row for each entry.
LEMMA CardsCount ==
    ASSUME FilesInv, OnceEach, IsFiniteSet(a_rows),
           a_stage = "list", a_query.how = "index", a_quiet, a_dirs = {}, a_todo = {},
           NEW k \in A!Kinds(a_query)
    PROVE  a_cards[k] = A!Cardinality({r \in a_rows : r.kind = k})
<1>. DEFINE R == {r \in a_rows : r.kind = k}
            f == [r \in R |-> CHOOSE e \in Inventory(k) : A!Like(e, r)]
<1>1. /\ \A r \in a_rows : \E e \in OverviewEntries : A!Like(e, r)
      /\ \A r, s \in a_rows : A!Like(r, s) => r = s
      /\ \A e \in OverviewEntries : \E r \in a_rows : A!Like(e, r)
      /\ a_cards[k] = A!Cardinality(Inventory(k))
  BY DEF OnceEach
<1>2. \A r \in R : f[r] \in Inventory(k) /\ A!Like(f[r], r)
  <2>1. ASSUME NEW r \in R
        PROVE  \E e \in Inventory(k) : A!Like(e, r)
    <3>1. PICK e \in OverviewEntries : A!Like(e, r)
      BY <1>1
    <3>2. e.kind = k
      BY <3>1 DEF A!Like
    <3>. QED BY <3>1, <3>2, OverviewEntryIs
  <2>. QED BY <2>1
<1>3. \A r, s \in R : f[r] = f[s] => r = s
  <2>. HIDE DEF f
  <2>1. \A r, s \in R : f[r] = f[s] => A!Like(r, s)
    BY <1>2 DEF A!Like
  <2>. QED BY <1>1, <2>1
<1>4. ASSUME NEW e \in Inventory(k)
      PROVE  \E r \in R : f[r] = e
  <2>1. PICK r \in a_rows : A!Like(e, r)
    BY <1>1 DEF OverviewEntries
  <2>2. e.kind = k
    BY EntryIs
  <2>3. r \in R
    BY <2>1, <2>2 DEF A!Like
  <2>4. f[r] \in Inventory(k) /\ A!Like(f[r], r)
    BY <1>2, <2>3
  <2>5. f[r] = e
    BY <2>1, <2>4, SameEntry DEF A!Like
  <2>. QED BY <2>3, <2>5
<1>5. IsFiniteSet(R)
  BY FS_Subset
<1>6. f \in [R -> Inventory(k)]
  BY <1>2
<1>. HIDE DEF f
<1>7. f \in Bijection(R, Inventory(k))
  BY <1>3, <1>4, <1>6 DEF Bijection, Injection, Surjection, IsInjective
<1>8. Cardinality(Inventory(k)) = Cardinality(R)
  BY <1>5, <1>7, FS_Bijection DEF ExistsBijection
<1>. QED BY <1>1, <1>8 DEF A!Cardinality, Cardinality

\* A section that shows as many rows as there are, shows them all.
LEMMA OverviewIsComplete ==
    ASSUME A!DashboardAssumption, DashboardInv, A!index
    PROVE  a_answer'.shown # a_rows => a_answer'.pages = 2
<1>. DEFINE Coming == A!Upcoming(a_rows, a_today)
            Past == A!Recent(a_rows, a_today)
            Top(s) == {s[i] : i \in {j \in DOMAIN s : j <= FEED_HOMEPAGE_LIMIT}}
<1>1. PICK next \in A!Sorted(Coming, A!Soonest(a_rows)), last \in A!Sorted(Past, A!Latest(a_rows)) :
        a_answer' = [status |-> 200, shown |-> Top(next) \cup Top(last), page |-> 1,
                     pages |-> IF A!Cardinality(a_rows) > FEED_HOMEPAGE_LIMIT THEN 2 ELSE 1]
  BY DEF A!index
<1>2. Coming \subseteq a_rows /\ Past = a_rows \ Coming
  BY DEF A!Recent, A!Upcoming
<1>3. IsFiniteSet(a_rows) /\ FEED_HOMEPAGE_LIMIT \in Nat
  BY DEF DashboardInv, RowsLead, A!DashboardAssumption, A!PagesAssumption
<1>. HIDE DEF Coming, Past
<1>4. ASSUME ~ (A!Cardinality(a_rows) > FEED_HOMEPAGE_LIMIT),
             NEW T, T \subseteq a_rows, NEW P, NEW s \in A!Sorted(T, P)
      PROVE  Top(s) = T
  <2>1. IsFiniteSet(T) /\ Cardinality(T) <= Cardinality(a_rows)
    BY <1>3, <1>4, FS_Subset
  <2>2. /\ Len(s) = Cardinality(T) /\ Len(s) \in Nat /\ s \in [1 .. Len(s) -> T]
        /\ {s[i] : i \in 1 .. Len(s)} = T
    BY <2>1, InOrder
  <2>3. Cardinality(a_rows) \in Nat /\ Cardinality(a_rows) <= FEED_HOMEPAGE_LIMIT
    <3>1. A!Cardinality(a_rows) = Cardinality(a_rows)
      BY DEF A!Cardinality, Cardinality
    <3>2. Cardinality(a_rows) \in Nat
      BY <1>3, FS_CardinalityType
    <3>. QED BY <1>3, <1>4, <3>1, <3>2
  <2>4. {j \in DOMAIN s : j <= FEED_HOMEPAGE_LIMIT} = 1 .. Len(s)
    BY <1>3, <2>1, <2>2, <2>3
  <2>. QED BY <2>2, <2>4
<1>5. ASSUME ~ (A!Cardinality(a_rows) > FEED_HOMEPAGE_LIMIT)
      PROVE  Top(next) \cup Top(last) = a_rows
  <2>1. Top(next) = Coming /\ Top(last) = Past
    BY <1>2, <1>4, <1>5
  <2>. QED BY <1>2, <2>1
<1>. HIDE DEF Top
<1>. QED BY <1>1, <1>5

\* The overview.
LEMMA OverviewStep ==
    ASSUME A!DashboardAssumption, DashboardInv, A!Next
    PROVE  OnceEach' /\ A!OverviewAddsUp'
<1>. USE DEF DashboardInv, A!AnswersAreTrue
<1>1. CASE Filing /\ UNCHANGED A!server
  <2>1. UNCHANGED <<a_query, a_stage, a_dirs, a_todo, a_rows, a_cards, a_answer, a_link, a_config>>
    BY <1>1 DEF A!server, Filing, A!File, A!write_tmp, A!persist, A!Crash, A!Reindexed, A!Midnight
  <2>2. a_quiet' => a_quiet /\ UNCHANGED a_disk
    BY <1>1 DEF Filing, A!File, A!write_tmp, A!persist, A!Crash, A!Reindexed, A!Midnight
  <2>3. OnceEach'
    BY <2>1, <2>2, EntriesStay DEF OnceEach
  <2>4. A!Kinds(a_query)' = A!Kinds(a_query)
    BY <2>1 DEF A!Kinds, A!Browsable
  <2>5. A!OverviewAddsUp'
    BY <2>1, <2>2, <2>4 DEF A!OverviewAddsUp
  <2>. QED BY <2>3, <2>5
<1>2. CASE (\E q \in Queries : A!Visit(q)) \/ A!NextPage
  <2>1. PICK q : A!Handle(q)
    BY <1>2, RequestBegins
  <2>2. ~ (a_stage' = "answered" /\ a_answer'.status = 200)
    BY <2>1 DEF A!Handle, A!Answer
  <2>. QED BY <2>1, <2>2, OnceEachBegins DEF A!OverviewAddsUp
<1>3. CASE \E d \in a_dirs : A!list_dir(d)
  <2>1. a_stage' = "list"
    BY <1>3 DEF A!list_dir
  <2>. QED BY <1>3, <2>1, OnceEachLists DEF A!OverviewAddsUp
<1>4. ASSUME NEW f \in a_todo, A!read_json(f)
      PROVE  OnceEach' /\ A!OverviewAddsUp'
  <2>1. a_stage' = "list" \/ a_answer'.status = 500
    <3>1. a_stage = "list"
      BY <1>4, ReadingIsOne
    <3>2. \/ a_stage' = a_stage
          \/ a_answer' = [status |-> 500, shown |-> {}, page |-> 0, pages |-> 0]
      BY <1>4, ReadingIsOne DEF IsRead, IsUnreadable
    <3>. QED BY <3>1, <3>2
  <2>. QED BY <1>4, <2>1, OnceEachReads DEF A!OverviewAddsUp
<1>5. CASE A!RenderList \/ A!list_all \/ A!api
  BY <1>5 DEF A!RenderList, A!list_all, A!api, A!Answer, A!Served, OnceEach, A!OverviewAddsUp
<1>6. CASE A!index
  <2>1. /\ UNCHANGED <<a_config, a_query, a_rows, a_cards, a_quiet>>
        /\ a_stage = "list" /\ a_query.how = "index" /\ a_dirs = {} /\ a_todo = {}
        /\ a_stage' = "answered"
    BY <1>6 DEF A!index, A!Served, A!Ready
  <2>2. a_quiet => \A k \in A!Kinds(a_query) : a_cards[k] = A!Cardinality({r \in a_rows : r.kind = k})
    BY <2>1, CardsCount DEF RowsLead
  <2>3. A!Kinds(a_query)' = A!Kinds(a_query)
    BY <2>1 DEF A!Kinds, A!Browsable
  <2>4. a_answer'.shown # a_rows => a_answer'.pages = 2
    BY <1>6, OverviewIsComplete
  <2>. QED BY <2>1, <2>2, <2>3, <2>4 DEF OnceEach, A!OverviewAddsUp
<1>7. CASE \/ \E l \in A!Linked : A!Follow(l)
           \/ A!serve_file \/ A!view_bill \/ A!view_receipt \/ A!view_reservation
           \/ A!view_parcel \/ A!view_subscription \/ A!view_ticket \/ A!SidecarMissing
  <2>1. a_query' = a_query /\ a_query.how # "index"
    BY <1>7 DEF A!Follow, A!serve_file, A!View, A!view_bill, A!view_receipt, A!view_reservation,
         A!view_parcel, A!view_subscription, A!view_ticket, A!SidecarMissing, A!Respond, LinkInv
  <2>. QED BY <2>1 DEF OnceEach, A!OverviewAddsUp
<1>. QED BY <1>1, <1>2, <1>3, <1>4, <1>5, <1>6, <1>7, EitherSide DEF Requesting

\* The dashboard begins and goes on as it should.
LEMMA DashboardBegins ==
    ASSUME A!DashboardAssumption, A!Init
    PROVE  DashboardInv
<1>1. PICK d \in Disks : a_disk = d
  BY DEF A!Init
<1>2. FilesInv
  <2>1. IsFiniteSet(A!OnFile) /\ \A f \in A!OnFile : Stored(f)
    BY <1>1 DEF A!DashboardAssumption, Stored, A!OnFile, A!IsFiniteSet, IsFiniteSet
  <2>2. <<>> \in Seq(Filed)
    OBVIOUS
  <2>. QED BY <2>1, <2>2 DEF FilesInv, Stored, A!Init, TempThere
<1>3. IsFiniteSet({})
  BY FS_EmptySet
<1>4. TodoThere /\ RowsLead /\ AnswerInv
  BY <1>3 DEF TodoThere, RowsLead, AnswerInv, A!Init, A!NoAnswer
<1>5. LinkInv /\ OnceEach
  BY DEF LinkInv, OnceEach, A!Init
<1>6. A!AnswersAreTrue
  BY DEF A!AnswersAreTrue, A!FaultsAreReal, A!LinksLead, A!OverviewAddsUp, A!Init, A!NoAnswer
<1>. QED BY <1>2, <1>4, <1>5, <1>6 DEF DashboardInv

LEMMA DashboardGoesOn ==
    ASSUME A!DashboardAssumption, DashboardInv, A!Next \/ UNCHANGED A!vars
    PROVE  DashboardInv'
<1>1. CASE UNCHANGED A!vars
  <2>1. FilesInv'
    <3>1. UNCHANGED <<a_disk, a_writing, a_temp, a_filings, a_moves, a_today>>
      BY <1>1 DEF A!vars
    <3>2. A!OnFile' = A!OnFile /\ (\A f : Stored(f)' <=> Stored(f)) /\ (TempThere => TempThere')
      BY <3>1 DEF A!OnFile, Stored, TempThere, A!Target, A!Temp, A!IsFields
    <3>. QED BY <3>1, <3>2 DEF DashboardInv, FilesInv, Stored
  <2>2. TodoThere' /\ RowsLead'
    BY <1>1 DEF A!vars, DashboardInv, TodoThere, RowsLead, A!Links, Leads, Stray, StillThere,
                A!OnFile
  <2>3. AnswerInv' /\ LinkInv'
    BY <1>1 DEF A!vars, DashboardInv, AnswerInv, LinkInv, Leads, Stray, StillThere, A!OnFile
  <2>4. OnceEach'
    <3>1. UNCHANGED <<a_stage, a_query, a_quiet, a_cards, a_dirs, a_todo, a_rows, a_disk,
                      a_config>>
      BY <1>1 DEF A!vars
    <3>. QED BY <3>1, EntriesStay DEF OnceEach, DashboardInv
  <2>5. A!AnswersAreTrue'
    BY <1>1 DEF A!vars, DashboardInv, A!AnswersAreTrue, A!FaultsAreReal, A!LinksLead,
                A!OverviewAddsUp, A!Kinds, A!Browsable
  <2>. QED BY <2>1, <2>2, <2>3, <2>4, <2>5 DEF DashboardInv
<1>2. CASE A!Next
  <2>1. FilesInv'
    BY <1>2, FilesInvStep DEF DashboardInv
  <2>2. OnceEach' /\ A!OverviewAddsUp'
    BY <1>2, OverviewStep
  <2>3. TodoThere' /\ RowsLead' /\ AnswerInv' /\ LinkInv' /\ A!FaultsAreReal' /\ A!LinksLead'
    BY <1>2, EitherSide, FilingKeepsLinks, RequestBegins, HandleKeepsLinks, ListingKeepsLinks,
       ReadingKeepsLinks, RenderKeepsLinks, FollowingKeepsLinks DEF Requesting
  <2>. QED BY <2>1, <2>2, <2>3 DEF DashboardInv, A!AnswersAreTrue
<1>. QED BY <1>1, <1>2

(***************************************************************************)
(* What the dashboard answers is true to the archives, whatever is filed,  *)
(* renamed or left half-written while it answers, and however many         *)
(* requests there are: a fault of its own it reports only when something   *)
(* was renamed or a sidecar just landed, its links lead where they say,    *)
(* and the overview adds up (AppError, read_status, the view handlers,     *)
(* sibling_blobs, index).                                                  *)
(***************************************************************************)
THEOREM AnswersStayTrue ==
    ASSUME A!DashboardAssumption
    PROVE  A!Spec => []AnswersAreTrue
<1>1. A!Init => DashboardInv
  BY DashboardBegins
<1>2. DashboardInv /\ [A!Next]_(A!vars) => DashboardInv'
  BY DashboardGoesOn
<1>3. DashboardInv => AnswersAreTrue
  BY DEF DashboardInv, AnswersAreTrue
<1>. QED BY <1>1, <1>2, <1>3, PTL DEF A!Spec

-----------------------------------------------------------------------------

\* The lists that come in pages.
Paged ==
    \/ a_query.how = "all"
    \/ a_query.how = "list" /\ a_query.kind \notin {"events", "subscriptions", "tickets"}

\* What belongs on such a list, and what of it was there when the reader began.
Wares == {e \in OverviewEntries : A!Wanted(e)}
Due == {e \in UNION {A!Entries(a_before, k) : k \in A!Kinds(a_query)} : A!Wanted(e)}

\* What is read of an entry, and the date it is listed by.
Sidecars(e) == {g \in e.files : g.ext = "meta.json" /\ g \in A!OnFile /\ a_disk[g].whole}
FieldsOf(e) ==
    IF e.kind # "tickets" THEN a_disk[e].fields
    ELSE IF Sidecars(e) = {} THEN <<>>
    ELSE a_disk[CHOOSE g \in Sidecars(e) : TRUE].fields
MtimesOf(e) == {A!Undated} \cup {a_disk[g].mtime : g \in e.files \cap A!OnFile}
Newest(mtimes) == CHOOSE d \in mtimes : \A t \in mtimes : t <= d
MtimeOf(e) == IF e.kind # "tickets" THEN a_disk[e].mtime ELSE Newest(MtimesOf(e))
DateOf(e) ==
    IF a_query.how = "all" THEN A!FeedDate(e.kind, FieldsOf(e), MtimeOf(e))
    ELSE A!ListedDate(e.kind, FieldsOf(e), MtimeOf(e))

\* What this request has shown a row of or may still come to.
Covered(e) == Place(e) \in a_dirs \/ \E x \in a_todo \cup a_rows : A!Like(e, x)
Scope == {e \in Wares : Covered(e)}

\* The entries that go before e in the list.
Sooner(x, e) ==
    IF a_query.how = "all" THEN DateOf(x) > DateOf(e) /\ DateOf(x) < a_today
    ELSE \/ DateOf(x) > DateOf(e)
         \/ DateOf(x) = DateOf(e) /\ x.year > e.year
         \/ DateOf(x) = DateOf(e) /\ x.year = e.year /\ x.slug < e.slug
Ahead(e) == {x \in Scope : Sooner(x, e)}
Level(e) == a_query.how = "all" /\ \E x \in Scope : x # e /\ DateOf(x) = DateOf(e)

\* How far the reader is: the pages behind them, and what they have been shown.
Leafing ==
    \/ a_stage = "list"
    \/ a_stage = "answered" /\ a_answer.status = 200 /\ a_link = A!NoLink
Leafed == IF a_stage = "list" THEN a_query.n - 1 ELSE a_answer.page
Told == IF a_stage = "list" THEN a_seen ELSE a_seen \cup a_answer.shown

\* What was on file is still there.
Kept ==
    ~ a_altered =>
        /\ \A f \in a_before : f \in Temps \/ (f \in A!FileName /\ f \in A!OnFile)
        /\ a_query.how = "all" =>
              {f \in a_before : f.kind = "tickets"} = {f \in A!OnFile : f.kind = "tickets"}

\* Each row is of one entry, and of no other.
Shows(r, e) == A!Like(e, r) /\ r.date = DateOf(e) /\ r.active = FALSE
Gathered ==
    a_stage = "list" /\ Paged /\ ~ a_altered =>
        /\ \A d \in a_dirs : d = Place(d) /\ d.kind \in A!Kinds(a_query)
        /\ a_todo \subseteq {e \in OverviewEntries : Place(e) \notin a_dirs}
        /\ \A r \in a_rows :
              \E e \in Wares \ a_todo : Shows(r, e) /\ Place(e) \notin a_dirs
        /\ \A r, s \in a_rows : A!Like(r, s) => r = s

NoneForgotten ==
    a_stage = "list" /\ a_query.how \in {"list", "all"} /\ ~ a_altered =>
        \A e \in Due : Covered(e)

\* What the reader has not been shown comes after all of the pages they have seen.
FarEnough ==
    Leafing /\ Paged /\ ~ a_altered =>
        \A e \in Due :
           \/ Level(e)
           \/ \E r \in Told : A!Like(e, r)
           \/ /\ A!Cardinality(Ahead(e)) >= Leafed * PAGE_SIZE
              /\ a_query.how = "all" /\ Leafed > 0 => DateOf(e) < a_today

FromOne == a_stage # "idle" => a_query.n >= 1

LeafInv ==
    /\ DashboardInv
    /\ Kept /\ Gathered /\ NoneForgotten /\ FarEnough /\ FromOne
    /\ A!NothingSkipped

-----------------------------------------------------------------------------

\* A finite set of numbers has a largest.
LEMMA Largest ==
    ASSUME NEW Days, IsFiniteSet(Days), Days \subseteq Nat, Days # {}
    PROVE  Newest(Days) \in Days /\ \A t \in Days : t <= Newest(Days)
<1>. DEFINE Has(s) == \E d \in s : \A t \in s : t <= d
            Bad == {s \in SUBSET Days : s # {} /\ ~ Has(s)}
<1>1. \A s \in SUBSET Days : IsFiniteSet(s) /\ Cardinality(s) \in Nat
  BY FS_Subset, FS_CardinalityType
<1>2. ASSUME Bad # {} PROVE FALSE
  <2>1. PICK s \in Bad : \A t \in Bad : Cardinality(s) <= Cardinality(t)
    <3>1. {Cardinality(t) : t \in Bad} \subseteq Nat /\ {Cardinality(t) : t \in Bad} # {}
      BY <1>1, <1>2
    <3>2. PICK n \in {Cardinality(t) : t \in Bad} : \A m \in {Cardinality(t) : t \in Bad} : n <= m
      BY <3>1, Smallest
    <3>. QED BY <3>2
  <2>2. PICK x \in s : TRUE
    OBVIOUS
  <2>3. Cardinality(s \ {x}) = Cardinality(s) - 1 /\ s \ {x} \in SUBSET Days
    BY <1>1, <2>2, FS_RemoveElement
  <2>4. s \ {x} \notin Bad
    <3>1. Cardinality(s) \in Nat
      BY <1>1
    <3>. HIDE DEF Bad
    <3>. QED BY <2>1, <2>3, <3>1
  <2>5. s \ {x} = {} \/ Has(s \ {x})
    BY <2>3, <2>4
  <2>6. CASE s \ {x} = {}
    <3>1. \A t \in s : t <= x
      BY <2>6
    <3>. QED BY <2>2, <3>1
  <2>7. CASE Has(s \ {x})
    <3>1. PICK d \in s \ {x} : \A t \in s \ {x} : t <= d
      BY <2>7
    <3>2. d \in Nat /\ x \in Nat
      BY <2>2, <3>1
    <3>3. \/ \A t \in s : t <= d
          \/ \A t \in s : t <= x
      BY <3>1, <3>2
    <3>. QED BY <2>2, <3>1, <3>3
  <2>. QED BY <2>5, <2>6, <2>7
<1>3. Has(Days)
  BY <1>2
<1>. QED BY <1>3 DEF Newest

\* Dates are days.
LEMMA DatedIsNat ==
    ASSUME NEW fields, A!IsFields(fields), NEW n \in Nat, NEW keys, DOMAIN keys = 1 .. n
    PROVE  A!Dated(fields, keys) \in Nat
<1>. DEFINE there == {i \in DOMAIN keys : keys[i] \in DOMAIN fields}
            i0 == CHOOSE i \in there : \A j \in there : i <= j
<1>1. there \subseteq Nat
  OBVIOUS
<1>2. there # {} => i0 \in there
  BY <1>1, Smallest
<1>3. there # {} => fields[keys[i0]] \in Nat \cup {Garbled}
  BY <1>2 DEF A!IsFields
<1>4. A!pick_str(fields, keys) = IF there = {} THEN A!Undated ELSE fields[keys[i0]]
  BY DEF A!pick_str
<1>. HIDE DEF there, i0
<1>. QED BY <1>3, <1>4 DEF A!Dated, A!parse_any_date, A!Undated

LEMMA DatesAreDays ==
    ASSUME NEW k \in A!Kind, NEW fields, A!IsFields(fields), NEW mtime \in Nat
    PROVE  A!FeedDate(k, fields, mtime) \in Nat /\ A!ListedDate(k, fields, mtime) \in Nat
<1>1. \A a : A!Dated(fields, <<a>>) \in Nat
  <2>1. \A a : DOMAIN <<a>> = 1 .. 1
    OBVIOUS
  <2>. QED BY <2>1, DatedIsNat
<1>2. \A a, b : A!Dated(fields, <<a, b>>) \in Nat
  <2>1. \A a, b : DOMAIN <<a, b>> = 1 .. 2
    OBVIOUS
  <2>. QED BY <2>1, DatedIsNat
<1>3. \A a, b, c : A!Dated(fields, <<a, b, c>>) \in Nat
  <2>1. \A a, b, c : DOMAIN <<a, b, c>> = 1 .. 3
    OBVIOUS
  <2>. QED BY <2>1, DatedIsNat
<1>4. \A a, b, c, d : A!Dated(fields, <<a, b, c, d>>) \in Nat
  <2>1. \A a, b, c, d : DOMAIN <<a, b, c, d>> = 1 .. 4
    OBVIOUS
  <2>. QED BY <2>1, DatedIsNat
<1>5. \A a, b, c, d, e : A!Dated(fields, <<a, b, c, d, e>>) \in Nat
  <2>1. \A a, b, c, d, e : DOMAIN <<a, b, c, d, e>> = 1 .. 5
    OBVIOUS
  <2>. QED BY <2>1, DatedIsNat
<1>6. \A x \in Nat, y \in Nat : A!Else(x, y) \in Nat
  BY DEF A!Else
<1>7. A!reservation_listed_date(fields) \in Nat /\ A!list_tickets(fields, mtime) \in Nat
  BY <1>1, <1>5, <1>6 DEF A!reservation_listed_date, A!list_tickets
<1>8. A!ListedDate(k, fields, mtime) \in Nat
  BY <1>1, <1>2, <1>3, <1>5, <1>7 DEF A!ListedDate, A!list_bills, A!list_parcels, A!list_receipts,
     A!list_subscriptions, A!Undated, A!Kind
<1>9. k \notin {"reservations", "tickets"} => A!build_feed(k, fields) \in Nat
  BY <1>1, <1>2, <1>3, <1>4, <1>5, <1>6 DEF A!build_feed, A!Kind
<1>10. A!FeedDate(k, fields, mtime) \in Nat
  BY <1>6, <1>7, <1>9 DEF A!FeedDate, A!Kind
<1>. QED BY <1>8, <1>10

\* Where a row comes when they are put in an order: after those that precede it.
LEMMA Position ==
    ASSUME NEW T, IsFiniteSet(T), NEW O, NEW s \in A!Sorted(T, O), NEW r \in T,
           <<r, r>> \notin O, \A x \in T : x # r => <<x, r>> \in O \/ <<r, x>> \in O
    PROVE  \E p \in 1 .. Len(s) :
              s[p] = r /\ Cardinality({x \in T : <<x, r>> \in O}) = p - 1
<1>. DEFINE n == Cardinality(T)
            Before == {x \in T : <<x, r>> \in O}
<1>1. n \in Nat /\ Len(s) = n /\ {s[i] : i \in 1 .. n} = T
  BY InOrder
<1>2. /\ s \in [1 .. n -> T]
      /\ \A i, j \in 1 .. n : i < j => s[i] # s[j] /\ <<s[j], s[i]>> \notin O
  BY DEF A!Sorted, A!Cardinality, Cardinality
<1>. HIDE DEF n
<1>3. PICK p \in 1 .. n : s[p] = r
  BY <1>1
<1>. DEFINE f == [j \in 1 .. (p - 1) |-> s[j]]
<1>4. \A j \in 1 .. n : s[j] \in Before <=> j < p
  <2>1. ASSUME NEW j \in 1 .. n, j < p
        PROVE  s[j] \in Before
    <3>1. s[j] # r /\ <<r, s[j]>> \notin O /\ s[j] \in T
      BY <1>2, <1>3, <2>1
    <3>. QED BY <3>1
  <2>2. ASSUME NEW j \in 1 .. n, s[j] \in Before
        PROVE  j < p
    <3>1. <<s[j], r>> \in O
      BY <2>2
    <3>2. j # p
      BY <1>3, <3>1
    <3>3. ~ (p < j)
      BY <1>2, <1>3, <3>1
    <3>. QED BY <3>2, <3>3
  <2>. QED BY <2>1, <2>2
<1>5. f \in Bijection(1 .. (p - 1), Before)
  <2>1. \A j \in 1 .. (p - 1) : j \in 1 .. n /\ j < p
    BY <1>1
  <2>2. f \in [1 .. (p - 1) -> Before]
    BY <1>4, <2>1
  <2>3. \A i, j \in 1 .. (p - 1) : f[i] = f[j] => i = j
    <3>1. \A i, j \in 1 .. (p - 1) : i < j \/ j < i \/ i = j
      OBVIOUS
    <3>. QED BY <1>2, <2>1, <3>1
  <2>4. ASSUME NEW x \in Before
        PROVE  \E j \in 1 .. (p - 1) : f[j] = x
    <3>1. PICK j \in 1 .. n : s[j] = x
      BY <1>1
    <3>2. j < p
      BY <1>4, <3>1
    <3>. QED BY <1>1, <3>1, <3>2
  <2>. HIDE DEF f, Before
  <2>. QED BY <2>2, <2>3, <2>4 DEF Bijection, Injection, Surjection, IsInjective
<1>6. IsFiniteSet(1 .. (p - 1)) /\ Cardinality(1 .. (p - 1)) = p - 1
  <2>1. 1 \in Int /\ p - 1 \in Int /\ p - 1 >= 0
    BY <1>1
  <2>. QED BY <2>1, FS_Interval
<1>7. Cardinality(Before) = p - 1
  <2>. HIDE DEF f, Before
  <2>. QED BY <1>5, <1>6, FS_Bijection DEF ExistsBijection
<1>. QED BY <1>1, <1>3, <1>7

\* A row that is past the pages before is on this one or past it, and past none
\* when this one is the last.
LEMMA OnPage ==
    ASSUME A!PagesAssumption, NEW R, NEW s \in Seq(R), NEW n \in Nat, n >= 1,
           NEW p \in 1 .. Len(s), p - 1 >= (n - 1) * PAGE_SIZE
    PROVE  /\ A!Clamped(n, Len(s)) = n
           /\ \/ \E i \in DOMAIN A!paginate(s, n) : A!paginate(s, n)[i] = s[p]
              \/ p - 1 >= n * PAGE_SIZE /\ n # A!Pages(Len(s))
<1>. DEFINE total == Len(s)
            x == total + PAGE_SIZE - 1
            q == x \div PAGE_SIZE
            last == IF n * PAGE_SIZE > total THEN total ELSE n * PAGE_SIZE
            start == (n - 1) * PAGE_SIZE + 1
<1>1. total \in Nat /\ PAGE_SIZE \in Nat /\ PAGE_SIZE >= 1 /\ p \in Nat /\ p <= total /\ p >= 1
  BY DEF A!PagesAssumption
<1>2. x \in Nat
  BY <1>1
<1>3. q \in Int /\ x < (q + 1) * PAGE_SIZE
  <2>. HIDE DEF x
  <2>. QED BY <1>1, <1>2
<1>4. A!Pages(total) = q
  BY <1>1 DEF A!Pages
<1>. HIDE DEF q
<1>5. n * PAGE_SIZE = (n - 1) * PAGE_SIZE + PAGE_SIZE /\ n * PAGE_SIZE \in Nat
      /\ (n - 1) * PAGE_SIZE \in Nat
  BY <1>1
<1>6. (q + 1) * PAGE_SIZE = q * PAGE_SIZE + PAGE_SIZE /\ q * PAGE_SIZE \in Int
  BY <1>1, <1>3
<1>7. n <= q
  <2>1. SUFFICES ASSUME q + 1 <= n PROVE FALSE
    BY <1>3
  <2>2. (q + 1) * PAGE_SIZE <= n * PAGE_SIZE
    BY <1>1, <1>3, <2>1
  <2>3. total + PAGE_SIZE - 1 < n * PAGE_SIZE
    BY <1>1, <1>3, <1>5, <1>6, <2>2
  <2>. QED BY <1>1, <1>5, <2>3
<1>8. A!Clamped(n, total) = n
  BY <1>3, <1>4, <1>7 DEF A!Clamped
<1>9. A!paginate(s, n) = SubSeq(s, start, last)
  BY <1>8 DEF A!paginate
<1>. HIDE DEF total
<1>10. n = q => p <= n * PAGE_SIZE
  BY <1>1, <1>3, <1>5, <1>6
<1>11. CASE p <= n * PAGE_SIZE
  <2>1. start \in Nat /\ start >= 1 /\ last \in Nat /\ last <= total /\ start <= p /\ p <= last
    BY <1>1, <1>5, <1>11
  <2>. HIDE DEF start, last
  <2>2. SubSeq(s, start, last) = [i \in 1 .. (1 + last - start) |-> s[i + start - 1]]
    BY <2>1 DEF total
  <2>3. p - start + 1 \in 1 .. (1 + last - start) /\ (p - start + 1) + start - 1 = p
    BY <1>1, <2>1
  <2>4. SubSeq(s, start, last)[p - start + 1] = s[p]
    BY <2>2, <2>3
  <2>5. p - start + 1 \in DOMAIN SubSeq(s, start, last)
    BY <2>2, <2>3
  <2>. QED BY <1>8, <1>9, <2>4, <2>5 DEF total
<1>12. CASE ~ (p <= n * PAGE_SIZE)
  <2>1. p - 1 >= n * PAGE_SIZE
    BY <1>1, <1>5, <1>12
  <2>. QED BY <1>4, <1>8, <1>10, <1>12, <2>1 DEF total
<1>. QED BY <1>11, <1>12

\* Sets whose members are alike one by one are of one size.
LEMMA OneByOne ==
    ASSUME NEW X, IsFiniteSet(X), NEW Y,
           \A x \in X : \E y \in Y : A!Like(y, x),
           \A y \in Y : \E x \in X : A!Like(y, x),
           \A x, z \in X : A!Like(x, z) => x = z,
           \A y, z \in Y : A!Like(y, z) => y = z
    PROVE  Cardinality(Y) = Cardinality(X) /\ IsFiniteSet(Y)
<1>. DEFINE f == [x \in X |-> CHOOSE y \in Y : A!Like(y, x)]
<1>1. \A x \in X : f[x] \in Y /\ A!Like(f[x], x)
  OBVIOUS
<1>2. f \in [X -> Y]
  BY <1>1
<1>. HIDE DEF f
<1>3. \A x, z \in X : f[x] = f[z] => x = z
  BY <1>1 DEF A!Like
<1>4. ASSUME NEW y \in Y
      PROVE  \E x \in X : f[x] = y
  <2>1. PICK x \in X : A!Like(y, x)
    OBVIOUS
  <2>2. A!Like(y, f[x])
    BY <1>1, <2>1 DEF A!Like
  <2>. QED BY <1>1, <2>1, <2>2
<1>5. f \in Bijection(X, Y)
  BY <1>2, <1>3, <1>4 DEF Bijection, Injection, Surjection, IsInjective
<1>. QED BY <1>5, FS_Bijection DEF ExistsBijection

-----------------------------------------------------------------------------

\* A step that leaves the order of what is on a list alone.
Fixed(f) == f \in A!FileName \/ (a_query.how = "all" /\ f.kind = "tickets")
Steady ==
    /\ ~ a_altered /\ ~ a_altered'
    /\ UNCHANGED <<a_config, a_before>>
    /\ a_query'.how = a_query.how /\ a_query'.kind = a_query.kind
    /\ a_query'.year = a_query.year /\ a_query'.matching = a_query.matching
    /\ \A f \in A!OnFile : Fixed(f) => f \in A!OnFile' /\ a_disk'[f] = a_disk[f]
    /\ a_query.how = "all" =>
          {f \in A!OnFile' : f.kind = "tickets"} = {f \in A!OnFile : f.kind = "tickets"}
    /\ a_today <= a_today'

LEMMA FilingIsSteady ==
    ASSUME A!DashboardAssumption, FilesInv, Filing \/ UNCHANGED A!vars, UNCHANGED A!server,
           ~ a_altered'
    PROVE  Steady
<1>1. a_query' = a_query
  BY DEF A!server
<1>2. a_today \in Nat /\ IsFiniteSet(A!OnFile)
  BY DEF FilesInv
<1>. USE DEF Steady
<1>3. CASE UNCHANGED a_disk /\ UNCHANGED <<a_config, a_before, a_altered>> /\ a_today <= a_today'
  BY <1>1, <1>3 DEF A!OnFile
<1>4. CASE UNCHANGED A!vars
  BY <1>2, <1>3, <1>4 DEF A!vars
<1>5. CASE (\E filing \in Filings : A!File(filing)) \/ A!Crash \/ A!Midnight
  BY <1>2, <1>3, <1>5 DEF A!File, A!Crash, A!Midnight, A!files
<1>6. CASE A!write_tmp
  <2>. DEFINE tmp == A!Temp(A!Target.kind, A!Target.year)
  <2>1. /\ a_disk' = [f \in DOMAIN a_disk \cup {tmp} |-> IF f = tmp THEN A!Partial ELSE a_disk[f]]
        /\ UNCHANGED <<a_config, a_before, a_today>> /\ a_writing # <<>>
        /\ ~ a_altered /\ ~ A!Retimed
    BY <1>6 DEF A!write_tmp, A!OnFile
  <2>2. tmp.kind = A!Target.kind /\ tmp \in Temps /\ tmp \notin A!FileName
    BY <2>1, TargetIs, TempOrName DEF A!Temp, Temps, A!NoStem
  <2>. HIDE DEF tmp
  <2>3. /\ A!OnFile' = A!OnFile \cup {tmp}
        /\ \A f \in A!OnFile : f # tmp => a_disk'[f] = a_disk[f]
    BY <2>1 DEF A!OnFile
  <2>4. ~ Fixed(tmp)
    BY <2>1, <2>2 DEF Fixed, A!Retimed
  <2>5. a_query.how = "all" => tmp.kind # "tickets"
    BY <2>1, <2>2 DEF A!Retimed
  <2>6. \A f \in A!OnFile : Fixed(f) => f \in A!OnFile' /\ a_disk'[f] = a_disk[f]
    BY <2>3, <2>4
  <2>7. a_query.how = "all" =>
          {f \in A!OnFile' : f.kind = "tickets"} = {f \in A!OnFile : f.kind = "tickets"}
    BY <2>3, <2>5
  <2>8. a_today <= a_today' /\ ~ a_altered'
    BY <1>2, <2>1
  <2>. QED BY <1>1, <2>1, <2>6, <2>7, <2>8
<1>7. CASE A!persist
  <2>. DEFINE tmp == A!Temp(A!Target.kind, A!Target.year)
              body == [whole |-> TRUE, fields |-> a_writing[1].fields, mtime |-> a_disk[tmp].mtime]
  <2>1. /\ a_disk' = [f \in (DOMAIN a_disk \ {tmp}) \cup {A!Target} |->
                        IF f = A!Target THEN body ELSE a_disk[f]]
        /\ UNCHANGED <<a_config, a_before, a_today>> /\ a_writing # <<>>
        /\ ~ a_altered /\ ~ A!Retimed /\ A!Target \notin A!OnFile
    BY <1>7 DEF A!persist, A!OnFile
  <2>2. tmp.kind = A!Target.kind /\ tmp \in Temps /\ tmp \notin A!FileName
    BY <2>1, TargetIs, TempOrName DEF A!Temp, Temps, A!NoStem
  <2>. HIDE DEF tmp, body
  <2>3. /\ A!OnFile' = (A!OnFile \ {tmp}) \cup {A!Target}
        /\ \A f \in A!OnFile : f # tmp => a_disk'[f] = a_disk[f]
    BY <2>1 DEF A!OnFile
  <2>4. ~ Fixed(tmp)
    BY <2>1, <2>2 DEF Fixed, A!Retimed
  <2>5. a_query.how = "all" => tmp.kind # "tickets" /\ A!Target.kind # "tickets"
    BY <2>1, <2>2 DEF A!Retimed
  <2>6. \A f \in A!OnFile : Fixed(f) => f \in A!OnFile' /\ a_disk'[f] = a_disk[f]
    BY <2>3, <2>4
  <2>7. a_query.how = "all" =>
          {f \in A!OnFile' : f.kind = "tickets"} = {f \in A!OnFile : f.kind = "tickets"}
    BY <2>3, <2>5
  <2>8. a_today <= a_today' /\ ~ a_altered'
    BY <1>2, <2>1
  <2>. QED BY <1>1, <2>1, <2>6, <2>7, <2>8
<1>8. ~ \E f \in A!OnFile : A!Reindexed(f)
  BY DEF A!Reindexed
<1>. QED BY <1>4, <1>5, <1>6, <1>7, <1>8 DEF Filing

LEMMA RequestingIsSteady ==
    ASSUME FilesInv, UNCHANGED <<a_disk, a_today, a_config, a_before, a_altered>>, ~ a_altered,
           a_query'.how = a_query.how, a_query'.kind = a_query.kind,
           a_query'.year = a_query.year, a_query'.matching = a_query.matching
    PROVE  Steady
BY DEF Steady, A!OnFile, FilesInv

LEMMA KeptStays ==
    ASSUME Kept, Steady
    PROVE  Kept'
<1>1. \A f \in A!OnFile : f \in A!FileName => f \in A!OnFile'
  BY DEF Steady, Fixed
<1>. QED BY <1>1 DEF Kept, Steady

\* The groups of tickets depend on the files of tickets only.
LEMMA GroupsOf ==
    ASSUME NEW N, NEW B, {f \in N : f.kind = "tickets"} = {f \in B : f.kind = "tickets"}
    PROVE  A!Groups(N) = A!Groups(B)
<1>. DEFINE In(names, f) ==
                {g \in names : g.kind = "tickets" /\ g.year = f.year /\ g.slug = f.slug}
<1>1. \A f : In(N, f) = In(B, f)
  OBVIOUS
<1>. QED BY <1>1 DEF A!Groups

\* On a list that comes in pages, tickets are on the page of everything only.
LEMMA PagedKinds ==
    ASSUME Paged, "tickets" \in A!Kinds(a_query)
    PROVE  a_query.how = "all"
BY DEF Paged, A!Kinds

\* The files of an entry.
LEMMA EntryFiles ==
    ASSUME FilesInv, NEW e \in OverviewEntries
    PROVE  /\ e.kind \in A!Kinds(a_query) /\ e \in Inventory(e.kind) /\ e.kind \in A!Kind
           /\ e.year \in Nat /\ e.slug \in Nat
           /\ e.kind # "tickets" => e \in A!OnFile /\ e \in A!FileName
           /\ e.kind = "tickets" => \A g \in e.files : g \in A!OnFile /\ g.kind = "tickets"
<1>1. e.kind \in A!Kinds(a_query) /\ e \in Inventory(e.kind)
  BY OverviewEntryIs
<1>2. CASE e.kind = "tickets"
  <2>1. PICK f \in A!OnFile : /\ f.kind = "tickets" /\ e.year = f.year /\ e.slug = f.slug
                              /\ \A g \in e.files : g \in A!OnFile /\ g.kind = "tickets"
    BY <1>1, <1>2 DEF Inventory, A!count_year, A!Groups
  <2>2. f.year \in Nat /\ f.slug \in Nat
    BY TempOrName DEF FilesInv, Stored, Temps, A!Temp, A!NoStem
  <2>. QED BY <1>1, <1>2, <2>1, <2>2 DEF A!Kind
<1>3. CASE e.kind # "tickets"
  BY <1>1, <1>3, EntryIs, TempOrName
<1>. QED BY <1>2, <1>3

\* Steady steps keep what is searched for,
LEMMA SearchKeeps ==
    ASSUME Steady
    PROVE  /\ Paged' <=> Paged
           /\ A!Kinds(a_query)' = A!Kinds(a_query)
           /\ \A e : A!Wanted(e)' <=> A!Wanted(e)
           /\ Due' = Due
<1>1. (Paged' <=> Paged) /\ A!Kinds(a_query)' = A!Kinds(a_query)
  BY DEF Paged, Steady, A!Kinds, A!Browsable
<1>2. \A e : A!Wanted(e)' <=> A!Wanted(e)
  BY DEF A!Wanted, A!matches_search, Steady
<1>3. a_before' = a_before
  BY DEF Steady
<1>. QED BY <1>1, <1>2, <1>3 DEF Due

\* and the entries with their dates.
LEMMA EntriesKeep ==
    ASSUME FilesInv, Steady, Paged
    PROVE  /\ \A e \in OverviewEntries : e \in OverviewEntries' /\ DateOf(e)' = DateOf(e)
           /\ Wares \subseteq Wares'
<1>1. Paged' /\ A!Kinds(a_query)' = A!Kinds(a_query) /\ \A e : A!Wanted(e)' <=> A!Wanted(e)
  BY SearchKeeps
<1>4. ASSUME NEW e \in OverviewEntries
      PROVE  e \in OverviewEntries' /\ DateOf(e)' = DateOf(e)
  <2>. DEFINE k == e.kind
  <2>1. /\ k \in A!Kinds(a_query) /\ e \in Inventory(k) /\ k \in A!Kind
        /\ k # "tickets" => e \in A!OnFile /\ e \in A!FileName
        /\ k = "tickets" => \A g \in e.files : g \in A!OnFile /\ g.kind = "tickets"
    BY EntryFiles
  <2>2. a_query'.how = a_query.how
    BY DEF Steady
  <2>3. CASE k # "tickets"
    <3>1. e \in A!OnFile' /\ a_disk'[e] = a_disk[e]
      BY <2>1, <2>3 DEF Steady, Fixed
    <3>2. e \in Inventory(k)'
      BY <2>1, <2>3, <3>1 DEF Inventory, A!count_year
    <3>3. FieldsOf(e)' = FieldsOf(e) /\ MtimeOf(e)' = MtimeOf(e)
      BY <2>3, <3>1 DEF FieldsOf, MtimeOf
    <3>4. e \in OverviewEntries'
      BY <1>1, <2>1, <3>2 DEF OverviewEntries
    <3>. QED BY <2>2, <3>3, <3>4 DEF DateOf
  <2>4. CASE k = "tickets"
    <3>1. a_query.how = "all"
      BY <2>1, <2>4, PagedKinds
    <3>2. {f \in A!OnFile' : f.kind = "tickets"} = {f \in A!OnFile : f.kind = "tickets"}
      BY <3>1 DEF Steady
    <3>3. A!Groups(A!OnFile') = A!Groups(A!OnFile)
      BY <3>2, GroupsOf
    <3>4. e \in Inventory(k)'
      BY <2>1, <2>4, <3>3 DEF Inventory, A!count_year
    <3>5. \A g \in e.files : g \in A!OnFile /\ g \in A!OnFile' /\ a_disk'[g] = a_disk[g]
      BY <2>1, <2>4, <3>1 DEF Steady, Fixed
    <3>6. Sidecars(e)' = Sidecars(e)
      BY <3>5 DEF Sidecars
    <3>7. \A g \in Sidecars(e) : a_disk'[g] = a_disk[g]
      BY <3>5 DEF Sidecars
    <3>8. FieldsOf(e)' = FieldsOf(e)
      <4>1. CASE Sidecars(e) = {}
        BY <2>4, <3>6, <4>1 DEF FieldsOf
      <4>2. CASE Sidecars(e) # {}
        <5>1. (CHOOSE g \in Sidecars(e) : TRUE) \in Sidecars(e)
          BY <4>2
        <5>2. (CHOOSE g \in Sidecars(e)' : TRUE) = (CHOOSE g \in Sidecars(e) : TRUE)
          BY <3>6
        <5>. QED BY <2>4, <3>6, <3>7, <4>2, <5>1, <5>2 DEF FieldsOf
      <4>. QED BY <4>1, <4>2
    <3>9. MtimeOf(e)' = MtimeOf(e)
      <4>1. MtimesOf(e)' = MtimesOf(e)
        BY <3>5 DEF MtimesOf
      <4>. QED BY <2>4, <4>1 DEF MtimeOf
    <3>10. e \in OverviewEntries'
      BY <1>1, <2>1, <3>4 DEF OverviewEntries
    <3>. QED BY <2>2, <3>8, <3>9, <3>10 DEF DateOf
  <2>. QED BY <2>3, <2>4
<1>. QED BY <1>1, <1>4 DEF Wares

\* The date of an entry is a day.
LEMMA EntryDate ==
    ASSUME FilesInv, NEW e \in OverviewEntries
    PROVE  DateOf(e) \in Nat
<1>1. /\ e.kind \in A!Kind
      /\ e.kind # "tickets" => e \in A!OnFile
      /\ e.kind = "tickets" => \A g \in e.files : g \in A!OnFile
  BY EntryFiles
<1>2. \A g \in A!OnFile : a_disk[g].mtime \in Nat /\ A!IsFields(a_disk[g].fields)
  BY DEF FilesInv, Stored
<1>3. A!IsFields(FieldsOf(e))
  <2>1. A!IsFields(<<>>)
    BY DEF A!IsFields
  <2>2. Sidecars(e) # {} => (CHOOSE g \in Sidecars(e) : TRUE) \in A!OnFile
    BY DEF Sidecars
  <2>. QED BY <1>1, <1>2, <2>1, <2>2 DEF FieldsOf
<1>4. MtimeOf(e) \in Nat
  <2>1. CASE e.kind # "tickets"
    BY <1>1, <1>2, <2>1 DEF MtimeOf
  <2>2. CASE e.kind = "tickets"
    <3>. DEFINE G == e.files \cap A!OnFile
                D == {a_disk[g].mtime : g \in G}
                f == [g \in G |-> a_disk[g].mtime]
    <3>1. IsFiniteSet(G)
      BY FS_Subset DEF FilesInv
    <3>2. f \in Surjection(G, D)
      BY DEF Surjection
    <3>3. IsFiniteSet(D)
      <4>. HIDE DEF f, D, G
      <4>. QED BY <3>1, <3>2, FS_Surjection
    <3>4. MtimesOf(e) = D \cup {A!Undated}
      BY DEF MtimesOf
    <3>5. D \subseteq Nat
      BY <1>2
    <3>. HIDE DEF D
    <3>6. IsFiniteSet(MtimesOf(e)) /\ MtimesOf(e) \subseteq Nat /\ MtimesOf(e) # {}
      BY <3>3, <3>4, <3>5, FS_AddElement DEF A!Undated
    <3>7. Newest(MtimesOf(e)) \in MtimesOf(e)
      BY <3>6, Largest
    <3>. QED BY <2>2, <3>6, <3>7 DEF MtimeOf
  <2>. QED BY <2>1, <2>2
<1>. QED BY <1>1, <1>3, <1>4, DatesAreDays DEF DateOf

LEMMA EntriesFinite ==
    ASSUME FilesInv
    PROVE  IsFiniteSet(OverviewEntries)
<1>. DEFINE T == {f \in A!OnFile : f.kind = "tickets"}
            Group(f) ==
                [kind |-> "tickets", year |-> f.year, slug |-> f.slug,
                 files |-> {g \in A!OnFile : g.kind = "tickets" /\ g.year = f.year /\ g.slug = f.slug}]
            h == [f \in T |-> Group(f)]
<1>1. IsFiniteSet(A!OnFile) /\ IsFiniteSet(T)
  BY FS_Subset DEF FilesInv
<1>2. A!Groups(A!OnFile) = {Group(f) : f \in T}
  BY DEF A!Groups
<1>3. h \in Surjection(T, A!Groups(A!OnFile))
  <2>. HIDE DEF Group, T
  <2>. QED BY <1>2 DEF Surjection
<1>. HIDE DEF h, T
<1>4. IsFiniteSet(A!Groups(A!OnFile))
  BY <1>1, <1>3, FS_Surjection
<1>5. IsFiniteSet(A!OnFile \cup A!Groups(A!OnFile))
  BY <1>1, <1>4, FS_Union
<1>6. OverviewEntries \subseteq A!OnFile \cup A!Groups(A!OnFile)
  BY DEF OverviewEntries, Inventory, A!count_year
<1>. QED BY <1>5, <1>6, FS_Subset

LEMMA EntriesFiniteNext == FilesInv' => IsFiniteSet(OverviewEntries)'
<1>1. FilesInv => IsFiniteSet(OverviewEntries)
  BY EntriesFinite
<1>. QED BY <1>1, PTL

\* Entries that are alike are one.
LEMMA OneEntry ==
    ASSUME FilesInv
    PROVE  \A e, g \in OverviewEntries : A!Like(e, g) => e = g
BY EntryFiles, SameEntry DEF A!Like

\* What was on file when the reader began, as far as a list has it.
LEMMA DueComes ==
    ASSUME FilesInv, NEW B, \A f \in B : f \in Temps \/ (f \in A!FileName /\ f \in A!OnFile),
           NEW k, NEW e \in A!Entries(B, k)
    PROVE  /\ e.kind = k
           /\ k # "tickets" => e \in Inventory(k) /\ e \in A!FileName
           /\ k = "tickets" => \E f \in A!OnFile : /\ f \in A!FileName /\ f.kind = k
                                                   /\ f.year = e.year /\ f.slug = e.slug
           /\ Place(e) \in A!Root(k)
           /\ \E x \in A!Names(Place(e)) : A!Like(e, x)
<1>1. CASE k # "tickets"
  <2>1. e \in B /\ e.kind = k /\ e.ext = A!Extension(k)
    BY <1>1 DEF A!Entries, A!Listed
  <2>2. e \in A!FileName /\ e \in A!OnFile
    BY <2>1, TempOrName DEF A!Extension
  <2>3. e \in Inventory(k)
    BY <1>1, <2>1, <2>2 DEF Inventory, A!count_year
  <2>4. Place(e) \in A!Root(k)
    BY <2>1, <2>2, TempOrName DEF A!Root, Place
  <2>5. e \in A!Names(Place(e))
    BY <1>1, <2>1, <2>2 DEF A!Names, Place, A!Listed
  <2>. QED BY <1>1, <2>1, <2>2, <2>3, <2>4, <2>5 DEF A!Like
<1>2. CASE k = "tickets"
  <2>1. PICK f \in B : /\ f.kind = k /\ f.year = e.year /\ f.slug = e.slug
                              /\ e.kind = k /\ e.slug # A!NoStem
    BY <1>2 DEF A!Entries, A!Groups
  <2>2. f \in A!FileName /\ f \in A!OnFile
    BY <2>1, TempOrName
  <2>3. Place(e) \in A!Root(k)
    BY <1>2, <2>1, <2>2 DEF A!Root, Place, A!FlatKind
  <2>4. \E x \in A!Names(Place(e)) : A!Like(e, x)
    <3>. DEFINE there == {g \in A!OnFile : g.kind = k /\ g.year = e.year}
    <3>1. f \in there
      BY <2>1, <2>2
    <3>2. A!Names(Place(e)) = A!Groups(there)
      BY <1>2, <2>1 DEF A!Names, Place
    <3>3. \E x \in A!Groups(there) : x.kind = "tickets" /\ x.year = f.year /\ x.slug = f.slug
      <4>. DEFINE w == [kind |-> "tickets", year |-> f.year, slug |-> f.slug,
                        files |-> {g \in there : g.kind = "tickets" /\ g.year = f.year
                                                                    /\ g.slug = f.slug}]
      <4>1. w \in A!Groups(there)
        BY <1>2, <2>1, <3>1 DEF A!Groups
      <4>. QED BY <4>1
    <3>. QED BY <1>2, <2>1, <3>2, <3>3 DEF A!Like
  <2>. QED BY <1>2, <2>1, <2>2, <2>3, <2>4
<1>. QED BY <1>1, <1>2

LEMMA DueIsWare ==
    ASSUME FilesInv, Kept, ~ a_altered, Paged
    PROVE  Due \subseteq Wares
<1>1. SUFFICES ASSUME NEW k \in A!Kinds(a_query), NEW e \in A!Entries(a_before, k)
               PROVE  e \in OverviewEntries
  BY DEF Due, Wares
<1>2. CASE k # "tickets"
  BY <1>2, DueComes DEF OverviewEntries, Kept
<1>3. CASE k = "tickets"
  <2>1. {f \in a_before : f.kind = "tickets"} = {f \in A!OnFile : f.kind = "tickets"}
    BY <1>3, PagedKinds DEF Kept
  <2>2. e \in A!Groups(A!OnFile)
    BY <1>3, <2>1, GroupsOf DEF A!Entries
  <2>. QED BY <1>3, <2>2 DEF OverviewEntries, Inventory, A!count_year
<1>. QED BY <1>2, <1>3

\* While the scope only grows, so does what is ahead of an entry.
LEMMA AheadGrows ==
    ASSUME FilesInv, FilesInv', Steady, Paged, Scope \subseteq Scope', NEW e \in OverviewEntries
    PROVE  /\ Level(e) => Level(e)'
           /\ A!Cardinality(Ahead(e)) \in Nat /\ A!Cardinality(Ahead(e))' \in Nat
           /\ A!Cardinality(Ahead(e)) <= A!Cardinality(Ahead(e))'
           /\ DateOf(e) < a_today => DateOf(e)' < a_today'
<1>1. /\ a_query'.how = a_query.how /\ a_today <= a_today'
      /\ \A x \in OverviewEntries : DateOf(x)' = DateOf(x)
      /\ a_today \in Nat /\ a_today' \in Nat
      /\ Scope \subseteq OverviewEntries
  BY EntriesKeep DEF Steady, FilesInv, Scope, Wares
<1>2. \A x \in OverviewEntries : DateOf(x) \in Nat
  BY EntryDate
<1>3. Level(e) => Level(e)'
  BY <1>1 DEF Level
<1>4. \A x \in OverviewEntries : Sooner(x, e) => Sooner(x, e)'
  BY <1>1, <1>2 DEF Sooner
<1>5. Ahead(e) \subseteq Ahead(e)'
  BY <1>1, <1>4 DEF Ahead
<1>6. IsFiniteSet(Ahead(e)')
  <2>1. IsFiniteSet(OverviewEntries')
    BY EntriesFiniteNext
  <2>2. Ahead(e)' \subseteq OverviewEntries'
    BY DEF Ahead, Scope, Wares
  <2>. QED BY <2>1, <2>2, FS_Subset
<1>7. /\ Cardinality(Ahead(e)) \in Nat /\ Cardinality(Ahead(e)') \in Nat
      /\ Cardinality(Ahead(e)) <= Cardinality(Ahead(e)')
  BY <1>5, <1>6, FS_Subset, FS_CardinalityType
<1>8. DateOf(e) < a_today => DateOf(e)' < a_today'
  BY <1>1, <1>2
<1>. QED BY <1>3, <1>7, <1>8 DEF A!Cardinality, Cardinality

LEMMA FarEnoughStays ==
    ASSUME A!DashboardAssumption, FilesInv, FilesInv', Kept, Steady, Leafing, FarEnough, Paged,
           Scope \subseteq Scope', Told \subseteq Told', Leafed' = Leafed, Leafed \in Nat
    PROVE  FarEnough'
<1>1. ~ a_altered /\ a_query'.how = a_query.how /\ Due' = Due /\ Due \subseteq OverviewEntries
  BY SearchKeeps, DueIsWare DEF Steady, Wares
<1>2. PAGE_SIZE \in Nat
  BY DEF A!DashboardAssumption, A!PagesAssumption
<1>3. ASSUME NEW e \in Due
      PROVE  \/ Level(e)'
             \/ \E r \in Told' : A!Like(e, r)
             \/ /\ A!Cardinality(Ahead(e))' >= Leafed * PAGE_SIZE
                /\ a_query'.how = "all" /\ Leafed > 0 => DateOf(e)' < a_today'
  <2>1. /\ Level(e) => Level(e)'
        /\ A!Cardinality(Ahead(e)) \in Nat /\ A!Cardinality(Ahead(e))' \in Nat
        /\ A!Cardinality(Ahead(e)) <= A!Cardinality(Ahead(e))'
        /\ DateOf(e) < a_today => DateOf(e)' < a_today'
    BY <1>1, AheadGrows
  <2>2. \/ Level(e)
        \/ \E r \in Told : A!Like(e, r)
        \/ /\ A!Cardinality(Ahead(e)) >= Leafed * PAGE_SIZE
           /\ a_query.how = "all" /\ Leafed > 0 => DateOf(e) < a_today
    BY <1>1 DEF FarEnough
  <2>3. Leafed * PAGE_SIZE \in Nat
    BY <1>2
  <2>4. CASE Level(e) \/ \E r \in Told : A!Like(e, r)
    BY <2>1, <2>4
  <2>5. CASE /\ A!Cardinality(Ahead(e)) >= Leafed * PAGE_SIZE
             /\ a_query.how = "all" /\ Leafed > 0 => DateOf(e) < a_today
    <3>1. A!Cardinality(Ahead(e))' >= Leafed * PAGE_SIZE
      BY <2>1, <2>3, <2>5
    <3>. QED BY <1>1, <2>1, <2>5, <3>1
  <2>. QED BY <2>2, <2>4, <2>5
<1>. QED BY <1>1, <1>3 DEF FarEnough

-----------------------------------------------------------------------------

\* The daemons and the days.
LEMMA FilingSkipsNothing ==
    ASSUME A!DashboardAssumption, LeafInv, FilesInv', Filing \/ UNCHANGED A!vars,
           UNCHANGED A!server
    PROVE  Kept' /\ Gathered' /\ NoneForgotten' /\ FarEnough' /\ FromOne' /\ A!NothingSkipped'
<1>1. /\ UNCHANGED <<a_query, a_stage, a_dirs, a_todo, a_rows, a_answer, a_link, a_seen>>
      /\ FilesInv
  BY DEF A!server, LeafInv, DashboardInv
<1>2. FromOne'
  BY <1>1 DEF FromOne, LeafInv
<1>3. CASE a_altered'
  BY <1>2, <1>3 DEF Kept, Gathered, NoneForgotten, FarEnough, A!NothingSkipped
<1>4. CASE ~ a_altered'
  <2>1. Steady
    BY <1>1, <1>4, FilingIsSteady
  <2>2. /\ ~ a_altered /\ a_before' = a_before
        /\ (Paged' <=> Paged) /\ A!Kinds(a_query)' = A!Kinds(a_query)
        /\ (\A e : A!Wanted(e)' <=> A!Wanted(e)) /\ Due' = Due
    BY <2>1, SearchKeeps DEF Steady
  <2>3. Kept'
    BY <2>1, KeptStays DEF LeafInv
  <2>4. Paged => /\ \A e \in OverviewEntries : e \in OverviewEntries' /\ DateOf(e)' = DateOf(e)
                 /\ Wares \subseteq Wares'
    BY <1>1, <2>1, EntriesKeep
  <2>5. \A e : Covered(e)' <=> Covered(e)
    BY <1>1 DEF Covered
  <2>6. Gathered'
    <3>. SUFFICES ASSUME Gathered, a_stage = "list", Paged PROVE Gathered'
      BY <1>1, <2>2 DEF Gathered, LeafInv
    <3>1. /\ \A d \in a_dirs : d = Place(d) /\ d.kind \in A!Kinds(a_query)
          /\ a_todo \subseteq {e \in OverviewEntries : Place(e) \notin a_dirs}
          /\ \A r \in a_rows :
                \E e \in Wares \ a_todo : Shows(r, e) /\ Place(e) \notin a_dirs
          /\ \A r, s \in a_rows : A!Like(r, s) => r = s
      BY <2>2 DEF Gathered
    <3>2. \A r, e : e \in Wares /\ Shows(r, e) => e \in Wares' /\ Shows(r, e)'
      BY <2>4 DEF Shows, Wares
    <3>. QED BY <1>1, <2>2, <2>4, <3>1, <3>2 DEF Gathered
  <2>7. NoneForgotten'
    BY <1>1, <2>2, <2>5 DEF NoneForgotten, LeafInv
  <2>8. FarEnough'
    <3>. SUFFICES ASSUME Leafing, Paged PROVE FarEnough'
      BY <1>1, <2>2 DEF FarEnough, Leafing
    <3>1. Scope \subseteq Scope'
      BY <2>4, <2>5 DEF Scope
    <3>2. Leafed' = Leafed /\ Told' = Told /\ Leafed \in Nat
      BY <1>1 DEF Leafed, Told, LeafInv, DashboardInv, AnswerInv, FromOne
    <3>. QED BY <1>1, <2>1, <3>1, <3>2, FarEnoughStays DEF LeafInv
  <2>9. A!NothingSkipped'
    <3>1. \A f : A!Tied(f)' <=> A!Tied(f)
      BY <1>1 DEF A!Tied
    <3>. QED BY <1>1, <2>2, <3>1 DEF A!NothingSkipped, LeafInv
  <2>. QED BY <1>2, <2>3, <2>6, <2>7, <2>8, <2>9
<1>. QED BY <1>3, <1>4

\* A request begins with every directory still to be listed.
LEMMA HandleForgetsNothing ==
    ASSUME DashboardInv, NEW q, A!Handle(q), Kept'
    PROVE  /\ Gathered' /\ NoneForgotten' /\ A!NothingSkipped'
           /\ Leafing' => a_stage' = "list"
           /\ Leafing' => Scope' = Wares'
<1>1. /\ a_query' = q /\ a_rows' = {} /\ UNCHANGED <<a_disk, a_config, a_today>>
      /\ a_stage' = "answered" => a_answer'.status = 404
      /\ a_stage' \in {"list", "answered"}
      /\ a_stage' = "list" => a_todo' = {} /\ a_dirs' = UNION {A!Root(k) : k \in A!Kinds(q)}
  BY DEF A!Handle, A!Answer, A!files
<1>. SUFFICES ASSUME a_stage' = "list"
              PROVE  Gathered' /\ NoneForgotten' /\ Scope' = Wares'
  BY <1>1 DEF Gathered, NoneForgotten, Leafing, A!NothingSkipped
<1>2. /\ \A k : Inventory(k)' = Inventory(k)
      /\ A!Kinds(a_query)' = A!Kinds(q)
      /\ OverviewEntries' = UNION {Inventory(k) : k \in A!Kinds(q)}
      /\ A!OnFile' = A!OnFile
  BY <1>1 DEF Inventory, OverviewEntries, A!OnFile, A!Kinds, A!Browsable
<1>3. \A d \in a_dirs' : d = Place(d) /\ d.kind \in A!Kinds(q)
  BY <1>1 DEF A!Root, Place
<1>4. ASSUME NEW k \in A!Kinds(q), NEW e \in Inventory(k)
      PROVE  Place(e) \in a_dirs'
  <2>1. Place(e) \in A!Root(k)
    BY EntryIs DEF A!Root, Place, DashboardInv
  <2>. QED BY <1>1, <2>1
<1>5. Gathered'
  BY <1>1, <1>2, <1>3 DEF Gathered
<1>6. Scope' = Wares'
  BY <1>2, <1>4 DEF Scope, Wares, Covered
<1>7. ASSUME ~ a_altered', NEW k \in A!Kinds(q), NEW e \in A!Entries(a_before', k)
      PROVE  Place(e) \in a_dirs'
  <2>1. \A f \in a_before' : f \in Temps \/ (f \in A!FileName /\ f \in A!OnFile)
    BY <1>2, <1>7 DEF Kept
  <2>2. Place(e) \in A!Root(k)
    BY <2>1, DueComes DEF DashboardInv
  <2>. QED BY <1>1, <2>2
<1>8. NoneForgotten'
  <2>1. \A e \in Due' : ~ a_altered' => Place(e) \in a_dirs'
    BY <1>2, <1>7 DEF Due
  <2>. QED BY <2>1 DEF NoneForgotten, Covered
<1>. QED BY <1>5, <1>6, <1>8

LEMMA VisitSkipsNothing ==
    ASSUME A!DashboardAssumption, LeafInv, FilesInv', NEW q \in Queries, A!Visit(q)
    PROVE  Kept' /\ Gathered' /\ NoneForgotten' /\ FarEnough' /\ FromOne' /\ A!NothingSkipped'
<1>1. /\ A!Handle(q) /\ a_before' = A!OnFile /\ a_query' = q /\ a_disk' = a_disk
  BY DEF A!Visit, A!Handle, A!files
<1>2. q.n = 1
  <2>1. q \in [how : {"list", "all", "index", "api"}, kind : A!Kind \cup {"all"}, year : Nat,
               n : {1}, matching : SUBSET Nat]
    BY DEF A!DashboardAssumption
  <2>. QED BY <2>1
<1>3. Kept'
  BY <1>1 DEF Kept, LeafInv, DashboardInv, FilesInv, Stored, A!OnFile
<1>4. /\ Gathered' /\ NoneForgotten' /\ A!NothingSkipped'
      /\ Leafing' => a_stage' = "list"
  BY <1>1, <1>3, HandleForgetsNothing DEF LeafInv
<1>5. FarEnough'
  <2>. SUFFICES ASSUME Leafing' PROVE FarEnough'
    BY DEF FarEnough
  <2>1. Leafed' = 0
    BY <1>1, <1>2, <1>4 DEF Leafed
  <2>2. ASSUME NEW e
        PROVE  A!Cardinality(Ahead(e))' >= 0
    <3>1. Ahead(e)' \subseteq OverviewEntries'
      BY DEF Ahead, Scope, Wares
    <3>2. IsFiniteSet(Ahead(e)') /\ Cardinality(Ahead(e)') \in Nat
      BY <3>1, EntriesFiniteNext, FS_Subset, FS_CardinalityType
    <3>. QED BY <3>2 DEF A!Cardinality, Cardinality
  <2>3. 0 * PAGE_SIZE = 0
    BY DEF A!DashboardAssumption, A!PagesAssumption
  <2>. QED BY <2>1, <2>2, <2>3 DEF FarEnough
<1>6. FromOne'
  BY <1>1, <1>2 DEF FromOne
<1>. QED BY <1>3, <1>4, <1>5, <1>6

LEMMA NextPageSkipsNothing ==
    ASSUME A!DashboardAssumption, LeafInv, FilesInv', A!NextPage
    PROVE  Kept' /\ Gathered' /\ NoneForgotten' /\ FarEnough' /\ FromOne' /\ A!NothingSkipped'
<1>. DEFINE q == [a_query EXCEPT !.n = a_answer.page + 1]
<1>1. /\ A!Handle(q) /\ a_query' = q
      /\ UNCHANGED <<a_disk, a_today, a_config, a_before, a_altered>>
      /\ a_stage = "answered" /\ a_answer.status = 200 /\ a_link = A!NoLink
      /\ a_seen' = a_seen \cup a_answer.shown
  BY DEF A!NextPage, A!Handle, A!files
<1>2. /\ q.how = a_query.how /\ q.kind = a_query.kind /\ q.year = a_query.year
      /\ q.matching = a_query.matching /\ q.n = a_answer.page + 1 /\ a_answer.page \in Nat
  BY <1>1 DEF LeafInv, DashboardInv, AnswerInv
<1>. HIDE DEF q
<1>3. ~ a_altered' => Steady
  BY <1>1, <1>2, RequestingIsSteady DEF LeafInv, DashboardInv
<1>4. Kept'
  BY <1>3, KeptStays DEF Kept, LeafInv
<1>5. /\ Gathered' /\ NoneForgotten' /\ A!NothingSkipped'
      /\ Leafing' => a_stage' = "list" /\ Scope' = Wares'
  BY <1>1, <1>4, HandleForgetsNothing DEF LeafInv
<1>6. FarEnough'
  <2>. SUFFICES ASSUME Leafing', Paged', ~ a_altered' PROVE FarEnough'
    BY DEF FarEnough
  <2>1. Steady /\ Paged
    BY <1>3, SearchKeeps
  <2>2. Scope \subseteq Scope'
    BY <1>5, <2>1, EntriesKeep DEF Scope, LeafInv, DashboardInv
  <2>3. Leafing /\ Leafed' = Leafed /\ Leafed \in Nat /\ Told' = Told
    BY <1>1, <1>2, <1>5 DEF Leafing, Leafed, Told
  <2>. QED BY <2>1, <2>2, <2>3, FarEnoughStays DEF LeafInv, DashboardInv
<1>7. FromOne'
  BY <1>1, <1>2 DEF FromOne
<1>. QED BY <1>4, <1>5, <1>6, <1>7

\* A directory is listed.
LEMMA ListingSkipsNothing ==
    ASSUME A!DashboardAssumption, LeafInv, FilesInv', NEW d \in a_dirs, A!list_dir(d)
    PROVE  Kept' /\ Gathered' /\ NoneForgotten' /\ FarEnough' /\ FromOne' /\ A!NothingSkipped'
<1>1. /\ UNCHANGED <<a_disk, a_config, a_query, a_stage, a_rows, a_today, a_before, a_altered,
                     a_seen, a_answer>>
      /\ a_todo = {} /\ a_todo' = A!Names(d) /\ a_dirs' = a_dirs \ {d}
      /\ a_stage = "list"
  BY DEF A!list_dir, A!files
<1>2. FromOne' /\ A!NothingSkipped'
  BY <1>1 DEF FromOne, LeafInv, A!NothingSkipped
<1>. SUFFICES ASSUME ~ a_altered'
              PROVE  Kept' /\ Gathered' /\ NoneForgotten' /\ FarEnough'
  BY <1>2 DEF Kept, Gathered, NoneForgotten, FarEnough
<1>3. Steady /\ FilesInv
  BY <1>1, RequestingIsSteady DEF LeafInv, DashboardInv
<1>4. Kept' /\ (Paged' <=> Paged) /\ Due' = Due
  BY <1>3, KeptStays, SearchKeeps DEF LeafInv
<1>5. OverviewEntries' = OverviewEntries /\ A!Kinds(a_query)' = A!Kinds(a_query)
  BY <1>1, EntriesStay
<1>6. Paged => /\ d = Place(d) /\ d.kind \in A!Kinds(a_query)
               /\ A!Names(d) = {e \in OverviewEntries : Place(e) = d}
  <2>. SUFFICES ASSUME Paged
                PROVE  /\ d = Place(d) /\ d.kind \in A!Kinds(a_query)
                       /\ A!Names(d) = {e \in OverviewEntries : Place(e) = d}
    OBVIOUS
  <2>1. d = Place(d) /\ d.kind \in A!Kinds(a_query)
    BY <1>1 DEF LeafInv, Gathered
  <2>2. A!Names(d) = {e \in Inventory(d.kind) : Place(e) = d}
    BY <1>3, <2>1, NamesExactly
  <2>3. \A e \in OverviewEntries : Place(e) = d => e \in Inventory(d.kind)
    BY <1>3, <2>1, OverviewEntryIs DEF Place
  <2>. QED BY <2>1, <2>2, <2>3 DEF OverviewEntries
<1>7. Gathered'
  <2>. SUFFICES ASSUME Paged PROVE Gathered'
    BY <1>4 DEF Gathered
  <2>1. /\ \A g \in a_dirs : g = Place(g) /\ g.kind \in A!Kinds(a_query)
        /\ \A r \in a_rows :
              \E e \in Wares \ a_todo : Shows(r, e) /\ Place(e) \notin a_dirs
        /\ \A r, s \in a_rows : A!Like(r, s) => r = s
    BY <1>1 DEF Gathered, LeafInv
  <2>2. \A r, e : e \in Wares /\ Shows(r, e) => e \in Wares' /\ Shows(r, e)'
    BY <1>3, EntriesKeep DEF Shows, Wares
  <2>3. \A e \in Wares : Place(e) \notin a_dirs => e \notin a_todo'
    BY <1>1, <1>6
  <2>4. a_todo' \subseteq {e \in OverviewEntries : Place(e) \notin a_dirs'}
    BY <1>1, <1>6
  <2>. QED BY <1>1, <1>5, <2>1, <2>2, <2>3, <2>4 DEF Gathered
<1>8. ASSUME NEW e, Covered(e), Place(e) = d => \E x \in A!Names(d) : A!Like(e, x)
      PROVE  Covered(e)'
  BY <1>1, <1>8 DEF Covered
<1>9. NoneForgotten'
  <2>1. \A e \in Due : Place(e) = d => \E x \in A!Names(d) : A!Like(e, x)
    <3>1. \A f \in a_before : f \in Temps \/ (f \in A!FileName /\ f \in A!OnFile)
      BY <1>1 DEF Kept, LeafInv
    <3>. QED BY <1>3, <3>1, DueComes DEF Due
  <2>. QED BY <1>1, <1>4, <1>8, <2>1 DEF NoneForgotten, LeafInv
<1>10. FarEnough'
  <2>. SUFFICES ASSUME Paged PROVE FarEnough'
    BY <1>4 DEF FarEnough
  <2>1. \A e \in OverviewEntries : Place(e) = d => e \in A!Names(d) /\ A!Like(e, e)
    BY <1>6 DEF A!Like
  <2>2. Scope \subseteq Scope'
    BY <1>3, <1>8, <2>1, EntriesKeep DEF Scope, Wares
  <2>3. Leafing /\ Leafed' = Leafed /\ Leafed \in Nat /\ Told' = Told
    BY <1>1 DEF Leafing, Leafed, Told, LeafInv, DashboardInv, AnswerInv, FromOne
  <2>. QED BY <1>3, <2>2, <2>3, FarEnoughStays DEF LeafInv, DashboardInv
<1>. QED BY <1>4, <1>7, <1>9, <1>10

\* What is read of an entry is a row of its own.
LEMMA ReadingShows ==
    ASSUME FilesInv, Paged, NEW f \in OverviewEntries, A!read_json(f)
    PROVE  /\ a_todo' = a_todo \ {f} /\ a_dirs' = a_dirs /\ a_stage' = "list"
           /\ A!Wanted(f) => \E r : a_rows' = a_rows \cup {r} /\ Shows(r, f)
           /\ ~ A!Wanted(f) => a_rows' = a_rows
<1>1. /\ f.kind \in A!Kinds(a_query)
      /\ f.kind # "tickets" => f \in A!OnFile /\ f \in A!FileName /\ a_disk[f].whole
  BY EntryFiles, TempOrName DEF FilesInv, Stored, A!NoStem
<1>2. \E links : A!Shown(f, IF A!Wanted(f) THEN {A!Row(f, FieldsOf(f), MtimeOf(f), links)} ELSE {})
  <2>1. CASE f.kind = "tickets"
    <3>1. A!Shown(f, IF A!Wanted(f) THEN {A!Row(f, FieldsOf(f), MtimeOf(f), f.files)} ELSE {})
      BY <2>1, Zenon DEF A!read_json, FieldsOf, MtimeOf, MtimesOf, Newest, Sidecars
    <3>. QED BY <3>1
  <2>2. f.kind # "tickets" => FieldsOf(f) = a_disk[f].fields /\ MtimeOf(f) = a_disk[f].mtime
    BY DEF FieldsOf, MtimeOf
  <2>3. CASE f.kind = "events"
    <3>1. A!Shown(f, IF A!Wanted(f) THEN {A!Row(f, FieldsOf(f), MtimeOf(f), {f})} ELSE {})
      BY <1>1, <2>2, <2>3 DEF A!read_json
    <3>. QED BY <3>1
  <2>4. CASE f.kind # "tickets" /\ f.kind # "events"
    <3>1. A!Shown(f, IF A!Wanted(f) THEN {A!Row(f, FieldsOf(f), MtimeOf(f),
                                                {f} \cup A!sibling_blobs(A!OnFile, f))} ELSE {})
      BY <1>1, <2>2, <2>4, Zenon DEF A!read_json
    <3>. QED BY <3>1
  <2>. QED BY <2>1, <2>3, <2>4
<1>3. PICK links :
        A!Shown(f, IF A!Wanted(f) THEN {A!Row(f, FieldsOf(f), MtimeOf(f), links)} ELSE {})
  BY <1>2
<1>. DEFINE r == A!Row(f, FieldsOf(f), MtimeOf(f), links)
<1>4. a_query.how \in {"all", "list"} /\ (f.kind = "subscriptions" => a_query.how # "list")
  BY <1>1 DEF Paged, A!Kinds
<1>5. Shows(r, f)
  BY <1>4 DEF Shows, A!Like, A!Row, DateOf
<1>6. a_stage = "list"
  BY ReadingIsOne
<1>. HIDE DEF r
<1>7. A!Shown(f, IF A!Wanted(f) THEN {r} ELSE {})
  BY <1>3 DEF r
<1>. QED BY <1>5, <1>6, <1>7 DEF A!Shown

LEMMA ReadingSkipsNothing ==
    ASSUME A!DashboardAssumption, LeafInv, FilesInv', NEW f \in a_todo, A!read_json(f)
    PROVE  Kept' /\ Gathered' /\ NoneForgotten' /\ FarEnough' /\ FromOne' /\ A!NothingSkipped'
<1>1. /\ UNCHANGED <<a_disk, a_config, a_query, a_today, a_before, a_altered, a_seen>>
      /\ a_stage = "list"
  BY DEF A!read_json, A!files
<1>2. \/ /\ a_todo' = a_todo \ {f} /\ UNCHANGED <<a_stage, a_dirs, a_answer>>
         /\ \/ a_rows' = a_rows /\ ~ A!Wanted(f)
            \/ \E fields, mtime, links : a_rows' = a_rows \cup {A!Row(f, fields, mtime, links)}
      \/ a_stage' = "answered" /\ a_answer'.status = 500
  <2>1. CASE IsRead(f)
    BY <2>1, Zenon DEF IsRead
  <2>2. CASE IsUnreadable(f)
    BY <2>2 DEF IsUnreadable
  <2>. QED BY <2>1, <2>2, ReadingIsOne
<1>3. FromOne'
  BY <1>1 DEF FromOne, LeafInv
<1>4. ~ a_altered => Steady /\ Kept'
  BY <1>1, RequestingIsSteady, KeptStays DEF LeafInv, DashboardInv
<1>5. Kept'
  BY <1>1, <1>4 DEF Kept
<1>6. CASE a_stage' = "answered" /\ a_answer'.status = 500
  BY <1>3, <1>5, <1>6 DEF Gathered, NoneForgotten, FarEnough, Leafing, A!NothingSkipped
<1>7. CASE /\ a_todo' = a_todo \ {f} /\ UNCHANGED <<a_stage, a_dirs, a_answer>>
           /\ \/ a_rows' = a_rows /\ ~ A!Wanted(f)
              \/ \E fields, mtime, links :
                    a_rows' = a_rows \cup {A!Row(f, fields, mtime, links)}
  <2>. SUFFICES ASSUME ~ a_altered
                PROVE  Gathered' /\ NoneForgotten' /\ FarEnough'
    BY <1>1, <1>3, <1>5, <1>7 DEF Gathered, NoneForgotten, FarEnough, A!NothingSkipped
  <2>1. Steady /\ (Paged' <=> Paged) /\ Due' = Due /\ FilesInv
    BY <1>4, SearchKeeps DEF LeafInv, DashboardInv
  <2>2. ASSUME NEW e, A!Wanted(e), Covered(e)
        PROVE  Covered(e)'
    <3>1. CASE A!Like(e, f)
      <4>1. A!Wanted(f)
        BY <2>2, <3>1 DEF A!Like, A!Wanted
      <4>2. PICK fields, mtime, links : a_rows' = a_rows \cup {A!Row(f, fields, mtime, links)}
        BY <1>7, <4>1
      <4>3. A!Like(e, A!Row(f, fields, mtime, links))
        BY <3>1 DEF A!Like, A!Row
      <4>. QED BY <4>2, <4>3 DEF Covered
    <3>2. CASE ~ A!Like(e, f)
      <4>1. a_rows \subseteq a_rows'
        BY <1>7
      <4>. QED BY <1>7, <2>2, <3>2, <4>1 DEF Covered
    <3>. QED BY <3>1, <3>2
  <2>3. NoneForgotten'
    BY <1>1, <2>1, <2>2 DEF NoneForgotten, LeafInv, Due
  <2>4. FarEnough'
    <3>. SUFFICES ASSUME Paged PROVE FarEnough'
      BY <2>1 DEF FarEnough
    <3>1. Scope \subseteq Scope'
      BY <2>1, <2>2, EntriesKeep DEF Scope, Wares
    <3>2. Leafing /\ Leafed' = Leafed /\ Leafed \in Nat /\ Told' = Told
      BY <1>1, <1>7 DEF Leafing, Leafed, Told, LeafInv, DashboardInv, AnswerInv, FromOne
    <3>. QED BY <2>1, <3>1, <3>2, FarEnoughStays DEF LeafInv
  <2>5. Gathered'
    <3>. SUFFICES ASSUME Paged PROVE Gathered'
      BY <2>1 DEF Gathered
    <3>1. /\ \A d \in a_dirs : d = Place(d) /\ d.kind \in A!Kinds(a_query)
          /\ a_todo \subseteq {e \in OverviewEntries : Place(e) \notin a_dirs}
          /\ \A r \in a_rows :
                \E e \in Wares \ a_todo : Shows(r, e) /\ Place(e) \notin a_dirs
          /\ \A r, s \in a_rows : A!Like(r, s) => r = s
      BY <1>1 DEF Gathered, LeafInv
    <3>2. /\ A!Wanted(f) => \E r : a_rows' = a_rows \cup {r} /\ Shows(r, f)
          /\ ~ A!Wanted(f) => a_rows' = a_rows
      BY <2>1, <3>1, ReadingShows
    <3>3. /\ OverviewEntries' = OverviewEntries /\ A!Kinds(a_query)' = A!Kinds(a_query)
          /\ \A r, e : e \in Wares /\ Shows(r, e) => e \in Wares' /\ Shows(r, e)'
      BY <1>1, <2>1, EntriesStay, EntriesKeep DEF Shows, Wares
    <3>4. \A r \in a_rows' :
             \E e \in Wares \ a_todo' : Shows(r, e) /\ Place(e) \notin a_dirs'
      <4>1. f \notin a_todo' /\ Place(f) \notin a_dirs' /\ (A!Wanted(f) => f \in Wares)
        BY <1>7, <3>1 DEF Wares
      <4>2. CASE A!Wanted(f)
        BY <1>7, <3>1, <3>2, <4>1, <4>2
      <4>3. CASE ~ A!Wanted(f)
        BY <1>7, <3>1, <3>2, <4>3
      <4>. QED BY <4>2, <4>3
    <3>5. \A r, s \in a_rows' : A!Like(r, s) => r = s
      <4>1. CASE A!Wanted(f)
        <5>1. PICK row : a_rows' = a_rows \cup {row} /\ Shows(row, f)
          BY <3>2, <4>1
        <5>2. ASSUME NEW r \in a_rows, A!Like(r, row) \/ A!Like(row, r)
              PROVE  FALSE
          <6>1. PICK e \in Wares \ a_todo : Shows(r, e)
            BY <3>1
          <6>2. A!Like(e, f)
            BY <5>1, <5>2, <6>1 DEF Shows, A!Like
          <6>. QED BY <2>1, <3>1, <6>1, <6>2, OneEntry DEF Wares
        <5>. QED BY <3>1, <5>1, <5>2
      <4>2. CASE ~ A!Wanted(f)
        BY <3>1, <3>2, <4>2
      <4>. QED BY <4>1, <4>2
    <3>6. a_todo' \subseteq {e \in OverviewEntries : Place(e) \notin a_dirs'}
      BY <1>7, <3>1
    <3>. QED BY <1>7, <3>1, <3>3, <3>4, <3>5, <3>6 DEF Gathered
  <2>. QED BY <2>3, <2>4, <2>5
<1>. QED BY <1>2, <1>6, <1>7

-----------------------------------------------------------------------------

\* When all has been read, the rows are those of the entries in scope.
LEMMA RowsAreScope ==
    ASSUME LeafInv, Paged, ~ a_altered, A!Ready
    PROVE  /\ \A r \in a_rows : \E e \in Scope : Shows(r, e)
           /\ \A e \in Scope : \E r \in a_rows : Shows(r, e)
           /\ \A r, s \in a_rows : A!Like(r, s) => r = s
           /\ \A e, g \in Scope : A!Like(e, g) => e = g
           /\ \A e \in Scope : /\ DateOf(e) \in Nat /\ e.year \in Nat /\ e.slug \in Nat
                               /\ e.kind \in A!Kinds(a_query)
           /\ IsFiniteSet(a_rows)
<1>1. FilesInv /\ IsFiniteSet(a_rows)
  BY DEF LeafInv, DashboardInv, RowsLead
<1>2. /\ a_dirs = {} /\ a_todo = {} /\ a_stage = "list"
      /\ \A r \in a_rows : \E e \in Wares : Shows(r, e)
      /\ \A r, s \in a_rows : A!Like(r, s) => r = s
  BY DEF A!Ready, LeafInv, Gathered
<1>3. \A e, g \in Wares : A!Like(e, g) => e = g
  BY <1>1, OneEntry DEF Wares
<1>4. Scope \subseteq Wares /\ \A e \in Scope : \E r \in a_rows : A!Like(e, r)
  BY <1>2 DEF Scope, Covered
<1>5. \A r \in a_rows : \E e \in Scope : Shows(r, e)
  <2>1. \A r \in a_rows, e \in Wares : Shows(r, e) => e \in Scope
    BY DEF Shows, Scope, Covered, A!Like
  <2>. QED BY <1>2, <2>1
<1>6. ASSUME NEW e \in Scope
      PROVE  \E r \in a_rows : Shows(r, e)
  <2>1. PICK r \in a_rows : A!Like(e, r)
    BY <1>4
  <2>2. PICK g \in Wares : Shows(r, g)
    BY <1>2
  <2>3. A!Like(e, g)
    BY <2>1, <2>2 DEF Shows, A!Like
  <2>. QED BY <1>3, <1>4, <2>2, <2>3
<1>7. \A e \in Scope : /\ DateOf(e) \in Nat /\ e.year \in Nat /\ e.slug \in Nat
                       /\ e.kind \in A!Kinds(a_query)
  BY <1>1, EntryFiles, EntryDate DEF Scope, Wares
<1>. QED BY <1>1, <1>2, <1>3, <1>4, <1>5, <1>6, <1>7

LEMMA RowsAhead ==
    ASSUME LeafInv, Paged, ~ a_altered, A!Ready, NEW e \in Scope, NEW X, X \subseteq a_rows,
           \A x \in a_rows, g \in Scope : Shows(x, g) => (x \in X <=> Sooner(g, e))
    PROVE  Cardinality(X) = A!Cardinality(Ahead(e))
<1>1. \A x \in X : \E g \in Ahead(e) : A!Like(g, x)
  BY RowsAreScope DEF Ahead, Shows, A!Like
<1>2. \A g \in Ahead(e) : \E x \in X : A!Like(g, x)
  BY RowsAreScope DEF Ahead, Shows, A!Like
<1>3. /\ \A x, z \in X : A!Like(x, z) => x = z
      /\ \A g, h \in Ahead(e) : A!Like(g, h) => g = h
      /\ IsFiniteSet(X)
  BY RowsAreScope, FS_Subset DEF Ahead
<1>4. Cardinality(Ahead(e)) = Cardinality(X)
  BY <1>1, <1>2, <1>3, OneByOne
<1>. QED BY <1>4 DEF A!Cardinality, Cardinality

\* In a list, an entry comes after those that are ahead of it.
LEMMA PlaceInList ==
    ASSUME LeafInv, Paged, ~ a_altered, A!Ready, a_query.how = "list",
           NEW s \in A!Sorted(a_rows, A!ListOrder(a_rows)), NEW e \in Scope
    PROVE  /\ s \in Seq(a_rows)
           /\ \E p \in 1 .. Len(s) : A!Like(e, s[p]) /\ A!Cardinality(Ahead(e)) = p - 1
<1>. DEFINE O == A!ListOrder(a_rows)
<1>1. PICK r \in a_rows : Shows(r, e)
  BY RowsAreScope
<1>. DEFINE X == {x \in a_rows : <<x, r>> \in O}
<1>2. ASSUME NEW x \in a_rows, NEW g \in Scope, Shows(x, g)
      PROVE  /\ x.date = DateOf(g) /\ x.year = g.year /\ x.slug = g.slug /\ x.kind = g.kind
             /\ x.active = FALSE /\ x.date \in Nat /\ x.year \in Nat /\ x.slug \in Nat
             /\ x.kind = a_query.kind
  <2>1. DateOf(g) \in Nat /\ g.year \in Nat /\ g.slug \in Nat /\ g.kind = a_query.kind
    BY RowsAreScope DEF A!Kinds
  <2>. QED BY <1>2, <2>1 DEF Shows, A!Like
<1>3. \A x \in a_rows : /\ x.active = FALSE /\ x.date \in Nat /\ x.year \in Nat /\ x.slug \in Nat
                        /\ x.kind = a_query.kind
  BY <1>2, RowsAreScope
<1>4. \A x, y \in a_rows : <<x, y>> \in O <=>
          \/ x.date > y.date
          \/ x.date = y.date /\ x.year > y.year
          \/ x.date = y.date /\ x.year = y.year /\ x.slug < y.slug
  <2>1. \A x, y \in a_rows : <<x, y>> \in O <=> A!RowBefore(x, y)
    BY DEF A!ListOrder
  <2>. HIDE DEF O
  <2>2. ASSUME NEW x \in a_rows, NEW y \in a_rows
        PROVE  A!RowBefore(x, y) <=>
                  \/ x.date > y.date
                  \/ x.date = y.date /\ x.year > y.year
                  \/ x.date = y.date /\ x.year = y.year /\ x.slug < y.slug
    <3>1. x.active = FALSE /\ y.active = FALSE
      BY <1>3
    <3>. QED BY <3>1, Zenon DEF A!RowBefore
  <2>. QED BY <2>1, <2>2
<1>5. <<r, r>> \notin O
  BY <1>3, <1>4
<1>6. \A x \in a_rows : x # r => <<x, r>> \in O \/ <<r, x>> \in O
  <2>1. \A x \in a_rows : A!Like(x, r) => x = r
    BY RowsAreScope
  <2>. HIDE DEF O
  <2>. QED BY <1>3, <1>4, <2>1 DEF A!Like
<1>7. \A x \in a_rows, g \in Scope : Shows(x, g) => (x \in X <=> Sooner(g, e))
  <2>1. r.date = DateOf(e) /\ r.year = e.year /\ r.slug = e.slug
    BY <1>1, <1>2
  <2>. HIDE DEF O
  <2>2. \A x \in a_rows : x \in X <=>
          \/ x.date > DateOf(e)
          \/ x.date = DateOf(e) /\ x.year > e.year
          \/ x.date = DateOf(e) /\ x.year = e.year /\ x.slug < e.slug
    BY <1>4, <2>1
  <2>. HIDE DEF X
  <2>. QED BY <1>2, <2>2 DEF Sooner
<1>. HIDE DEF O
<1>8. Cardinality(X) = A!Cardinality(Ahead(e))
  <2>. HIDE DEF X
  <2>1. X \subseteq a_rows
    BY DEF X
  <2>. QED BY <1>7, <2>1, RowsAhead
<1>9. \E p \in 1 .. Len(s) : s[p] = r /\ Cardinality(X) = p - 1
  <2>1. IsFiniteSet(a_rows) /\ s \in A!Sorted(a_rows, O)
    BY RowsAreScope DEF O
  <2>. QED BY <1>5, <1>6, <2>1, Position
<1>10. s \in Seq(a_rows)
  <2>1. s \in [1 .. Len(s) -> a_rows] /\ Len(s) \in Nat
    BY RowsAreScope, InOrder
  <2>. QED BY <2>1
<1>. QED BY <1>1, <1>8, <1>9, <1>10 DEF Shows, A!Like

\* Among everything that is past, an entry comes after those that are ahead of it.
LEMMA PlaceInAll ==
    ASSUME LeafInv, Paged, ~ a_altered, A!Ready, a_query.how = "all",
           NEW s \in A!Sorted(A!Recent(a_rows, a_today), A!Latest(a_rows)),
           NEW e \in Scope, ~ Level(e), DateOf(e) < a_today
    PROVE  \E p \in 1 .. Len(s) : A!Like(e, s[p]) /\ A!Cardinality(Ahead(e)) = p - 1
<1>. DEFINE O == A!Latest(a_rows)
            T == A!Recent(a_rows, a_today)
<1>1. PICK r \in a_rows : Shows(r, e)
  BY RowsAreScope
<1>. DEFINE X == {x \in T : <<x, r>> \in O}
<1>2. a_today \in Nat
  BY DEF LeafInv, DashboardInv, FilesInv
<1>3. ASSUME NEW x \in a_rows, NEW g \in Scope, Shows(x, g)
      PROVE  x.date = DateOf(g) /\ x.date \in Nat
  BY <1>3, RowsAreScope DEF Shows
<1>4. \A x \in a_rows : x.date \in Nat
  BY <1>3, RowsAreScope
<1>5. T \subseteq a_rows /\ \A x \in a_rows : x \in T <=> x.date < a_today
  BY <1>2, <1>4 DEF A!Recent, A!Upcoming
<1>6. \A x, y \in a_rows : <<x, y>> \in O <=> x.date > y.date
  BY DEF A!Latest
<1>. HIDE DEF O, T
<1>7. r.date = DateOf(e) /\ r \in T /\ <<r, r>> \notin O
  BY <1>1, <1>3, <1>4, <1>5, <1>6
<1>8. ASSUME NEW x \in T, x # r
      PROVE  <<x, r>> \in O \/ <<r, x>> \in O
  <2>1. PICK g \in Scope : Shows(x, g)
    BY <1>5, RowsAreScope
  <2>2. g # e
    <3>1. A!Like(x, r) => x = r
      BY <1>5, RowsAreScope
    <3>. QED BY <1>1, <1>8, <2>1, <3>1 DEF Shows, A!Like
  <2>3. x.date # r.date
    BY <1>3, <1>5, <1>7, <2>1, <2>2 DEF Level
  <2>. QED BY <1>4, <1>5, <1>6, <2>3
<1>9. \A x \in a_rows, g \in Scope : Shows(x, g) => (x \in X <=> Sooner(g, e))
  <2>1. \A x \in a_rows : x \in X <=> x.date < a_today /\ x.date > DateOf(e)
    BY <1>5, <1>6, <1>7
  <2>. HIDE DEF X
  <2>. QED BY <1>3, <2>1 DEF Sooner
<1>10. Cardinality(X) = A!Cardinality(Ahead(e))
  <2>1. X \subseteq a_rows
    BY <1>5
  <2>. HIDE DEF X
  <2>. QED BY <1>9, <2>1, RowsAhead
<1>11. \E p \in 1 .. Len(s) : s[p] = r /\ Cardinality(X) = p - 1
  <2>1. IsFiniteSet(T) /\ s \in A!Sorted(T, O)
    BY <1>5, RowsAreScope, FS_Subset DEF O, T
  <2>. QED BY <1>7, <1>8, <2>1, Position
<1>. QED BY <1>1, <1>10, <1>11 DEF Shows, A!Like

\* What the page shows, and what comes after it.
LEMMA PageShows ==
    ASSUME A!DashboardAssumption, LeafInv, Paged, ~ a_altered, A!RenderList \/ A!list_all,
           NEW e \in Due, ~ Level(e)
    PROVE  \/ \E r \in a_seen \cup a_answer'.shown : A!Like(e, r)
           \/ /\ a_answer'.page = a_query.n /\ a_answer'.page # a_answer'.pages
              /\ A!Cardinality(Ahead(e)) >= a_query.n * PAGE_SIZE
              /\ a_query.how = "all" => DateOf(e) < a_today
<1>. DEFINE n == a_query.n
            Sight(s) == {A!paginate(s, n)[i] : i \in DOMAIN A!paginate(s, n)}
<1>1. /\ A!Ready /\ a_stage = "list" /\ n \in Nat /\ n >= 1
      /\ A!PagesAssumption /\ PAGE_SIZE \in Nat /\ FilesInv /\ Kept /\ NoneForgotten /\ FarEnough
  BY DEF A!RenderList, A!list_all, A!Ready, LeafInv, DashboardInv, AnswerInv, FromOne,
         A!DashboardAssumption, A!PagesAssumption
<1>2. e \in Scope /\ e \in OverviewEntries
  <2>1. Covered(e)
    BY <1>1 DEF NoneForgotten, Paged
  <2>2. e \in Wares
    BY <1>1, DueIsWare
  <2>. QED BY <2>1, <2>2 DEF Scope, Wares
<1>3. SUFFICES ASSUME ~ \E r \in a_seen : A!Like(e, r),
                      A!Cardinality(Ahead(e)) >= (n - 1) * PAGE_SIZE,
                      a_query.how = "all" /\ n - 1 > 0 => DateOf(e) < a_today
               PROVE  \/ \E r \in a_answer'.shown : A!Like(e, r)
                      \/ /\ a_answer'.page = n /\ a_answer'.page # a_answer'.pages
                         /\ A!Cardinality(Ahead(e)) >= n * PAGE_SIZE
                         /\ a_query.how = "all" => DateOf(e) < a_today
  BY <1>1 DEF FarEnough, Leafing, Leafed, Told
<1>. HIDE DEF n
<1>4. ASSUME NEW R, NEW s \in Seq(R), NEW p \in 1 .. Len(s), A!Like(e, s[p]),
             A!Cardinality(Ahead(e)) = p - 1
      PROVE  /\ A!Clamped(n, Len(s)) = n
             /\ \/ \E r \in Sight(s) : A!Like(e, r)
                \/ n # A!Pages(Len(s)) /\ A!Cardinality(Ahead(e)) >= n * PAGE_SIZE
  BY <1>1, <1>3, <1>4, OnPage
<1>. HIDE DEF Sight
<1>5. CASE a_query.how = "list"
  <2>1. A!RenderList /\ a_query.kind \notin {"events", "subscriptions", "tickets"}
    BY <1>5 DEF A!RenderList, A!list_all, Paged
  <2>2. PICK order \in A!Sorted(a_rows, A!ListOrder(a_rows)) :
          A!Answer(200, Sight(order), A!Clamped(n, Len(order)), A!Pages(Len(order)))
    BY <2>1 DEF A!RenderList, Sight, n
  <2>3. PICK p \in 1 .. Len(order) : A!Like(e, order[p]) /\ A!Cardinality(Ahead(e)) = p - 1
    BY <1>1, <1>2, <1>5, PlaceInList
  <2>4. order \in Seq(a_rows)
    BY <1>1, <1>2, <1>5, PlaceInList
  <2>5. /\ A!Clamped(n, Len(order)) = n
        /\ \/ \E r \in Sight(order) : A!Like(e, r)
           \/ n # A!Pages(Len(order)) /\ A!Cardinality(Ahead(e)) >= n * PAGE_SIZE
    BY <1>4, <2>3, <2>4
  <2>6. /\ a_answer'.shown = Sight(order) /\ a_answer'.page = A!Clamped(n, Len(order))
        /\ a_answer'.pages = A!Pages(Len(order))
    BY <2>2 DEF A!Answer
  <2>. QED BY <1>5, <2>5, <2>6
<1>6. CASE a_query.how = "all"
  <2>. DEFINE Past == A!Recent(a_rows, a_today)
              Coming == IF n <= 1 THEN A!Upcoming(a_rows, a_today) ELSE {}
  <2>1. A!list_all
    BY <1>6 DEF A!RenderList
  <2>2. PICK order \in A!Sorted(Past, A!Latest(a_rows)) :
          A!Answer(200, Sight(order) \cup Coming, A!Clamped(n, Len(order)), A!Pages(Len(order)))
    BY <2>1 DEF A!list_all, Sight, n
  <2>3. /\ a_answer'.shown = Sight(order) \cup Coming /\ a_answer'.page = A!Clamped(n, Len(order))
        /\ a_answer'.pages = A!Pages(Len(order))
    BY <2>2 DEF A!Answer
  <2>4. a_today \in Nat /\ DateOf(e) \in Nat
    BY <1>1, <1>2, EntryDate DEF FilesInv
  <2>5. CASE DateOf(e) < a_today
    <3>1. PICK p \in 1 .. Len(order) : A!Like(e, order[p]) /\ A!Cardinality(Ahead(e)) = p - 1
      BY <1>1, <1>2, <1>6, <2>5, PlaceInAll
    <3>2. order \in Seq(Past)
      <4>1. IsFiniteSet(a_rows) /\ Past \subseteq a_rows
        BY DEF LeafInv, DashboardInv, RowsLead, A!Recent
      <4>2. IsFiniteSet(Past)
        BY <4>1, FS_Subset
      <4>. HIDE DEF Past
      <4>3. order \in [1 .. Len(order) -> Past] /\ Len(order) \in Nat
        BY <4>2, InOrder
      <4>. QED BY <4>3
    <3>3. /\ A!Clamped(n, Len(order)) = n
          /\ \/ \E r \in Sight(order) : A!Like(e, r)
             \/ n # A!Pages(Len(order)) /\ A!Cardinality(Ahead(e)) >= n * PAGE_SIZE
      BY <1>4, <3>1, <3>2
    <3>. QED BY <2>3, <2>5, <3>3
  <2>6. CASE ~ (DateOf(e) < a_today)
    <3>1. n <= 1
      BY <1>1, <1>3, <1>6, <2>6
    <3>2. PICK r \in a_rows : Shows(r, e)
      BY <1>1, <1>2, RowsAreScope
    <3>3. r \in A!Upcoming(a_rows, a_today) /\ A!Like(e, r)
      BY <2>4, <2>6, <3>2 DEF A!Upcoming, Shows, A!Like
    <3>. QED BY <2>3, <3>1, <3>3
  <2>. QED BY <2>5, <2>6
<1>. QED BY <1>5, <1>6 DEF Paged

\* A page is made.
LEMMA RenderSkipsNothing ==
    ASSUME A!DashboardAssumption, LeafInv, FilesInv',
           A!RenderList \/ A!list_all \/ A!index \/ A!api
    PROVE  Kept' /\ Gathered' /\ NoneForgotten' /\ FarEnough' /\ FromOne' /\ A!NothingSkipped'
<1>1. /\ UNCHANGED <<a_disk, a_query, a_rows, a_config, a_today, a_before, a_altered, a_seen, a_link>>
      /\ A!Ready /\ a_stage = "list" /\ a_dirs = {} /\ a_todo = {}
      /\ a_stage' = "answered" /\ a_dirs' = {} /\ a_todo' = {}
  BY DEF A!RenderList, A!list_all, A!index, A!api, A!Ready, A!Served, A!files, A!Answer
<1>2. FromOne' /\ Gathered' /\ NoneForgotten'
  BY <1>1 DEF FromOne, Gathered, NoneForgotten, LeafInv
<1>. SUFFICES ASSUME ~ a_altered
              PROVE  Kept' /\ FarEnough' /\ A!NothingSkipped'
  BY <1>1, <1>2 DEF Kept, FarEnough, A!NothingSkipped
<1>3. FilesInv /\ Kept /\ NoneForgotten /\ a_query.n \in Nat /\ a_query.n >= 1
  BY <1>1 DEF LeafInv, DashboardInv, AnswerInv, FromOne
<1>4. Steady
  BY <1>1, <1>3, RequestingIsSteady
<1>5. /\ Kept'
      /\ (Paged' <=> Paged) /\ A!Kinds(a_query)' = A!Kinds(a_query) /\ Due' = Due
      /\ \A e : A!Wanted(e)' <=> A!Wanted(e)
  BY <1>3, <1>4, KeptStays, SearchKeeps
<1>6. a_query.how \notin {"list", "all"} => FarEnough' /\ A!NothingSkipped'
  BY <1>1 DEF FarEnough, Paged, A!NothingSkipped
<1>7. a_query.how \in {"list", "all"} => A!RenderList \/ A!list_all
  BY DEF A!index, A!api
<1>8. CASE a_query.how \in {"list", "all"} /\ Paged
  <2>1. \A e \in Due : /\ e \in OverviewEntries /\ e \in Scope
    BY <1>1, <1>3, <1>8, DueIsWare DEF NoneForgotten, Scope, Wares
  <2>2. Scope \subseteq Scope'
    BY <1>1, <1>3, <1>4, <1>8, EntriesKeep DEF Scope, Covered
  <2>3. FarEnough'
    <3>1. a_query' = a_query /\ Leafed' = a_answer'.page /\ Told' = a_seen \cup a_answer'.shown
      BY <1>1 DEF Leafed, Told
    <3>2. ASSUME NEW e \in Due
          PROVE  \/ Level(e)'
                 \/ \E r \in Told' : A!Like(e, r)
                 \/ /\ A!Cardinality(Ahead(e))' >= Leafed' * PAGE_SIZE
                    /\ a_query'.how = "all" /\ Leafed' > 0 => DateOf(e)' < a_today'
      <4>1. /\ Level(e) => Level(e)'
            /\ A!Cardinality(Ahead(e)) \in Nat /\ A!Cardinality(Ahead(e))' \in Nat
            /\ A!Cardinality(Ahead(e)) <= A!Cardinality(Ahead(e))'
            /\ DateOf(e) < a_today => DateOf(e)' < a_today'
        BY <1>3, <1>4, <1>8, <2>1, <2>2, AheadGrows
      <4>2. a_query.n * PAGE_SIZE \in Nat
        BY <1>3 DEF A!DashboardAssumption, A!PagesAssumption
      <4>3. \/ Level(e)
            \/ \E r \in a_seen \cup a_answer'.shown : A!Like(e, r)
            \/ /\ a_answer'.page = a_query.n
               /\ A!Cardinality(Ahead(e)) >= a_query.n * PAGE_SIZE
               /\ a_query.how = "all" => DateOf(e) < a_today
        BY <1>7, <1>8, PageShows
      <4>4. CASE Level(e) \/ \E r \in a_seen \cup a_answer'.shown : A!Like(e, r)
        BY <3>1, <4>1, <4>4
      <4>5. CASE /\ a_answer'.page = a_query.n
                 /\ A!Cardinality(Ahead(e)) >= a_query.n * PAGE_SIZE
                 /\ a_query.how = "all" => DateOf(e) < a_today
        <5>1. A!Cardinality(Ahead(e))' >= Leafed' * PAGE_SIZE
          BY <3>1, <4>1, <4>2, <4>5
        <5>. QED BY <3>1, <4>1, <4>5, <5>1
      <4>. QED BY <4>3, <4>4, <4>5
    <3>. QED BY <1>5, <3>2 DEF FarEnough
  <2>4. ASSUME NEW e \in Due, ~ A!Tied(e)
        PROVE  ~ Level(e)
    <3>1. SUFFICES ASSUME a_query.how = "all", NEW x \in Scope, x # e, DateOf(x) = DateOf(e)
                   PROVE  FALSE
      BY DEF Level
    <3>2. PICK r \in a_rows, s \in a_rows : Shows(r, e) /\ Shows(s, x)
      BY <1>1, <1>8, <2>1, RowsAreScope
    <3>3. r # s
      BY <1>1, <1>8, <2>1, <3>1, <3>2, RowsAreScope DEF Shows, A!Like
    <3>. QED BY <2>4, <3>1, <3>2, <3>3 DEF A!Tied, Shows
  <2>5. A!NothingSkipped'
    <3>1. ASSUME a_answer'.page = a_answer'.pages, NEW e \in Due, ~ A!Tied(e)
          PROVE  \E r \in a_seen \cup a_answer'.shown : A!Like(e, r)
      BY <1>7, <1>8, <2>4, <3>1, PageShows
    <3>2. \A f : A!Tied(f)' <=> A!Tied(f)
      BY <1>1 DEF A!Tied
    <3>3. \A k \in A!Kinds(a_query)' : \A f \in A!Entries(a_before', k) :
              A!Wanted(f)' => f \in Due
      BY <1>1, <1>5 DEF Due
    <3>. QED BY <1>1, <3>1, <3>2, <3>3 DEF A!NothingSkipped
  <2>. QED BY <1>5, <2>3, <2>5
<1>9. CASE a_query.how \in {"list", "all"} /\ ~ Paged
  <2>1. A!RenderList /\ a_query.kind \in {"events", "subscriptions", "tickets"}
    BY <1>7, <1>9 DEF Paged, A!list_all
  <2>2. a_answer'.shown = a_rows
    BY <2>1 DEF A!RenderList, A!Answer
  <2>3. \A e \in Due : \E r \in a_rows : A!Like(e, r)
    BY <1>1, <1>3, <1>9 DEF NoneForgotten, Covered
  <2>4. A!NothingSkipped'
    BY <1>1, <1>5, <2>2, <2>3 DEF A!NothingSkipped, Due
  <2>. QED BY <1>5, <1>9, <2>4 DEF FarEnough
<1>. QED BY <1>5, <1>6, <1>8, <1>9

\* The reader follows a link, and gets an answer.
LEMMA FollowingSkipsNothing ==
    ASSUME LeafInv,
           \/ \E l \in A!Linked : A!Follow(l)
           \/ A!serve_file \/ A!view_bill \/ A!view_receipt \/ A!view_reservation
           \/ A!view_parcel \/ A!view_subscription \/ A!view_ticket \/ A!SidecarMissing
    PROVE  Kept' /\ Gathered' /\ NoneForgotten' /\ FarEnough' /\ FromOne' /\ A!NothingSkipped'
<1>1. /\ UNCHANGED <<a_disk, a_query, a_config, a_today, a_before, a_altered>>
      /\ a_stage # "idle"
      /\ \/ a_stage' \in {"read", "exists"}
         \/ a_stage' = "answered" /\ a_stage \in {"read", "exists"} /\ a_link' = a_link
  BY DEF A!Follow, A!serve_file, A!view_bill, A!view_receipt, A!view_reservation, A!view_parcel,
         A!view_subscription, A!view_ticket, A!View, A!SidecarMissing, A!Respond, A!files
<1>2. a_stage \in {"read", "exists"} => a_link # A!NoLink
  BY DEF LeafInv, DashboardInv, LinkInv
<1>3. ~ Leafing' /\ Gathered' /\ NoneForgotten' /\ FarEnough' /\ A!NothingSkipped'
  BY <1>1, <1>2 DEF Leafing, Gathered, NoneForgotten, FarEnough, A!NothingSkipped
<1>4. ~ a_altered => Steady
  BY <1>1, RequestingIsSteady DEF LeafInv, DashboardInv
<1>5. Kept'
  BY <1>1, <1>4, KeptStays DEF Kept, LeafInv
<1>6. FromOne'
  BY <1>1 DEF FromOne, LeafInv
<1>. QED BY <1>3, <1>5, <1>6

(***************************************************************************)
(* A reader who leafs through a list, or through everything, to its last   *)
(* page has been shown all they asked for of what was on file when they    *)
(* began, whatever is filed meanwhile, however many pages there are and    *)
(* however many rows are on one - short of the replaced, the renamed and   *)
(* the tied (paginate, the sort_by of the list handlers, split_feed).      *)
(***************************************************************************)
THEOREM LeafingSkipsNothing ==
    ASSUME A!DashboardAssumption
    PROVE  A!Spec => []NothingSkipped
<1>1. A!Init => LeafInv
  <2>. SUFFICES ASSUME A!Init PROVE LeafInv
    OBVIOUS
  <2>1. DashboardInv
    BY DashboardBegins
  <2>2. a_stage = "idle" /\ a_before = {} /\ a_query.how = "none"
    BY DEF A!Init
  <2>3. Kept
    BY <2>2 DEF Kept
  <2>4. Gathered /\ NoneForgotten /\ FarEnough /\ FromOne /\ A!NothingSkipped
    BY <2>2 DEF Gathered, NoneForgotten, FarEnough, Leafing, FromOne, A!NothingSkipped
  <2>. QED BY <2>1, <2>3, <2>4 DEF LeafInv
<1>2. LeafInv /\ [A!Next]_(A!vars) => LeafInv'
  <2>. SUFFICES ASSUME LeafInv, [A!Next]_(A!vars) PROVE LeafInv'
    OBVIOUS
  <2>1. DashboardInv'
    BY DashboardGoesOn DEF LeafInv
  <2>2. FilesInv'
    BY <2>1 DEF DashboardInv
  <2>. SUFFICES Kept' /\ Gathered' /\ NoneForgotten' /\ FarEnough' /\ FromOne' /\ A!NothingSkipped'
    BY <2>1 DEF LeafInv
  <2>3. CASE UNCHANGED A!vars
    <3>1. UNCHANGED A!server
      BY <2>3 DEF A!vars, A!server
    <3>. QED BY <2>2, <2>3, <3>1, FilingSkipsNothing
  <2>4. CASE Filing /\ UNCHANGED A!server
    BY <2>2, <2>4, FilingSkipsNothing
  <2>5. CASE Requesting
    BY <2>2, <2>5, VisitSkipsNothing, NextPageSkipsNothing, ListingSkipsNothing,
       ReadingSkipsNothing, RenderSkipsNothing, FollowingSkipsNothing DEF Requesting
  <2>. QED BY <2>3, <2>4, <2>5, EitherSide
<1>3. LeafInv => NothingSkipped
  BY DEF LeafInv, NothingSkipped
<1>. QED BY <1>1, <1>2, <1>3, PTL DEF A!Spec

=============================================================================
