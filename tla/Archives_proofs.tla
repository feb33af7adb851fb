---------------------------- MODULE Archives_proofs ----------------------------
(***************************************************************************)
(* What is filed into the archives is right, for all values of the         *)
(* constants: any number of workers, mails, orders, legs and files.        *)
(*                                                                         *)
(* Parcels: all of it rests on the history.  It has no repetitions, so     *)
(* that dropping them drops nothing but the entry just appended            *)
(* (RepetitionsDropped, by induction along the history), and therefore it  *)
(* still tells the date and the status of every dated mail that was ever   *)
(* merged: newest_received_at is the newest of those dates.                *)
(*                                                                         *)
(* Tickets: a ticket and its sidecar agree.  In a directory the lock makes *)
(* it an argument about one worker: while it is between its two writes,    *)
(* the ticket it files is at least as new as all that is on file.  On a    *)
(* WebDAV server there is no lock, and the date of the sidecar, which only *)
(* grows, carries the argument: a worker that writes the blob has put a    *)
(* sidecar that is not older, and whatever blob it replaces was vouched    *)
(* for when the worker asked the sidecar again.                            *)
(*                                                                         *)
(* Receipts: the date of the record at a place only grows, so a record     *)
(* that stands up for a document does so for good (BackedForGood).         *)
(*                                                                         *)
(* Reservations: what is on file of a leg is never older than its last     *)
(* cancellation, and a lone worker leaves behind it only legs its mail has *)
(* nothing to say of (ScanSettles).  Calendar and archive go through the   *)
(* same changes, one before the other: apart from the legs the worker is   *)
(* at, they say the same (CalendarFollows).                                *)
(*                                                                         *)
(* Reindex: a lone process writes over nothing newer, and what it removes  *)
(* is at its target by then, or older than what is there (Supplanted).     *)
(* What it reports follows from the files it began with, wherever it is,   *)
(* and a list of reports is determined by what it reports and in which     *)
(* order: so a real run reports what a dry run of the same files did       *)
(* (Foretells).                                                            *)
(***************************************************************************)
EXTENDS Archives, SequenceTheorems, FiniteSetTheorems, WellFoundedInduction, TLAPS

-----------------------------------------------------------------------------
(***************************************************************************)
(* Parcels: sets of dates                                                  *)
(***************************************************************************)

\* < is well-founded, the form in which the library's lemma WFMin takes it.
LEMMA LessOnNat == IsWellFoundedOn({p \in Nat \X Nat : p[1] < p[2]}, Nat)
BY NatLessThanWellFounded DEF OpToRel

\* A set of numbers has a smallest member.
LEMMA Smallest ==
    ASSUME NEW S, S \subseteq Nat, S # {}
    PROVE  \E x \in S : \A y \in S : x <= y
<1>. DEFINE Less == {p \in Nat \X Nat : p[1] < p[2]}
<1>1. PICK x \in S : \A y \in S : <<y, x>> \notin Less
  <2>. IsWellFoundedOn(Less, Nat)
    BY LessOnNat
  <2>. HIDE DEF Less
  <2>. QED BY WFMin
<1>2. ASSUME NEW y \in S PROVE x <= y
  <2>1. x \in Nat /\ y \in Nat
    OBVIOUS
  <2>2. ~ (y < x)
    <3>1. y < x => <<y, x>> \in Less
      BY <2>1
    <3>. QED BY <1>1, <3>1
  <2>. HIDE DEF Less
  <2>. QED BY <2>1, <2>2
<1>. QED BY <1>2

\* Earliest is the earliest.
LEMMA Earliests ==
    ASSUME NEW D, D \subseteq Nat, D # {}
    PROVE  Earliest(D) \in D /\ \A d \in D : Earliest(D) <= d
<1>1. \E x \in D : \A y \in D : x =< y
  BY Smallest
<1>. QED BY <1>1 DEF Earliest, Min

\* Some date of D is the last.
HasLatest(D) == \E x \in D : \A y \in D : x >= y

\* Latest is the latest, if there is one.
LEMMA Latests ==
    ASSUME NEW D, D \subseteq Nat, HasLatest(D)
    PROVE  Latest(D) \in D /\ \A d \in D : d <= Latest(D)
<1>1. Max(D) \in D /\ \A y \in D : Max(D) >= y
  BY DEF HasLatest, Max
<1>2. Latest(D) = Max(D)
  BY <1>1 DEF Latest
<1>3. \A y \in D : y \in Nat /\ Max(D) \in Nat
  BY <1>1
<1>. QED BY <1>1, <1>2, <1>3

\* One more date, and there still is a last.
LEMMA LatestOfMore ==
    ASSUME NEW D, D \subseteq Nat, D = {} \/ HasLatest(D), NEW d \in Nat
    PROVE  HasLatest(D \cup {d})
<1>1. CASE D = {}
  BY <1>1 DEF HasLatest
<1>2. CASE HasLatest(D)
  <2>1. PICK x \in D : \A y \in D : x >= y
    BY <1>2 DEF HasLatest
  <2>2. CASE x >= d
    BY <2>1, <2>2 DEF HasLatest
  <2>3. CASE ~ (x >= d)
    <3>1. \A y \in D : d >= y
      BY <2>1, <2>3
    <3>. QED BY <3>1 DEF HasLatest
  <2>. QED BY <2>2, <2>3
<1>. QED BY <1>1, <1>2

-----------------------------------------------------------------------------
(***************************************************************************)
(* drop_repeated_entries                                                   *)
(***************************************************************************)

\* No entry repeats one before it.
NoRepetitions(h) ==
    \A i \in 1 .. Len(h) :
        IF Dated(h[i]) THEN \A j \in 1 .. i - 1 : ~ is_same_snapshot(h[j], h[i])
        ELSE i > 1 => ~ is_same_snapshot(h[i - 1], h[i])

\* What is_recorded looks for among the first n entries.
LEMMA RecordedInPrefix ==
    ASSUME NEW h \in Seq(Mail), NEW n \in 0 .. Len(h), NEW m \in Mail
    PROVE  is_recorded(SubSeq(h, 1, n), m) <=>
              IF Dated(m) THEN \E j \in 1 .. n : is_same_snapshot(h[j], m)
              ELSE n > 0 /\ is_same_snapshot(h[n], m)
<1>. DEFINE s == SubSeq(h, 1, n)
<1>. SUFFICES is_recorded(s, m) <=>
                 IF Dated(m) THEN \E j \in 1 .. n : is_same_snapshot(h[j], m)
                 ELSE n > 0 /\ is_same_snapshot(h[n], m)
  OBVIOUS
<1>1. n \in Nat /\ n \in Int /\ Len(h) \in Nat
  OBVIOUS
<1>2. \A i \in 1 .. n : h[i] \in Mail
  BY <1>1, ElementOfSeq
<1>3. s \in Seq(Mail) /\ Len(s) = n /\ \A i \in 1 .. n : s[i] = h[i]
  <2>1. /\ s \in Seq(Mail)
        /\ Len(s) = IF 1 <= n THEN n - 1 + 1 ELSE 0
        /\ \A i \in 1 .. n - 1 + 1 : s[i] = h[1 + i - 1]
    BY <1>1, <1>2, SubSeqProperties
  <2>. HIDE DEF s
  <2>2. n - 1 + 1 = n
    BY <1>1
  <2>3. Len(s) = n
    <3>1. CASE n = 0
      BY <2>1, <3>1
    <3>2. CASE n > 0
      <4>1. 1 <= n
        BY <3>2, <1>1
      <4>. QED BY <2>1, <2>2, <4>1
    <3>. QED BY <1>1, <3>1, <3>2
  <2>4. ASSUME NEW i \in 1 .. n PROVE s[i] = h[i]
    <3>1. 1 + i - 1 = i
      OBVIOUS
    <3>2. s[i] = h[1 + i - 1]
      BY <2>1, <2>2
    <3>. HIDE DEF s
    <3>. QED BY <3>1, <3>2, Zenon
  <2>. QED BY <2>1, <2>3, <2>4
<1>4. DOMAIN s = 1 .. n
  <2>. HIDE DEF s
  <2>. QED BY <1>3, LenProperties
<1>5. s # <<>> <=> n > 0
  <2>. HIDE DEF s
  <2>. QED BY <1>1, <1>3, EmptySeq
<1>. HIDE DEF s
<1>6. CASE Dated(m)
  BY <1>3, <1>4, <1>6 DEF is_recorded
<1>7. CASE ~ Dated(m)
  BY <1>1, <1>3, <1>5, <1>7 DEF is_recorded
<1>. QED BY <1>6, <1>7

(***************************************************************************)
(* A history without repetitions loses nothing, and keeps a new entry      *)
(* unless it has it.                                                       *)
(***************************************************************************)
LEMMA RepetitionsDropped ==
    ASSUME NEW h \in Seq(Mail), NoRepetitions(h), NEW m \in Mail
    PROVE  drop_repeated_entries(Append(h, m)) =
              IF is_recorded(h, m) THEN h ELSE Append(h, m)
<1>. DEFINE H == Append(h, m)
            N == Len(H)
            Next1(kept, n) == IF is_recorded(kept, H[n]) THEN kept ELSE Append(kept, H[n])
            Table(f) == [n \in 0 .. N |-> IF n = 0 THEN <<>> ELSE Next1(f[n - 1], n)]
            kept == CHOOSE f : f = Table(f)
            last == Next1(h, N)
            answer == [n \in 0 .. N |-> IF n = N THEN last ELSE SubSeq(h, 1, n)]
<1>1. /\ Len(h) \in Nat /\ N = Len(h) + 1 /\ H[N] = m
      /\ \A n \in 1 .. Len(h) : H[n] = h[n]
  BY AppendProperties
<1>2. SubSeq(h, 1, 0) = <<>> /\ SubSeq(h, 1, Len(h)) = h
  BY SubSeqEmpty, SubSeqFull
\* An entry of the history itself is never a repetition.
<1>3. ASSUME NEW n \in 1 .. Len(h)
      PROVE  Next1(SubSeq(h, 1, n - 1), n) = SubSeq(h, 1, n)
  <2>1. n - 1 \in 0 .. Len(h) /\ h[n] \in Mail /\ H[n] = h[n] /\ n \in Nat
    BY <1>1, ElementOfSeq
  <2>2. ~ is_recorded(SubSeq(h, 1, n - 1), h[n])
    <3>1. CASE Dated(h[n])
      BY <2>1, <3>1, RecordedInPrefix DEF NoRepetitions
    <3>2. CASE ~ Dated(h[n])
      <4>1. n - 1 > 0 => n > 1
        BY <2>1
      <4>2. n - 1 > 0 => ~ is_same_snapshot(h[n - 1], h[n])
        BY <3>2, <4>1 DEF NoRepetitions
      <4>. QED BY <2>1, <3>2, <4>2, RecordedInPrefix
    <3>. QED BY <3>1, <3>2
  <2>3. SubSeq(h, 1, n) = Append(SubSeq(h, 1, n - 1), h[n])
    <3>1. 1 \in 1 .. Len(h) /\ n \in 1 .. Len(h)
      BY <1>1
    <3>2. SubSeq(h, 1, n) = SubSeq(h, 1, n - 1) \o <<h[n]>>
      BY <3>1, SubSeqRecursiveSecond
    <3>3. SubSeq(h, 1, n - 1) \in Seq(Mail)
      <4>1. \A i \in 1 .. n - 1 : h[i] \in Mail
        BY <1>1, ElementOfSeq
      <4>. QED BY <4>1, <2>1, SubSeqProperties
    <3>. QED BY <2>1, <3>2, <3>3, AppendIsConcat
  <2>. QED BY <2>1, <2>2, <2>3
\* So there is a table, and any has the prefixes of the history in it.
<1>4. answer = Table(answer)
  <2>1. ASSUME NEW n \in 0 .. N
        PROVE  answer[n] = IF n = 0 THEN <<>> ELSE Next1(answer[n - 1], n)
    <3>1. CASE n = 0
      BY <1>1, <1>2, <3>1
    <3>2. CASE n \in 1 .. Len(h)
      <4>1. n # N /\ n - 1 # N /\ n - 1 \in 0 .. N /\ n # 0
        BY <1>1, <3>2
      <4>2. answer[n] = SubSeq(h, 1, n) /\ answer[n - 1] = SubSeq(h, 1, n - 1)
        BY <4>1
      <4>. QED BY <4>1, <4>2, <3>2, <1>3
    <3>3. CASE n = N
      <4>1. n - 1 = Len(h) /\ n - 1 # N /\ n - 1 \in 0 .. N /\ n # 0
        BY <1>1, <3>3
      <4>2. answer[n] = last /\ answer[n - 1] = h
        BY <4>1, <3>3, <1>2
      <4>. QED BY <4>1, <4>2, <3>3
    <3>. QED BY <1>1, <3>1, <3>2, <3>3
  <2>. HIDE DEF Next1, last
  <2>. QED BY <2>1
<1>5. kept = Table(kept)
  BY <1>4
<1>6. ASSUME NEW n \in 0 .. N
      PROVE  kept[n] = IF n = 0 THEN <<>> ELSE Next1(kept[n - 1], n)
  <2>. HIDE DEF kept, Next1
  <2>. QED BY <1>5
<1>7. \A n \in 0 .. Len(h) : kept[n] = SubSeq(h, 1, n)
  <2>. DEFINE Wrong == {n \in 0 .. Len(h) : kept[n] # SubSeq(h, 1, n)}
  <2>. HIDE DEF kept, Next1
  <2>. SUFFICES ASSUME Wrong # {} PROVE FALSE
    OBVIOUS
  <2>1. PICK n \in Wrong : \A k \in Wrong : n <= k
    <3>1. Wrong \subseteq Nat
      BY <1>1
    <3>. HIDE DEF Wrong
    <3>. QED BY <3>1, Smallest
  <2>2. n \in 0 .. Len(h) /\ n \in 0 .. N /\ kept[n] # SubSeq(h, 1, n)
    BY <1>1
  <2>3. n # 0
    BY <2>2, <1>6, <1>2
  <2>4. n - 1 \in 0 .. Len(h) /\ ~ (n <= n - 1) /\ n \in 1 .. Len(h)
    BY <1>1, <2>2, <2>3
  <2>5. kept[n - 1] = SubSeq(h, 1, n - 1)
    BY <2>1, <2>4
  <2>. QED BY <2>2, <2>3, <2>4, <2>5, <1>3, <1>6
<1>8. kept[N] = last
  <2>1. N \in 0 .. N /\ N # 0 /\ N - 1 = Len(h) /\ Len(h) \in 0 .. Len(h)
    BY <1>1
  <2>. HIDE DEF kept, Next1
  <2>2. kept[N - 1] = h
    BY <2>1, <1>2, <1>7
  <2>. QED BY <2>1, <2>2, <1>6
<1>9. drop_repeated_entries(H) = kept[N]
  BY DEF drop_repeated_entries
<1>. QED BY <1>1, <1>8, <1>9

-----------------------------------------------------------------------------
(***************************************************************************)
(* Parcels: the invariant                                                  *)
(***************************************************************************)

\* A worker that is under way has a mail.
BusyHasMail == \A w \in Worker : pc[w] # "idle" => mail[w] \in Mail

\* The history has merged mails only, none twice, and the date and status of
\* every dated one.
HistoryKept ==
    /\ ~ OnRecord => filed = {}
    /\ OnRecord =>
          /\ NoRepetitions(record.history)
          /\ Entries(record.history) \subseteq filed
          /\ \A m \in filed : Dated(m) =>
                \E n \in Entries(record.history) : is_same_snapshot(n, m)
    /\ Dates(filed) = {} \/ HasLatest(Dates(filed))

\* The other fields are what some merged mail said.
FieldsFromMails ==
    OnRecord =>
        /\ record.received # NoDate => record.received \in Dates(filed)
        /\ record.state # NoMail => record.state \in filed /\ StatusOf[record.state] # NoStatus
        /\ record.state = NoMail => \E m \in filed : StatusOf[m] = NoStatus
        /\ record.time # NoDate => \E m \in filed : TimeOf[m] = record.time
        /\ record.carrier # NoMail => record.carrier \in filed

\* Only whoever created the record tells the trackers, and each once.
OneRegisters ==
    /\ \A v, w \in Worker : pc[v] = "register" /\ pc[w] = "register" => v = w
    /\ \A w \in Worker : pc[w] = "register" =>
          OnRecord /\ \A t \in Tracker : tried[t] = IF t \in sinks[w] THEN 0 ELSE 1
    /\ ~ OnRecord => \A t \in Tracker : tried[t] = 0

ParcelsInv ==
    /\ TypeOK
    /\ BusyHasMail
    /\ HistoryKept
    /\ FieldsFromMails
    /\ OneRegisters
    /\ OnRecord => StatusIsNewest
    /\ DeliveredStays

-----------------------------------------------------------------------------
(***************************************************************************)
(* Parcels: lemmas about merge                                             *)
(***************************************************************************)

\* A mail is added to a history: nothing is lost, nothing is there twice, and
\* a dated mail is told of.
LEMMA HistoryGrows ==
    ASSUME NEW h \in Seq(Mail), NoRepetitions(h), NEW m \in Mail,
           NEW g, g = drop_repeated_entries(Append(h, m))
    PROVE  /\ g \in Seq(Mail)
           /\ NoRepetitions(g)
           /\ Entries(h) \subseteq Entries(g)
           /\ Entries(g) \subseteq Entries(h) \cup {m}
           /\ Dated(m) => \E n \in Entries(g) : is_same_snapshot(n, m)
<1>1. g = IF is_recorded(h, m) THEN h ELSE Append(h, m)
  BY RepetitionsDropped
<1>2. is_recorded(h, m) <=>
         IF Dated(m) THEN \E j \in 1 .. Len(h) : is_same_snapshot(h[j], m)
         ELSE Len(h) > 0 /\ is_same_snapshot(h[Len(h)], m)
  <2>1. Len(h) \in 0 .. Len(h) /\ SubSeq(h, 1, Len(h)) = h
    BY SubSeqFull
  <2>. QED BY <2>1, RecordedInPrefix
<1>3. DOMAIN h = 1 .. Len(h) /\ Len(h) \in Nat
  BY LenProperties
<1>4. CASE is_recorded(h, m)
  BY <1>1, <1>2, <1>3, <1>4 DEF Entries
<1>5. CASE ~ is_recorded(h, m)
  <2>1. /\ g \in Seq(Mail) /\ Len(g) = Len(h) + 1
        /\ \A i \in 1 .. Len(h) : g[i] = h[i]
        /\ g[Len(h) + 1] = m
    BY <1>1, <1>5, AppendProperties
  <2>2. DOMAIN g = 1 .. Len(h) + 1
    BY <2>1, LenProperties
  <2>3. Entries(g) = Entries(h) \cup {m}
    <3>1. \A i \in DOMAIN g : i \in DOMAIN h \/ i = Len(h) + 1
      BY <1>3, <2>2
    <3>2. \A i \in DOMAIN h : i \in DOMAIN g
      BY <1>3, <2>2
    <3>3. Len(h) + 1 \in DOMAIN g
      BY <1>3, <2>2
    <3>. QED BY <1>3, <2>1, <3>1, <3>2, <3>3 DEF Entries
  <2>4. NoRepetitions(g)
    <3>. SUFFICES ASSUME NEW i \in 1 .. Len(h) + 1
                  PROVE  IF Dated(g[i]) THEN \A j \in 1 .. i - 1 : ~ is_same_snapshot(g[j], g[i])
                         ELSE i > 1 => ~ is_same_snapshot(g[i - 1], g[i])
      BY <2>1 DEF NoRepetitions
    <3>1. CASE i = Len(h) + 1
      <4>1. g[i] = m /\ i - 1 = Len(h)
        BY <1>3, <2>1, <3>1
      <4>2. CASE Dated(m)
        BY <1>2, <1>5, <2>1, <4>1, <4>2
      <4>3. CASE ~ Dated(m)
        <5>1. i > 1 => Len(h) > 0 /\ Len(h) \in 1 .. Len(h)
          BY <1>3, <3>1
        <5>2. i > 1 => g[i - 1] = h[Len(h)]
          BY <2>1, <4>1, <5>1
        <5>. QED BY <1>2, <1>5, <4>1, <4>3, <5>1, <5>2
      <4>. QED BY <4>2, <4>3
    <3>2. CASE i \in 1 .. Len(h)
      <4>1. /\ g[i] = h[i]
            /\ \A j \in 1 .. i - 1 : j \in 1 .. Len(h) /\ g[j] = h[j]
            /\ i > 1 => i - 1 \in 1 .. i - 1
        BY <1>3, <2>1, <3>2
      <4>. QED BY <3>2, <4>1 DEF NoRepetitions
    <3>. QED BY <1>3, <3>1, <3>2
  <2>5. is_same_snapshot(m, m)
    BY DEF is_same_snapshot
  <2>. QED BY <2>1, <2>3, <2>4, <2>5
<1>. QED BY <1>4, <1>5

\* The dates of a set of mails.
LEMMA DatesOf ==
    ASSUME ParcelsAssumption, NEW S, S \subseteq Mail
    PROVE  /\ Dates(S) \subseteq Nat
           /\ \A m \in S : Dated(m) => DateOf[m] \in Dates(S)
           /\ \A d \in Dates(S) : \E m \in S : Dated(m) /\ DateOf[m] = d
BY DEF ParcelsAssumption, Dates, Dated

\* The dates and the terminal states on record are those of the merged mails.
LEMMA HistoryTells ==
    ASSUME ParcelsAssumption, TypeOK, HistoryKept, OnRecord
    PROVE  /\ filed \subseteq Mail
           /\ Dates(Entries(record.history)) = Dates(filed)
           /\ Dates({m \in Entries(record.history) : is_terminal(m)}) =
                 Dates({m \in filed : is_terminal(m)})
<1>. DEFINE E == Entries(record.history)
<1>1. filed \subseteq Mail /\ E \subseteq filed
  BY DEF TypeOK, HistoryKept
<1>2. \A m \in filed : Dated(m) => \E n \in E : is_same_snapshot(n, m)
  BY DEF HistoryKept
<1>3. \A n, m : n \in Mail /\ m \in Mail /\ is_same_snapshot(n, m) =>
                    DateOf[n] = DateOf[m] /\ (is_terminal(m) => is_terminal(n))
  BY DEF is_same_snapshot, is_terminal
<1>. HIDE DEF E
<1>4. Dates(E) = Dates(filed)
  BY <1>1, <1>2, <1>3 DEF Dates, Dated
<1>5. Dates({m \in E : is_terminal(m)}) = Dates({m \in filed : is_terminal(m)})
  BY <1>1, <1>2, <1>3 DEF Dates, Dated
<1>. QED BY <1>1, <1>4, <1>5 DEF E

\* newest_received_at is the date of the newest mail, if any is dated.
LEMMA NewestIsNewest ==
    ASSUME ParcelsAssumption, TypeOK, HistoryKept, FieldsFromMails, OnRecord
    PROVE  LET newest == newest_received_at(record)
           IN \/ newest = NoDate /\ \A m \in filed : ~ Dated(m)
              \/ /\ newest \in Nat
                 /\ \E m \in filed : Dated(m) /\ DateOf[m] = newest
                 /\ \A m \in filed : Dated(m) => DateOf[m] <= newest
<1>1. /\ filed \subseteq Mail
      /\ Dates(Entries(record.history)) \cup ({record.received} \ {NoDate}) = Dates(filed)
  BY HistoryTells DEF FieldsFromMails
<1>2. newest_received_at(record) = Latest(Dates(filed))
  BY <1>1 DEF newest_received_at
<1>3. CASE Dates(filed) = {}
  BY <1>1, <1>2, <1>3, DatesOf DEF Latest
<1>4. CASE HasLatest(Dates(filed))
  <2>1. Dates(filed) \subseteq Nat
    BY <1>1, DatesOf
  <2>2. /\ Latest(Dates(filed)) \in Dates(filed)
        /\ \A d \in Dates(filed) : d <= Latest(Dates(filed))
    BY <1>4, <2>1, Latests
  <2>. QED BY <1>1, <1>2, <2>1, <2>2, DatesOf
<1>. QED BY <1>3, <1>4 DEF HistoryKept

\* A mail that is older than the record is dated, and older than some mail.
LEMMA OlderThanSome ==
    ASSUME ParcelsAssumption, TypeOK, HistoryKept, FieldsFromMails, OnRecord,
           NEW m \in Mail, is_older(record, m)
    PROVE  Dated(m) /\ \E n \in filed : Dated(n) /\ DateOf[n] > DateOf[m]
<1>1. /\ newest_received_at(record) # NoDate /\ DateOf[m] # NoDate
      /\ newest_received_at(record) > DateOf[m]
  BY DEF is_older, supersedes
<1>. QED BY <1>1, NewestIsNewest DEF Dated

\* One that is dated and not older is older than none.
LEMMA NotOlderThanAny ==
    ASSUME ParcelsAssumption, TypeOK, HistoryKept, FieldsFromMails, OnRecord,
           NEW m \in Mail, Dated(m), ~ is_older(record, m)
    PROVE  \A n \in filed : Dated(n) => DateOf[n] <= DateOf[m]
<1>. SUFFICES ASSUME NEW n \in filed, Dated(n) PROVE DateOf[n] <= DateOf[m]
  OBVIOUS
<1>. DEFINE newest == newest_received_at(record)
<1>1. newest \in Nat /\ DateOf[n] <= newest
  BY NewestIsNewest
<1>2. DateOf[m] \in Nat /\ DateOf[n] \in Nat
  BY DEF ParcelsAssumption, Dated, TypeOK
<1>3. ~ (newest > DateOf[m])
  <2>1. newest # NoDate
    BY <1>1 DEF ParcelsAssumption
  <2>. QED BY <2>1 DEF is_older, supersedes, Dated
<1>. HIDE DEF newest
<1>. QED BY <1>1, <1>2, <1>3

\* What final_since goes by: a delivery time some mail gave, or else the first
\* of the dated mails with a terminal status.
LEMMA FinalSinceIsTold ==
    ASSUME ParcelsAssumption, TypeOK, HistoryKept, FieldsFromMails, OnRecord
    PROVE  LET since == final_since(record)
           IN /\ since # NoDate =>
                    \/ \E d \in filed : TimeOf[d] = since
                    \/ \E d \in filed : is_terminal(d) /\ Dated(d) /\ DateOf[d] = since
              /\ since = NoDate \/ since \in Nat
              /\ record.time = NoDate =>
                    \A d \in filed : is_terminal(d) /\ Dated(d) =>
                        since # NoDate /\ since <= DateOf[d]
<1>. DEFINE F == {d \in filed : is_terminal(d)}
<1>0. F \subseteq Mail /\ NoDate \notin Nat
  BY HistoryTells DEF ParcelsAssumption
<1>1. record \in Record
  BY DEF TypeOK, OnRecord
<1>2. CASE record.time # NoDate
  BY <1>1, <1>2 DEF final_since, FieldsFromMails, Record
<1>3. CASE record.time = NoDate
  <2>1. final_since(record) = Earliest(Dates(F))
    BY <1>3, HistoryTells DEF final_since
  <2>. HIDE DEF F
  <2>2. CASE Dates(F) = {}
    <3>1. \A d \in F : ~ Dated(d)
      BY <1>0, <2>2, DatesOf
    <3>. QED BY <2>1, <2>2, <3>1 DEF Earliest, F
  <2>3. CASE Dates(F) # {}
    <3>1. Dates(F) \subseteq Nat
      BY <1>0, DatesOf
    <3>2. /\ Earliest(Dates(F)) \in Dates(F)
          /\ \A d \in Dates(F) : Earliest(Dates(F)) <= d
      BY <2>3, <3>1, Earliests
    <3>3. \A d \in F : Dated(d) => Earliest(Dates(F)) <= DateOf[d]
      BY <1>0, <3>2, DatesOf
    <3>4. \E d \in F : Dated(d) /\ DateOf[d] = Earliest(Dates(F))
      BY <1>0, <3>2, DatesOf
    <3>5. final_since(record) \in Nat /\ final_since(record) # NoDate
      BY <1>0, <2>1, <3>1, <3>2
    <3>6. \A d \in filed : is_terminal(d) /\ Dated(d) => final_since(record) <= DateOf[d]
      BY <2>1, <3>3 DEF F
    <3>7. \E d \in filed : is_terminal(d) /\ Dated(d) /\ DateOf[d] = final_since(record)
      BY <2>1, <3>4 DEF F
    <3>. QED BY <3>5, <3>6, <3>7
  <2>. QED BY <2>2, <2>3
<1>. QED BY <1>2, <1>3

-----------------------------------------------------------------------------
(***************************************************************************)
(* Parcels: a merge keeps the invariant                                    *)
(***************************************************************************)

\* What a merge is given.
Merging(m) ==
    /\ ParcelsAssumption /\ ParcelsInv /\ OnRecord
    /\ m \in Mail
    /\ record' = merge(record, m)
    /\ filed' = filed \cup {m}

\* The record stays a record.
LEMMA MergedRecord ==
    ASSUME NEW m, Merging(m)
    PROVE  /\ record \in Record /\ record' \in Record /\ OnRecord'
           /\ filed \subseteq Mail
<1>1. record \in Record /\ m \in Mail /\ filed \subseteq Mail
  BY DEF Merging, ParcelsInv, TypeOK, OnRecord
<1>2. drop_repeated_entries(Append(record.history, m)) \in Seq(Mail)
  BY <1>1, HistoryGrows DEF Merging, ParcelsInv, HistoryKept, Record
<1>3. record' \in Record
  BY <1>1, <1>2 DEF Merging, ParcelsAssumption, merge, Record
<1>. QED BY <1>1, <1>3 DEF Merging, OnRecord, ParcelsAssumption

\* The history has everything that was merged, the new mail too.
LEMMA MergedHistory ==
    ASSUME NEW m, Merging(m)
    PROVE  HistoryKept'
<1>. DEFINE h == record.history
            g == record'.history
<1>1. h \in Seq(Mail) /\ m \in Mail /\ OnRecord /\ OnRecord' /\ filed \subseteq Mail
  BY MergedRecord DEF Record, Merging
<1>2. g = drop_repeated_entries(Append(h, m)) /\ NoRepetitions(h)
  BY DEF Merging, merge, ParcelsInv, HistoryKept
<1>3. /\ NoRepetitions(g)
      /\ Entries(h) \subseteq Entries(g)
      /\ Entries(g) \subseteq Entries(h) \cup {m}
      /\ Dated(m) => \E n \in Entries(g) : is_same_snapshot(n, m)
  <2>. HIDE DEF h, g
  <2>. QED BY <1>1, <1>2, HistoryGrows
<1>4. /\ Entries(h) \subseteq filed
      /\ \A n \in filed : Dated(n) => \E k \in Entries(h) : is_same_snapshot(k, n)
      /\ Dates(filed) = {} \/ HasLatest(Dates(filed))
  BY DEF Merging, ParcelsInv, HistoryKept
<1>5. filed' = filed \cup {m}
  BY DEF Merging
<1>6. Dates(filed') = {} \/ HasLatest(Dates(filed'))
  <2>1. CASE DateOf[m] = NoDate
    <3>1. Dates(filed') = Dates(filed)
      BY <1>5, <2>1 DEF Dates
    <3>. QED BY <1>4, <3>1
  <2>2. CASE DateOf[m] # NoDate
    <3>1. Dates(filed') = Dates(filed) \cup {DateOf[m]}
      BY <1>5, <2>2 DEF Dates
    <3>2. Dates(filed) \subseteq Nat /\ DateOf[m] \in Nat
      BY <1>1, <2>2, DatesOf DEF Merging, ParcelsAssumption
    <3>. QED BY <1>4, <3>1, <3>2, LatestOfMore
  <2>. QED BY <2>1, <2>2
<1>7. /\ Entries(g) \subseteq filed'
      /\ \A n \in filed' : Dated(n) => \E k \in Entries(g) : is_same_snapshot(k, n)
  <2>. HIDE DEF h, g
  <2>. QED BY <1>3, <1>4, <1>5
<1>8. NoRepetitions(record.history)'
  BY <1>3 DEF NoRepetitions, Dated, is_same_snapshot
<1>9. (Entries(record.history) \subseteq filed)'
  BY <1>7 DEF Entries
<1>10. (\A n \in filed : Dated(n) =>
           \E k \in Entries(record.history) : is_same_snapshot(k, n))'
  BY <1>7 DEF Entries, Dated, is_same_snapshot
<1>11. (Dates(filed) = {} \/ HasLatest(Dates(filed)))'
  BY <1>6 DEF Dates, HasLatest
<1>. QED BY <1>1, <1>8, <1>9, <1>10, <1>11 DEF HistoryKept

\* What the record says, some merged mail said.
LEMMA MergedFields ==
    ASSUME NEW m, Merging(m)
    PROVE  FieldsFromMails'
<1>1. record \in Record /\ record' \in Record /\ m \in Mail /\ filed \subseteq Mail
  BY MergedRecord DEF Merging
<1>2. filed' = filed \cup {m} /\ record' = merge(record, m) /\ NoMail \notin Mail
  BY DEF Merging, ParcelsAssumption
<1>3. /\ record.received # NoDate => record.received \in Dates(filed)
      /\ record.state # NoMail => record.state \in filed /\ StatusOf[record.state] # NoStatus
      /\ record.state = NoMail => \E n \in filed : StatusOf[n] = NoStatus
      /\ record.time # NoDate => \E n \in filed : TimeOf[n] = record.time
      /\ record.carrier # NoMail => record.carrier \in filed
  BY DEF Merging, ParcelsInv, FieldsFromMails
<1>4. record'.received # NoDate => record'.received \in Dates(filed')
  BY <1>2, <1>3 DEF merge, Dates
<1>5. /\ record'.state # NoMail => record'.state \in filed' /\ StatusOf[record'.state] # NoStatus
      /\ record'.state = NoMail => \E n \in filed' : StatusOf[n] = NoStatus
  <2>1. record'.state = record.state \/ (record'.state = m /\ StatusOf[m] # NoStatus)
    BY <1>2 DEF merge
  <2>. QED BY <1>1, <1>2, <1>3, <2>1
<1>6. record'.time # NoDate => \E n \in filed' : TimeOf[n] = record'.time
  <2>1. record'.time = record.time \/ record'.time = TimeOf[m]
    BY <1>2 DEF merge
  <2>. QED BY <1>2, <1>3, <2>1
<1>7. record'.carrier # NoMail => record'.carrier \in filed'
  <2>1. record'.carrier = record.carrier \/ record'.carrier = m
    BY <1>2 DEF merge
  <2>. QED BY <1>2, <1>3, <2>1
<1>8. (record.received # NoDate => record.received \in Dates(filed))'
  BY <1>4 DEF Dates
<1>. QED BY <1>5, <1>6, <1>7, <1>8 DEF FieldsFromMails

(***************************************************************************)
(* A merge that is not stale makes the mail the newest; a stale one is     *)
(* older than some mail, or not later than the delivery, which is not      *)
(* later than the mail that told of it.                                    *)
(***************************************************************************)
LEMMA MergedStatus ==
    ASSUME NEW m, Merging(m)
    PROVE  StatusIsNewest'
<1>1. /\ record \in Record /\ m \in Mail /\ filed \subseteq Mail
      /\ ParcelsAssumption /\ TypeOK /\ HistoryKept /\ FieldsFromMails /\ OnRecord
  BY MergedRecord DEF Merging, ParcelsInv
<1>2. filed' = filed \cup {m} /\ record' = merge(record, m)
  BY DEF Merging
<1>. SUFFICES
       ASSUME \A n \in filed' : /\ Dated(n)
                                /\ StatusOf[n] # NoStatus
                                /\ TimeOf[n] # NoDate => TimeOf[n] <= DateOf[n]
       PROVE  \A n \in filed' : DateOf[record'.state] >= DateOf[n]
  BY DEF StatusIsNewest, Dated
<1>3. /\ \A n \in filed : Dated(n) /\ DateOf[n] \in Nat
      /\ Dated(m) /\ DateOf[m] \in Nat /\ StatusOf[m] # NoStatus
  BY <1>1, <1>2 DEF ParcelsAssumption, Dated
<1>4. /\ \A n \in filed : DateOf[record.state] >= DateOf[n]
      /\ record.state \in filed
  <2>1. StatusIsNewest
    BY DEF Merging, ParcelsInv
  <2>2. \A n \in filed : StatusOf[n] # NoStatus
    BY <1>2
  <2>. QED BY <1>1, <1>2, <2>1, <2>2 DEF StatusIsNewest, FieldsFromMails
<1>5. CASE is_older(record, m)
  <2>1. record'.state = record.state
    BY <1>2, <1>5 DEF merge, is_stale
  <2>2. PICK n \in filed : DateOf[n] > DateOf[m]
    BY <1>1, <1>5, OlderThanSome
  <2>. QED BY <1>2, <1>3, <1>4, <2>1, <2>2
<1>6. CASE ~ is_older(record, m) /\ is_stale(record, m)
  <2>1. record'.state = record.state
    BY <1>2, <1>6 DEF merge
  <2>. DEFINE since == final_since(record)
  <2>2. is_terminal(record.state) /\ (since # NoDate => ~ (DateOf[m] > since))
    BY <1>3, <1>6 DEF is_stale
  <2>3. since \in Nat /\ since # NoDate /\ since <= DateOf[record.state]
    <3>1. CASE record.time = NoDate
      BY <1>1, <1>3, <1>4, <2>2, <3>1, FinalSinceIsTold DEF ParcelsAssumption
    <3>2. CASE record.time # NoDate
      <4>1. since = record.time /\ record.time \in Nat
        BY <1>1, <3>2 DEF final_since, Record
      <4>2. PICK d \in filed : TimeOf[d] = record.time
        BY <1>1, <3>2 DEF FieldsFromMails
      <4>3. TimeOf[d] <= DateOf[d]
        BY <1>2, <3>2, <4>2
      <4>. HIDE DEF since
      <4>. QED BY <1>3, <1>4, <3>2, <4>1, <4>2, <4>3
    <3>. QED BY <3>1, <3>2
  <2>4. DateOf[m] <= DateOf[record.state]
    <3>. HIDE DEF since
    <3>. QED BY <1>3, <1>4, <2>2, <2>3
  <2>. QED BY <1>2, <1>3, <1>4, <2>1, <2>4
<1>7. CASE ~ is_stale(record, m)
  <2>1. record'.state = m /\ ~ is_older(record, m)
    BY <1>2, <1>3, <1>7 DEF merge, is_stale
  <2>. QED BY <1>1, <1>2, <1>3, <2>1, NotOlderThanAny
<1>. QED BY <1>5, <1>6, <1>7

\* Whatever takes the parcel out of a terminal state is dated after it.
LEMMA MergedDelivered ==
    ASSUME NEW m, Merging(m)
    PROVE  DeliveredStays'
<1>1. /\ record \in Record /\ m \in Mail /\ filed \subseteq Mail
      /\ ParcelsAssumption /\ TypeOK /\ HistoryKept /\ FieldsFromMails /\ OnRecord
  BY MergedRecord DEF Merging, ParcelsInv
<1>2. filed' = filed \cup {m} /\ record' = merge(record, m)
  BY DEF Merging
<1>. DEFINE Back(n, d) ==
              /\ ~ is_terminal(n) /\ Dated(n)
              /\ \/ is_terminal(d) /\ Dated(d) /\ DateOf[n] > DateOf[d]
                 \/ TimeOf[d] # NoDate /\ DateOf[n] > TimeOf[d]
<1>. SUFFICES ASSUME ~ is_terminal(record'.state), \E n \in filed' : is_terminal(n)
              PROVE  \E n, d \in filed' : Back(n, d)
  BY DEF DeliveredStays, is_terminal, Dated
<1>3. ~ is_terminal(record.state) /\ (\E n \in filed : is_terminal(n)) =>
          \E n, d \in filed : Back(n, d)
  BY <1>1 DEF Merging, ParcelsInv, DeliveredStays
<1>4. CASE record'.state = record.state
  <2>1. CASE \E n \in filed : is_terminal(n)
    BY <1>2, <1>3, <1>4, <2>1
  <2>2. CASE \A n \in filed : ~ is_terminal(n)
    <3>1. is_terminal(m) /\ StatusOf[m] # NoStatus
      BY <1>1, <1>2, <2>2 DEF is_terminal, ParcelsAssumption, Status
    <3>2. record.state # m
      BY <1>4, <3>1
    <3>3. is_older(record, m)
      BY <1>2, <1>4, <3>1, <3>2 DEF merge, is_stale
    <3>4. Dated(m) /\ \E n \in filed : Dated(n) /\ DateOf[n] > DateOf[m]
      BY <1>1, <3>3, OlderThanSome
    <3>. QED BY <1>2, <2>2, <3>1, <3>4
  <2>. QED BY <2>1, <2>2
<1>5. CASE record'.state # record.state
  <2>1. record'.state = m /\ ~ is_stale(record, m) /\ ~ is_terminal(m)
    BY <1>2, <1>5 DEF merge
  <2>2. CASE is_terminal(record.state)
    <3>1. /\ Dated(m) /\ final_since(record) # NoDate
          /\ DateOf[m] > final_since(record)
      BY <2>1, <2>2 DEF is_stale
    <3>2. \/ \E d \in filed : TimeOf[d] = final_since(record)
          \/ \E d \in filed : is_terminal(d) /\ Dated(d) /\ DateOf[d] = final_since(record)
      BY <1>1, <3>1, FinalSinceIsTold
    <3>3. m \in filed' /\ \A d \in filed : d \in filed'
      BY <1>2
    <3>. QED BY <2>1, <3>1, <3>2, <3>3
  <2>3. CASE ~ is_terminal(record.state)
    BY <1>2, <1>3, <2>1, <2>3
  <2>. QED BY <2>2, <2>3
<1>. QED BY <1>4, <1>5

\* The carrier is replaced by the word of a mail that is not older.
LEMMA MergedCarrier ==
    ASSUME NEW m, Merging(m), record'.carrier # record.carrier, record.carrier # NoMail
    PROVE  ~ supersedes(DateOf[record.carrier], DateOf[record'.carrier])
<1>1. /\ m \in Mail /\ filed \subseteq Mail
      /\ ParcelsAssumption /\ TypeOK /\ HistoryKept /\ FieldsFromMails /\ OnRecord
  BY MergedRecord DEF Merging, ParcelsInv
<1>2. record'.carrier = m /\ ~ is_older(record, m)
  BY DEF Merging, merge
<1>3. record.carrier \in filed
  BY <1>1 DEF FieldsFromMails
<1>4. SUFFICES ASSUME Dated(record.carrier), Dated(m)
               PROVE  ~ (DateOf[record.carrier] > DateOf[m])
  BY <1>2 DEF supersedes, Dated
<1>5. DateOf[record.carrier] <= DateOf[m]
  BY <1>1, <1>2, <1>3, <1>4, NotOlderThanAny
<1>6. DateOf[record.carrier] \in Nat /\ DateOf[m] \in Nat
  BY <1>1, <1>3, <1>4 DEF ParcelsAssumption, Dated
<1>. QED BY <1>5, <1>6

-----------------------------------------------------------------------------
(***************************************************************************)
(* Parcels: the steps that do not merge                                    *)
(***************************************************************************)

\* The parts of the invariant that are about the record.
RecordInv ==
    HistoryKept /\ FieldsFromMails /\ (OnRecord => StatusIsNewest) /\ DeliveredStays

\* The first mail makes a record that says what the mail says.
LEMMA Created ==
    ASSUME ParcelsAssumption, ParcelsInv, ~ OnRecord, NEW m \in Mail,
           record' = with_initial_history(m), filed' = filed \cup {m}
    PROVE  record' \in Record /\ OnRecord' /\ RecordInv'
<1>1. filed' = {m}
  BY DEF ParcelsInv, HistoryKept
<1>2. record' \in Record
  BY DEF ParcelsAssumption, with_initial_history, Record
<1>3. OnRecord'
  BY <1>2 DEF OnRecord, ParcelsAssumption
<1>4. /\ record'.history = <<m>> /\ Len(<<m>>) = 1 /\ DOMAIN <<m>> = {1} /\ <<m>>[1] = m
      /\ record'.received = DateOf[m]
      /\ record'.state = IF StatusOf[m] = NoStatus THEN NoMail ELSE m
      /\ record'.time = TimeOf[m]
      /\ record'.carrier = NoMail \/ record'.carrier = m
  BY DEF with_initial_history
<1>5. HistoryKept'
  <2>1. NoRepetitions(record.history)'
    BY <1>4 DEF NoRepetitions
  <2>2. Entries(record'.history) = {m}
    BY <1>4 DEF Entries
  <2>3. (Entries(record.history) \subseteq filed)'
    BY <1>1, <2>2 DEF Entries
  <2>4. (\A n \in filed : Dated(n) =>
             \E k \in Entries(record.history) : is_same_snapshot(k, n))'
    BY <1>1, <2>2 DEF Entries, is_same_snapshot
  <2>5. (Dates(filed) = {} \/ HasLatest(Dates(filed)))'
    <3>1. CASE DateOf[m] = NoDate
      BY <1>1, <3>1 DEF Dates
    <3>2. CASE DateOf[m] # NoDate
      <4>1. DateOf[m] \in Nat
        BY <3>2 DEF ParcelsAssumption
      <4>2. Dates({m}) = {DateOf[m]}
        BY <3>2 DEF Dates
      <4>3. HasLatest({DateOf[m]})
        BY <4>1 DEF HasLatest
      <4>4. HasLatest(Dates({m}))
        BY <4>2, <4>3
      <4>. QED BY <1>1, <4>4 DEF Dates, HasLatest
    <3>. QED BY <3>1, <3>2
  <2>. QED BY <1>3, <2>1, <2>3, <2>4, <2>5 DEF HistoryKept
<1>6. FieldsFromMails'
  <2>1. (record.received # NoDate => record.received \in Dates(filed))'
    BY <1>1, <1>4 DEF Dates
  <2>2. (record.state # NoMail => record.state \in filed /\ StatusOf[record.state] # NoStatus)'
    BY <1>1, <1>4
  <2>3. (record.state = NoMail => \E n \in filed : StatusOf[n] = NoStatus)'
    BY <1>1, <1>4 DEF ParcelsAssumption
  <2>4. (record.time # NoDate => \E n \in filed : TimeOf[n] = record.time)'
    BY <1>1, <1>4
  <2>5. (record.carrier # NoMail => record.carrier \in filed)'
    BY <1>1, <1>4
  <2>. QED BY <2>1, <2>2, <2>3, <2>4, <2>5 DEF FieldsFromMails
<1>7. StatusIsNewest'
  <2>. SUFFICES ASSUME Dated(m), StatusOf[m] # NoStatus
                PROVE  DateOf[record'.state] >= DateOf[m]
    BY <1>1 DEF StatusIsNewest, Dated
  <2>. QED BY <1>4 DEF ParcelsAssumption, Dated
<1>8. DeliveredStays'
  <2>1. is_terminal(m) => record'.state = m
    BY <1>4 DEF is_terminal, ParcelsAssumption, Status
  <2>. QED BY <1>1, <2>1 DEF DeliveredStays, is_terminal
<1>. QED BY <1>2, <1>3, <1>5, <1>6, <1>7, <1>8 DEF RecordInv

\* What is about the record does not depend on anything else.
LEMMA RecordStays ==
    ASSUME RecordInv, record' = record, filed' = filed
    PROVE  RecordInv' /\ (OnRecord <=> OnRecord')
<1>1. OnRecord <=> OnRecord'
  BY DEF OnRecord
<1>2. HistoryKept'
  <2>1. HistoryKept
    BY DEF RecordInv
  <2>2. NoRepetitions(record.history) => NoRepetitions(record.history)'
    BY DEF NoRepetitions, Dated, is_same_snapshot
  <2>3. Entries(record.history) \subseteq filed => (Entries(record.history) \subseteq filed)'
    BY DEF Entries
  <2>4. (\A n \in filed : Dated(n) =>
             \E k \in Entries(record.history) : is_same_snapshot(k, n))
        => (\A n \in filed : Dated(n) =>
             \E k \in Entries(record.history) : is_same_snapshot(k, n))'
    BY DEF Entries, Dated, is_same_snapshot
  <2>5. (Dates(filed) = {} \/ HasLatest(Dates(filed)))
        => (Dates(filed) = {} \/ HasLatest(Dates(filed)))'
    BY DEF Dates, HasLatest
  <2>. QED BY <1>1, <2>1, <2>2, <2>3, <2>4, <2>5 DEF HistoryKept
<1>3. FieldsFromMails'
  BY <1>1 DEF RecordInv, FieldsFromMails, Dates
<1>4. (OnRecord => StatusIsNewest)'
  BY <1>1 DEF RecordInv, StatusIsNewest, Dated
<1>5. DeliveredStays'
  BY <1>1 DEF RecordInv, DeliveredStays, is_terminal, Dated
<1>. QED BY <1>1, <1>2, <1>3, <1>4, <1>5 DEF RecordInv

\* A worker that returns leaves the others as they are.
LEMMA Returns ==
    ASSUME TypeOK, BusyHasMail, OneRegisters, NEW w \in Worker, Return(w),
           tried' = tried, OnRecord => OnRecord'
    PROVE  /\ pc' \in [Worker -> {"idle", "file", "register"}]
           /\ mail' \in [Worker -> Mail \cup {NoMail}]
           /\ sinks' \in [Worker -> SUBSET Tracker]
           /\ BusyHasMail'
           /\ OneRegisters'
<1>1. /\ pc' \in [Worker -> {"idle", "file", "register"}]
      /\ mail' \in [Worker -> Mail \cup {NoMail}]
      /\ sinks' \in [Worker -> SUBSET Tracker]
  BY DEF Return, TypeOK
<1>2. \A v \in Worker : IF v = w THEN pc'[v] = "idle"
                        ELSE pc'[v] = pc[v] /\ mail'[v] = mail[v] /\ sinks'[v] = sinks[v]
  BY DEF Return, TypeOK
<1>3. BusyHasMail'
  BY <1>2 DEF BusyHasMail
<1>4. (\A u, v \in Worker : pc[u] = "register" /\ pc[v] = "register" => u = v)'
  BY <1>2 DEF OneRegisters
<1>5. (\A v \in Worker : pc[v] = "register" =>
           OnRecord /\ \A t \in Tracker : tried[t] = IF t \in sinks[v] THEN 0 ELSE 1)'
  BY <1>2 DEF OneRegisters
<1>6. (~ OnRecord => \A t \in Tracker : tried[t] = 0)'
  BY DEF OneRegisters
<1>. QED BY <1>1, <1>3, <1>4, <1>5, <1>6 DEF OneRegisters

-----------------------------------------------------------------------------
(***************************************************************************)
(* Parcels: the theorems                                                   *)
(***************************************************************************)

\* Nothing is on file, and nobody at work, at the start.
LEMMA ParcelsInit == ASSUME ParcelsAssumption, Init PROVE ParcelsInv
<1>1. ~ OnRecord /\ filed = {}
  BY DEF Init, OnRecord
<1>2. TypeOK
  BY DEF Init, TypeOK
<1>3. Dates(filed) = {}
  BY <1>1 DEF Dates
<1>. QED BY <1>1, <1>2, <1>3
         DEF Init, ParcelsInv, BusyHasMail, HistoryKept, FieldsFromMails, OneRegisters,
             DeliveredStays

\* Every step keeps the invariant.
LEMMA ParcelsInvStep ==
    ASSUME ParcelsAssumption, ParcelsInv, [Next]_vars
    PROVE  ParcelsInv'
<1>1. /\ TypeOK /\ BusyHasMail /\ OneRegisters /\ RecordInv
      /\ OnRecord <=> record # NoRecord
  BY DEF ParcelsInv, RecordInv, OnRecord
\* ParcelsInv from its parts.
<1>2. TypeOK' /\ BusyHasMail' /\ OneRegisters' /\ RecordInv' => ParcelsInv'
  BY DEF ParcelsInv, RecordInv
<1>3. ASSUME NEW w \in Worker, NEW m \in Mail, Begin(w, m)
      PROVE  ParcelsInv'
  <2>1. RecordInv' /\ (OnRecord <=> OnRecord')
    BY <1>1, <1>3, RecordStays DEF Begin
  <2>2. TypeOK'
    BY <1>1, <1>3 DEF Begin, TypeOK
  <2>3. BusyHasMail'
    BY <1>1, <1>3 DEF Begin, BusyHasMail, TypeOK
  <2>4. \A v \in Worker : pc'[v] = "register" => pc[v] = "register"
    BY <1>1, <1>3 DEF Begin, TypeOK
  <2>5. OneRegisters'
    BY <1>1, <1>3, <2>1, <2>4 DEF Begin, OneRegisters
  <2>. QED BY <1>2, <2>1, <2>2, <2>3, <2>5
<1>4. ASSUME NEW w \in Worker, Create(w)
      PROVE  ParcelsInv'
  <2>1. mail[w] \in Mail /\ ~ OnRecord
    BY <1>1, <1>4 DEF Create, BusyHasMail
  <2>2. record' \in Record /\ OnRecord' /\ RecordInv'
    <3>1. PICK m \in Mail : m = mail[w]
      BY <2>1
    <3>. QED BY <1>4, <2>1, <3>1, Created DEF Create
  <2>3. filed' \subseteq Mail /\ tried' \in [Tracker -> Nat] /\ tried' = tried
    BY <1>1, <1>4, <2>1 DEF Create, TypeOK
  <2>4. CASE mail[w] \in HasCarrier
    <3>1. /\ pc' = [pc EXCEPT ![w] = "register"]
          /\ sinks' = [sinks EXCEPT ![w] = Tracker]
          /\ mail' = mail
      BY <1>4, <2>4 DEF Create
    <3>2. TypeOK'
      BY <1>1, <2>2, <2>3, <3>1 DEF TypeOK
    <3>3. BusyHasMail'
      BY <1>1, <2>1, <3>1 DEF BusyHasMail, TypeOK
    <3>4. \A v \in Worker : pc'[v] = "register" <=> v = w
      BY <1>1, <2>1, <3>1 DEF OneRegisters, TypeOK
    <3>5. sinks'[w] = Tracker
      BY <1>1, <3>1 DEF TypeOK
    <3>6. \A t \in Tracker : tried'[t] = 0
      BY <1>1, <2>1, <2>3 DEF OneRegisters
    <3>7. OneRegisters'
      BY <2>2, <3>4, <3>5, <3>6 DEF OneRegisters
    <3>. QED BY <1>2, <2>2, <3>2, <3>3, <3>7
  <2>5. CASE mail[w] \notin HasCarrier
    <3>1. Return(w)
      BY <1>4, <2>5 DEF Create
    <3>2. /\ pc' \in [Worker -> {"idle", "file", "register"}]
          /\ mail' \in [Worker -> Mail \cup {NoMail}]
          /\ sinks' \in [Worker -> SUBSET Tracker]
          /\ BusyHasMail' /\ OneRegisters'
      BY <1>1, <2>2, <2>3, <3>1, Returns
    <3>3. TypeOK'
      BY <2>2, <2>3, <3>2 DEF TypeOK
    <3>. QED BY <1>2, <2>2, <3>2, <3>3
  <2>. QED BY <2>4, <2>5
<1>5. ASSUME NEW w \in Worker, Update(w)
      PROVE  ParcelsInv'
  <2>1. mail[w] \in Mail /\ OnRecord
    BY <1>1, <1>5 DEF Update, BusyHasMail
  <2>2. PICK m \in Mail : Merging(m)
    BY <1>5, <2>1 DEF Merging, Update
  <2>3. record' \in Record /\ OnRecord'
    BY <2>2, MergedRecord
  <2>4. HistoryKept' /\ FieldsFromMails' /\ StatusIsNewest' /\ DeliveredStays'
    BY <2>2, MergedHistory, MergedFields, MergedStatus, MergedDelivered
  <2>5. RecordInv'
    BY <2>4 DEF RecordInv
  <2>6. filed' \subseteq Mail /\ tried' \in [Tracker -> Nat] /\ tried' = tried
    BY <1>1, <1>5, <2>1 DEF Update, TypeOK
  <2>7. /\ pc' \in [Worker -> {"idle", "file", "register"}]
        /\ mail' \in [Worker -> Mail \cup {NoMail}]
        /\ sinks' \in [Worker -> SUBSET Tracker]
        /\ BusyHasMail' /\ OneRegisters'
    <3>1. Return(w)
      BY <1>5 DEF Update
    <3>. QED BY <1>1, <2>3, <2>6, <3>1, Returns
  <2>8. TypeOK'
    BY <2>3, <2>6, <2>7 DEF TypeOK
  <2>. QED BY <1>2, <2>5, <2>7, <2>8
<1>6. ASSUME NEW w \in Worker, NEW t \in Tracker, register_best_effort(w, t)
      PROVE  ParcelsInv'
  <2>1. RecordInv' /\ (OnRecord <=> OnRecord')
    BY <1>1, <1>6, RecordStays DEF register_best_effort
  <2>2. /\ pc[w] = "register" /\ t \in sinks[w] /\ pc' = pc /\ mail' = mail
        /\ tried' = [tried EXCEPT ![t] = @ + 1]
        /\ sinks' = [sinks EXCEPT ![w] = @ \ {t}]
    BY <1>6 DEF register_best_effort
  <2>3. TypeOK'
    BY <1>1, <1>6, <2>2 DEF register_best_effort, TypeOK
  <2>4. BusyHasMail'
    BY <1>1, <2>2 DEF BusyHasMail
  <2>5. /\ OnRecord
        /\ \A v \in Worker : pc[v] = "register" => v = w
        /\ \A u \in Tracker : tried[u] = IF u \in sinks[w] THEN 0 ELSE 1
    BY <1>1, <2>2 DEF OneRegisters
  <2>6. /\ sinks'[w] = sinks[w] \ {t}
        /\ \A u \in Tracker : tried'[u] = IF u = t THEN tried[u] + 1 ELSE tried[u]
    BY <1>1, <2>2 DEF TypeOK
  <2>7. \A u \in Tracker : tried'[u] = IF u \in sinks'[w] THEN 0 ELSE 1
    BY <2>2, <2>5, <2>6
  <2>8. OneRegisters'
    BY <2>1, <2>2, <2>5, <2>7 DEF OneRegisters
  <2>. QED BY <1>2, <2>1, <2>3, <2>4, <2>8
<1>7. ASSUME NEW w \in Worker, Registered(w) \/ Fail(w)
      PROVE  ParcelsInv'
  <2>1. Return(w) /\ record' = record /\ tried' = tried /\ filed' = filed
    BY <1>7 DEF Registered, Fail
  <2>2. RecordInv' /\ (OnRecord <=> OnRecord')
    BY <1>1, <2>1, RecordStays
  <2>3. /\ pc' \in [Worker -> {"idle", "file", "register"}]
        /\ mail' \in [Worker -> Mail \cup {NoMail}]
        /\ sinks' \in [Worker -> SUBSET Tracker]
        /\ BusyHasMail' /\ OneRegisters'
    BY <1>1, <2>1, <2>2, Returns
  <2>4. TypeOK'
    BY <1>1, <2>1, <2>3 DEF TypeOK
  <2>. QED BY <1>2, <2>2, <2>3, <2>4
<1>8. CASE UNCHANGED vars
  <2>1. RecordInv' /\ (OnRecord <=> OnRecord')
    BY <1>1, <1>8, RecordStays DEF vars
  <2>2. TypeOK' /\ BusyHasMail' /\ OneRegisters'
    BY <1>1, <1>8, <2>1 DEF vars, TypeOK, BusyHasMail, OneRegisters
  <2>. QED BY <1>2, <2>1, <2>2
<1>. QED BY <1>3, <1>4, <1>5, <1>6, <1>7, <1>8 DEF Next, Step

\* The invariant holds throughout.
LEMMA ParcelsInvariant == ASSUME ParcelsAssumption PROVE Spec => []ParcelsInv
<1>1. Init => ParcelsInv
  BY ParcelsInit
<1>2. ParcelsInv /\ [Next]_vars => ParcelsInv'
  BY ParcelsInvStep
<1>. QED BY <1>1, <1>2, PTL DEF Spec

\* The record, the workers and the trackers have the values they should.
THEOREM ParcelsTypeCorrect == ASSUME ParcelsAssumption PROVE Spec => []TypeOK
<1>1. ParcelsInv => TypeOK
  BY DEF ParcelsInv
<1>. QED BY <1>1, ParcelsInvariant, PTL

(***************************************************************************)
(* Whatever order the mails come in, a delivered or returned parcel is in  *)
(* transit again only on the word of a mail dated after a dated delivery.  *)
(***************************************************************************)
THEOREM DeliveredParcelStays == ASSUME ParcelsAssumption PROVE Spec => []DeliveredStays
<1>1. ParcelsInv => DeliveredStays
  BY DEF ParcelsInv
<1>. QED BY <1>1, ParcelsInvariant, PTL

(***************************************************************************)
(* However often the mailbox is scanned, the history has each dated mail   *)
(* once: it has it (HistoryKept) and no two entries are the same           *)
(* (NoRepetitions).                                                        *)
(***************************************************************************)
THEOREM RescansAddNothing == ASSUME ParcelsAssumption PROVE Spec => []HistoryHasEachOnce
<1>1. ASSUME ParcelsInv PROVE HistoryHasEachOnce
  <2>. SUFFICES ASSUME OnRecord, NEW m \in filed, Dated(m)
                PROVE  Cardinality({i \in DOMAIN record.history :
                                       is_same_snapshot(record.history[i], m)}) = 1
    BY DEF HistoryHasEachOnce
  <2>. DEFINE h == record.history
              At == {i \in DOMAIN h : is_same_snapshot(h[i], m)}
  <2>1. h \in Seq(Mail) /\ NoRepetitions(h)
    BY <1>1 DEF ParcelsInv, HistoryKept, TypeOK, OnRecord, Record
  <2>2. DOMAIN h = 1 .. Len(h) /\ Len(h) \in Nat
    BY <2>1, LenProperties
  <2>3. PICK i \in At : TRUE
    BY <1>1 DEF ParcelsInv, HistoryKept, Entries
  <2>4. ASSUME NEW j \in At, NEW k \in At PROVE ~ (j < k)
    <3>1. j \in 1 .. Len(h) /\ k \in 1 .. Len(h)
      BY <2>2
    <3>2. is_same_snapshot(h[j], h[k]) /\ Dated(h[k])
      BY DEF is_same_snapshot, Dated
    <3>3. j < k => j \in 1 .. k - 1
      BY <2>2, <3>1
    <3>. QED BY <2>1, <3>1, <3>2, <3>3 DEF NoRepetitions
  <2>5. At = {i}
    <3>1. \A j \in At : j \in Nat
      BY <2>2
    <3>. HIDE DEF At
    <3>2. \A j \in At : j = i
      BY <2>3, <2>4, <3>1
    <3>. QED BY <2>3, <3>2
  <2>. QED BY <2>5, FS_Singleton
<1>. QED BY <1>1, ParcelsInvariant, PTL

(***************************************************************************)
(* The newest mail has the say, in status and carrier, in whatever order   *)
(* the mails are merged.                                                   *)
(***************************************************************************)
THEOREM NewestMailDecides == ASSUME ParcelsAssumption PROVE Spec => NewestHasTheSay
<1>1. ParcelsInv => (OnRecord => StatusIsNewest)
  BY DEF ParcelsInv
<1>2. ASSUME ParcelsInv, [Next]_vars, OnRecord,
             record'.carrier # record.carrier, record.carrier # NoMail
      PROVE  ~ supersedes(DateOf[record.carrier], DateOf[record'.carrier])
  <2>1. PICK w \in Worker : Update(w)
    BY <1>2 DEF Next, Step, Begin, Create, register_best_effort, Registered, Fail,
                OnRecord, vars
  <2>2. PICK m \in Mail : Merging(m)
    BY <1>2, <2>1 DEF ParcelsInv, BusyHasMail, Merging, Update
  <2>. QED BY <1>2, <2>2, MergedCarrier
<1>3. ParcelsInv /\ [Next]_vars =>
         [OnRecord /\ record'.carrier # record.carrier /\ record.carrier # NoMail =>
             ~ supersedes(DateOf[record.carrier], DateOf[record'.carrier])]_vars
  BY <1>2
<1>4. Spec => [](OnRecord => StatusIsNewest)
  BY <1>1, ParcelsInvariant, PTL
<1>5. Spec => CarrierNeverRegresses
  BY <1>3, ParcelsInvariant, PTL DEF Spec, CarrierNeverRegresses
<1>. QED BY <1>4, <1>5 DEF NewestHasTheSay

(***************************************************************************)
(* A worker that gets to the end of its trackers has told each of them,    *)
(* and nobody has told one twice.                                          *)
(***************************************************************************)
THEOREM EveryTrackerIsTold == ASSUME ParcelsAssumption PROVE Spec => FanOutCompletes
<1>1. ASSUME ParcelsInv, NEW w \in Worker, Registered(w), NEW t \in Tracker
      PROVE  tried[t] = 1
  BY <1>1 DEF ParcelsInv, OneRegisters, Registered
<1>2. ParcelsInv =>
         [\A w \in Worker : Registered(w) => \A t \in Tracker : tried[t] = 1]_vars
  BY <1>1
<1>. QED BY <1>2, ParcelsInvariant, PTL DEF Spec, FanOutCompletes

-----------------------------------------------------------------------------
(***************************************************************************)
(* Tickets                                                                 *)
(***************************************************************************)

\* One file is not from a newer message than another.
NotNewer(f, g) == f # None => g # None /\ TicketDate[f] <= TicketDate[g]

Inside == {"locked", "sidecar"}
Putting == {"blob", "check", "put"}

\* A worker that is under way has a ticket, and is where its sink takes it.
JobsKnown ==
    \A w \in Holder :
        /\ t_pc[w] # "idle" => t_job[w] \in Ticket
        /\ t_pc[w] \in Inside => ~ t_setup.remote
        /\ t_pc[w] \in Putting \cup {"merge"} => t_setup.remote

\* The lock of a directory is held by whoever is at work in it.
LockHeld == ~ t_setup.remote => \A w \in Holder : t_pc[w] \in Inside <=> t_lock = w

\* Between its writes a worker has a blob on file that the sidecar is not
\* newer than.
BlobFirst ==
    ~ t_setup.remote =>
        \A w \in Holder : t_pc[w] = "sidecar" =>
            t_blob[T!Target(w)] = t_job[w] /\ ~ T!is_from_newer(t_sidecar, t_job[w])

\* As long as nobody fails, the sidecar is the newest of the files, or the
\* ticket of the worker that is about to write it is.
NewestLast ==
    ~ t_setup.remote /\ ~ t_setup.faulty =>
        /\ (\A w \in Holder : t_pc[w] # "sidecar") =>
              /\ \A e \in Ext : NotNewer(t_blob[e], t_sidecar)
              /\ t_sidecar # None => t_blob[ExtOf[t_sidecar]] = t_sidecar
        /\ \A w \in Holder : t_pc[w] = "sidecar" =>
              \A e \in Ext : NotNewer(t_blob[e], t_job[w])

\* What a worker on a WebDAV server relies on, until its PUT of the blob.
RoundTrip ==
    t_setup.remote =>
        \A w \in Holder :
            /\ t_pc[w] \in Putting => NotNewer(t_job[w], t_sidecar)
            /\ t_pc[w] \in {"check", "put"} => NotNewer(t_found[w], t_sidecar)
            /\ t_pc[w] = "put" => ~ T!is_from_newer(t_found[w], t_job[w])

TicketsInv ==
    /\ T!TypeOK
    /\ JobsKnown
    /\ LockHeld
    /\ BlobFirst
    /\ NewestLast
    /\ T!BlobBacksSidecar
    /\ RoundTrip
    /\ T!SidecarVouches
-----------------------------------------------------------------------------

\* With no files, no locks and nobody at work, everything agrees.
LEMMA PairInit == ASSUME T!TicketsAssumption, T!Init PROVE TicketsInv
BY DEF T!TicketsAssumption, T!Init, TicketsInv, T!TypeOK, T!Control, JobsKnown, LockHeld, BlobFirst,
       NewestLast, NotNewer, T!BlobBacksSidecar, RoundTrip, T!SidecarVouches, Inside, Putting

\* A worker that is not between its two writes, or fails there, may return.
LEMMA EndsEarly ==
    ASSUME T!TicketsAssumption, TicketsInv, NEW w \in Holder, T!Return(w),
           UNCHANGED T!files, t_setup' = t_setup, t_pc[w] = "sidecar" => t_setup.faulty
    PROVE  TicketsInv'
<1>. USE DEF TicketsInv, T!Return, T!Goto, T!files, Inside, Putting
<1>1. T!TypeOK'
  BY DEF T!TicketsAssumption, T!TypeOK, T!Control
<1>2. JobsKnown' /\ LockHeld'
  BY DEF T!TicketsAssumption, T!TypeOK, JobsKnown, LockHeld
<1>3. BlobFirst' /\ T!BlobBacksSidecar'
  BY DEF T!TypeOK, BlobFirst, T!BlobBacksSidecar, T!Target, T!is_from_newer
<1>4. NewestLast'
  BY DEF T!TypeOK, NewestLast, NotNewer
<1>5. RoundTrip' /\ T!SidecarVouches'
  BY DEF T!TypeOK, RoundTrip, T!SidecarVouches, NotNewer, T!is_from_newer
<1>. QED BY <1>1, <1>2, <1>3, <1>4, <1>5

\* Every step keeps the invariant.
LEMMA PairStep ==
    ASSUME T!TicketsAssumption, TicketsInv, T!Next
    PROVE  TicketsInv'
<1>. USE DEF T!TicketsAssumption, TicketsInv, T!Goto, T!files, T!Control, Inside, Putting
<1>0. t_setup' = t_setup
  BY DEF T!Next
<1>. USE <1>0
<1>1. ASSUME NEW w \in Holder, NEW t \in Ticket, T!Begin(w, t)
      PROVE  TicketsInv'
  <2>. USE <1>1 DEF T!Begin
  <2>1. T!TypeOK' /\ JobsKnown' /\ LockHeld'
    BY DEF T!TypeOK, JobsKnown, LockHeld
  <2>2. BlobFirst' /\ NewestLast' /\ T!BlobBacksSidecar'
    BY DEF T!TypeOK, BlobFirst, NewestLast, T!BlobBacksSidecar, T!Target, NotNewer, T!is_from_newer
  <2>3. RoundTrip' /\ T!SidecarVouches'
    BY DEF T!TypeOK, RoundTrip, T!SidecarVouches, NotNewer, T!is_from_newer
  <2>. QED BY <2>1, <2>2, <2>3
\* In a directory.
<1>2. ASSUME NEW w \in Holder, T!lock_dir(w)
      PROVE  TicketsInv'
  <2>. USE <1>2 DEF T!lock_dir
  <2>1. T!TypeOK' /\ JobsKnown' /\ LockHeld'
    BY DEF T!TypeOK, JobsKnown, LockHeld
  <2>2. BlobFirst'
    BY DEF T!TypeOK, JobsKnown, LockHeld, BlobFirst, T!Target, T!is_from_newer
  <2>3. NewestLast'
    BY DEF T!TypeOK, JobsKnown, LockHeld, BlobFirst, NewestLast, T!Target, NotNewer, T!is_from_newer
  <2>4. T!BlobBacksSidecar'
    BY DEF T!TypeOK, JobsKnown, LockHeld, BlobFirst, T!BlobBacksSidecar, T!Target, T!is_from_newer
  <2>5. RoundTrip' /\ T!SidecarVouches'
    BY DEF T!TypeOK, JobsKnown, RoundTrip, T!SidecarVouches
  <2>. QED BY <2>1, <2>2, <2>3, <2>4, <2>5
<1>3. ASSUME NEW w \in Holder, T!WriteBlob(w)
      PROVE  TicketsInv'
  <2>. USE <1>3 DEF T!WriteBlob
  <2>1. T!TypeOK' /\ JobsKnown' /\ LockHeld'
    BY DEF T!TypeOK, T!Target, JobsKnown, LockHeld
  <2>2. BlobFirst'
    BY DEF T!TypeOK, JobsKnown, LockHeld, BlobFirst, T!Target, T!is_from_newer
  <2>3. NewestLast'
    BY DEF T!TypeOK, JobsKnown, LockHeld, BlobFirst, NewestLast, T!Target, NotNewer, T!is_from_newer
  <2>4. T!BlobBacksSidecar'
    BY DEF T!TypeOK, JobsKnown, LockHeld, BlobFirst, T!BlobBacksSidecar, T!Target, T!is_from_newer
  <2>5. RoundTrip' /\ T!SidecarVouches'
    BY DEF T!TypeOK, JobsKnown, RoundTrip, T!SidecarVouches
  <2>. QED BY <2>1, <2>2, <2>3, <2>4, <2>5
<1>4. ASSUME NEW w \in Holder, T!WriteSidecar(w)
      PROVE  TicketsInv'
  <2>. USE <1>4 DEF T!WriteSidecar, T!Return
  <2>1. T!TypeOK' /\ JobsKnown' /\ LockHeld'
    BY DEF T!TypeOK, JobsKnown, LockHeld
  <2>2. BlobFirst'
    BY DEF T!TypeOK, JobsKnown, LockHeld, BlobFirst, T!Target, T!is_from_newer
  <2>3. NewestLast'
    BY DEF T!TypeOK, JobsKnown, LockHeld, BlobFirst, NewestLast, T!Target, NotNewer, T!is_from_newer
  <2>4. T!BlobBacksSidecar'
    BY DEF T!TypeOK, JobsKnown, LockHeld, BlobFirst, T!BlobBacksSidecar, T!Target, T!is_from_newer
  <2>5. RoundTrip' /\ T!SidecarVouches'
    BY DEF T!TypeOK, JobsKnown, RoundTrip, T!SidecarVouches
  <2>. QED BY <2>1, <2>2, <2>3, <2>4, <2>5
\* On a WebDAV server.
<1>5. ASSUME NEW w \in Holder, T!GetSidecar(w)
      PROVE  TicketsInv'
  <2>. USE <1>5 DEF T!GetSidecar
  <2>1. t_setup.remote
    BY DEF JobsKnown
  <2>2. T!TypeOK' /\ JobsKnown'
    BY DEF T!TypeOK, JobsKnown
  <2>3. LockHeld' /\ BlobFirst' /\ NewestLast' /\ T!BlobBacksSidecar'
    BY <2>1 DEF LockHeld, BlobFirst, NewestLast, T!BlobBacksSidecar
  <2>4. RoundTrip'
    BY DEF T!TypeOK, JobsKnown, RoundTrip, T!SidecarVouches, T!Target, NotNewer, T!is_from_newer
  <2>5. T!SidecarVouches'
    BY DEF T!TypeOK, JobsKnown, RoundTrip, T!SidecarVouches, T!Target, NotNewer, T!is_from_newer
  <2>. QED BY <2>2, <2>3, <2>4, <2>5
<1>6. ASSUME NEW w \in Holder, T!PutSidecar(w)
      PROVE  TicketsInv'
  <2>. USE <1>6 DEF T!PutSidecar
  <2>1. t_setup.remote
    BY DEF JobsKnown
  <2>2. T!TypeOK' /\ JobsKnown'
    BY DEF T!TypeOK, JobsKnown
  <2>3. LockHeld' /\ BlobFirst' /\ NewestLast' /\ T!BlobBacksSidecar'
    BY <2>1 DEF LockHeld, BlobFirst, NewestLast, T!BlobBacksSidecar
  <2>4. RoundTrip'
    BY DEF T!TypeOK, JobsKnown, RoundTrip, T!SidecarVouches, T!Target, NotNewer, T!is_from_newer
  <2>5. T!SidecarVouches'
    BY DEF T!TypeOK, JobsKnown, RoundTrip, T!SidecarVouches, T!Target, NotNewer, T!is_from_newer
  <2>. QED BY <2>2, <2>3, <2>4, <2>5
<1>7. ASSUME NEW w \in Holder, T!GetBlob(w)
      PROVE  TicketsInv'
  <2>. USE <1>7 DEF T!GetBlob
  <2>1. t_setup.remote
    BY DEF JobsKnown
  <2>2. T!TypeOK' /\ JobsKnown'
    BY DEF T!TypeOK, T!Target, JobsKnown
  <2>3. LockHeld' /\ BlobFirst' /\ NewestLast' /\ T!BlobBacksSidecar'
    BY <2>1 DEF LockHeld, BlobFirst, NewestLast, T!BlobBacksSidecar
  <2>4. RoundTrip'
    BY DEF T!TypeOK, JobsKnown, RoundTrip, T!SidecarVouches, T!Target, NotNewer, T!is_from_newer
  <2>5. T!SidecarVouches'
    BY DEF T!TypeOK, JobsKnown, RoundTrip, T!SidecarVouches, T!Target, NotNewer, T!is_from_newer
  <2>. QED BY <2>2, <2>3, <2>4, <2>5
<1>8. ASSUME NEW w \in Holder, T!filed_from_newer(w)
      PROVE  TicketsInv'
  <2>. USE <1>8 DEF T!filed_from_newer, T!Return
  <2>1. t_setup.remote
    BY DEF JobsKnown
  <2>2. T!TypeOK' /\ JobsKnown'
    BY DEF T!TypeOK, JobsKnown
  <2>3. LockHeld' /\ BlobFirst' /\ NewestLast' /\ T!BlobBacksSidecar'
    BY <2>1 DEF LockHeld, BlobFirst, NewestLast, T!BlobBacksSidecar
  <2>4. RoundTrip'
    BY DEF T!TypeOK, JobsKnown, RoundTrip, T!SidecarVouches, T!Target, NotNewer, T!is_from_newer
  <2>5. T!SidecarVouches'
    BY DEF T!TypeOK, JobsKnown, RoundTrip, T!SidecarVouches, T!Target, NotNewer, T!is_from_newer
  <2>. QED BY <2>2, <2>3, <2>4, <2>5
<1>9. ASSUME NEW w \in Holder, T!PutBlob(w)
      PROVE  TicketsInv'
  <2>. USE <1>9 DEF T!PutBlob, T!Return
  <2>1. t_setup.remote
    BY DEF JobsKnown
  <2>2. T!TypeOK' /\ JobsKnown'
    BY DEF T!TypeOK, T!Target, JobsKnown
  <2>3. LockHeld' /\ BlobFirst' /\ NewestLast' /\ T!BlobBacksSidecar'
    BY <2>1 DEF LockHeld, BlobFirst, NewestLast, T!BlobBacksSidecar
  <2>4. RoundTrip'
    BY DEF T!TypeOK, JobsKnown, RoundTrip, T!SidecarVouches, T!Target, NotNewer, T!is_from_newer
  <2>5. T!SidecarVouches'
    BY DEF T!TypeOK, JobsKnown, RoundTrip, T!SidecarVouches, T!Target, NotNewer, T!is_from_newer
  <2>. QED BY <2>2, <2>3, <2>4, <2>5
\* Whoever else returns has written nothing since, or fails.
<1>10. ASSUME NEW w \in Holder, T!log_kept(w) \/ T!KeepSidecar(w) \/ T!Fail(w)
       PROVE  TicketsInv'
  BY <1>10, EndsEarly DEF T!log_kept, T!KeepSidecar, T!Fail
<1>. QED BY <1>1, <1>2, <1>3, <1>4, <1>5, <1>6, <1>7, <1>8, <1>9, <1>10
         DEF T!Next, T!Local, T!Webdav

\* Nothing changes, and the invariant stays.
LEMMA PairStutter == ASSUME TicketsInv, UNCHANGED T!vars PROVE TicketsInv'
BY DEF T!vars, TicketsInv, T!TypeOK, JobsKnown, LockHeld, BlobFirst, NewestLast, NotNewer, T!Target,
       T!is_from_newer, T!BlobBacksSidecar, RoundTrip, T!SidecarVouches

\* The invariant holds throughout.
LEMMA PairInvariant == ASSUME T!TicketsAssumption PROVE T!Spec => []TicketsInv
<1>1. T!Init => TicketsInv
  BY PairInit
<1>2. TicketsInv /\ [T!Next]_(T!vars) => TicketsInv'
  BY PairStep, PairStutter
<1>. QED BY <1>1, <1>2, PTL DEF T!Spec

-----------------------------------------------------------------------------

\* The files, the workers and the lock have the values they should.
THEOREM TicketsTypeCorrect == ASSUME T!TicketsAssumption PROVE T!Spec => []T!TypeOK
<1>1. TicketsInv => T!TypeOK
  BY DEF TicketsInv
<1>. QED BY <1>1, PairInvariant, PTL

(***************************************************************************)
(* In a directory a worker replaces what the sidecar, or the worker that   *)
(* has the lock, is not older than; on a WebDAV server, what was vouched   *)
(* for before the worker asked the sidecar for the last time.              *)
(***************************************************************************)
LEMMA BlobNeverRegresses ==
    ASSUME T!TicketsAssumption, TicketsInv, T!Next, t_setup.remote \/ ~ t_setup.faulty,
           NEW e \in Ext, t_blob'[e] # None
    PROVE  ~ T!is_from_newer(t_blob[e], t_blob'[e])
<1>1. CASE t_blob' = t_blob
  <2>1. t_blob[e] \in Ticket /\ TicketDate[t_blob[e]] \in Nat
    BY <1>1 DEF TicketsInv, T!TypeOK, T!TicketsAssumption
  <2>. QED BY <1>1, <2>1 DEF T!is_from_newer
<1>2. ASSUME NEW w \in Holder, T!WriteBlob(w)
      PROVE  ~ T!is_from_newer(t_blob[e], t_blob'[e])
  <2>1. ~ t_setup.remote /\ \A v \in Holder : t_pc[v] # "sidecar"
    BY <1>2 DEF T!WriteBlob, TicketsInv, JobsKnown, LockHeld, Inside
  <2>2. NotNewer(t_blob[e], t_sidecar)
    BY <2>1 DEF TicketsInv, NewestLast
  <2>. QED BY <1>2, <2>2 DEF T!WriteBlob, TicketsInv, T!TypeOK, JobsKnown, T!TicketsAssumption,
                             T!Target, NotNewer, T!is_from_newer
<1>3. ASSUME NEW w \in Holder, T!PutBlob(w)
      PROVE  ~ T!is_from_newer(t_blob[e], t_blob'[e])
  <2>1. ~ T!is_from_newer(t_found[w], t_job[w])
    BY <1>3 DEF T!PutBlob, TicketsInv, JobsKnown, RoundTrip, Putting
  <2>. QED BY <1>3, <2>1 DEF T!PutBlob, TicketsInv, T!TypeOK, JobsKnown, T!TicketsAssumption,
                             T!Target, T!is_from_newer
<1>. QED BY <1>1, <1>2, <1>3
         DEF T!Next, T!Begin, T!Local, T!lock_dir, T!log_kept, T!WriteSidecar, T!Webdav, T!GetSidecar,
             T!KeepSidecar, T!PutSidecar, T!GetBlob, T!filed_from_newer, T!Fail, T!files

(***************************************************************************)
(* What a sidecar says of the blobs beside it can be relied on, and        *)
(* nothing newer is lost for it, whichever of the workers die and however  *)
(* their requests interleave.                                              *)
(***************************************************************************)
THEOREM TicketAndSidecarAgree == ASSUME T!TicketsAssumption PROVE T!Spec => TicketsAgree
<1>1. ASSUME TicketsInv PROVE T!PairAgrees /\ T!BlobBacksSidecar /\ T!SidecarVouches
  <2>1. T!PairAgrees
    BY <1>1 DEF T!TicketsAssumption, TicketsInv, LockHeld, NewestLast, T!PairAgrees, Inside
  <2>. QED BY <1>1, <2>1 DEF TicketsInv
<1>2. TicketsInv /\ [T!Next]_(T!vars) =>
         [t_setup.remote \/ ~ t_setup.faulty =>
             \A e \in Ext : t_blob'[e] # None => ~ T!is_from_newer(t_blob[e], t_blob'[e])]_(T!vars)
  BY BlobNeverRegresses
<1>3. T!Spec => [](T!PairAgrees /\ T!BlobBacksSidecar /\ T!SidecarVouches)
  BY <1>1, PairInvariant, PTL
<1>4. T!Spec => T!TicketNeverRegresses
  BY <1>2, PairInvariant, PTL DEF T!Spec, T!TicketNeverRegresses
<1>. QED BY <1>3, <1>4 DEF TicketsAgree, T!TicketsAgree

-----------------------------------------------------------------------------
(***************************************************************************)
(* Receipts                                                                *)
(***************************************************************************)

AtDocument == {"document", "ask", "put"}

ReceiptTypes ==
    /\ r_records \in [R!Place -> Receipt \cup {None}]
    /\ r_documents \in [R!Place -> Receipt \cup {None}]
    /\ r_year \in {1, 2}
    /\ r_at \in [Worker -> {"idle", "record", "pair"} \cup AtDocument]
    /\ r_filing \in [Worker -> Receipt \cup {None}]
    /\ r_place \in [Worker -> R!Place \cup {<<>>}]
    /\ r_beside \in [Worker -> Receipt \cup {None}]
    /\ \A c \in Worker :
          /\ r_at[c] # "idle" => r_filing[c] \in Receipt
          /\ r_at[c] = "pair" => OrderOf[r_filing[c]] \in Order
          /\ r_at[c] \in AtDocument => r_place[c] \in R!Place

\* The record at a place is of that receipt's message, or of a later one.
Backed(p, r) == r_records[p] # None /\ ReceiptDate[r_records[p]] >= ReceiptDate[r]

\* Unless it strayed, a document goes where a record stands up for it.
DocumentsBacked ==
    /\ \A p \in R!Place : r_documents[p] # None =>
          R!Strayed(r_documents[p]) \/ Backed(p, r_documents[p])
    /\ \A c \in Worker : r_at[c] = "pair" =>
          R!Strayed(r_filing[c]) \/ Backed(R!PlaceOf(r_filing[c]), r_filing[c])
    /\ \A c \in Worker : r_at[c] \in AtDocument =>
          R!Strayed(r_filing[c]) \/ Backed(r_place[c], r_filing[c])

\* On a server, what a worker has found in its document's place is backed by
\* the record it asks then, and once it has asked, is not newer.
FoundIsOlder ==
    \A c \in Worker : r_beside[c] # None =>
        /\ r_at[c] \in {"ask", "put"} =>
              R!Strayed(r_beside[c]) \/ Backed(r_place[c], r_beside[c])
        /\ r_at[c] = "put" =>
              R!Strayed(r_beside[c]) \/ ReceiptDate[r_beside[c]] <= ReceiptDate[r_filing[c]]

ReceiptsInv == ReceiptTypes /\ (~ r_how.faulty => DocumentsBacked /\ FoundIsOlder)

-----------------------------------------------------------------------------

\* The place of a receipt that names an order.
LEMMA PlaceOfNamed ==
    ASSUME R!ReceiptsAssumption, r_year \in {1, 2}, NEW r \in Receipt, OrderOf[r] \in Order
    PROVE  R!PlaceOf(r) \in R!Place
BY DEF R!ReceiptsAssumption, R!PlaceOf, R!Place, R!derive_year

\* Everything keeps its type.
LEMMA ReceiptTypesStep ==
    ASSUME R!ReceiptsAssumption, ReceiptTypes, [R!Next]_(R!vars)
    PROVE  ReceiptTypes'
<1>. USE DEF ReceiptTypes, AtDocument, R!Goto
<1>1. ASSUME NEW c \in Worker, NEW r \in Receipt, R!Begin(c, r), r_year' = r_year
      PROVE  ReceiptTypes'
  BY <1>1 DEF R!Begin
<1>2. ASSUME NEW c \in Worker, r_year' = r_year, R!Return(c),
             UNCHANGED <<r_records, r_documents>>
      PROVE  ReceiptTypes'
  BY <1>2 DEF R!Return
<1>3. ASSUME NEW c \in Worker, R!file_receipt(c), r_year' = r_year
      PROVE  ReceiptTypes'
  <2>1. r_filing[c] \in Receipt /\ OrderOf[r_filing[c]] \in Order
    BY <1>3 DEF R!file_receipt, R!ReceiptsAssumption
  <2>2. r_records' \in [R!Place -> Receipt \cup {None}]
    BY <1>3, <2>1, PlaceOfNamed DEF R!file_receipt
  <2>3. r_documents' = r_documents
    BY <1>3 DEF R!file_receipt
  <2>4. CASE R!Return(c)
    BY <1>3, <2>2, <2>3, <2>4 DEF R!Return
  <2>5. CASE UNCHANGED <<r_filing, r_place, r_beside>> /\ r_at' = [r_at EXCEPT ![c] = "pair"]
    BY <1>3, <2>1, <2>2, <2>3, <2>5
  <2>. QED BY <1>3, <2>4, <2>5 DEF R!file_receipt, R!AfterRecord
<1>4. ASSUME NEW c \in Worker, R!paired_name_from_json(c), r_year' = r_year
      PROVE  ReceiptTypes'
  <2>1. R!PlaceOf(r_filing[c]) \in R!Place
    BY <1>4, PlaceOfNamed DEF R!paired_name_from_json
  <2>. QED BY <1>4, <2>1 DEF R!paired_name_from_json
<1>5. ASSUME NEW c \in Worker, R!file_receipt_blob(c), r_year' = r_year
      PROVE  ReceiptTypes'
  BY <1>5 DEF R!file_receipt_blob, R!Return
<1>6. ASSUME NEW c \in Worker, R!GetDocument(c), r_year' = r_year
      PROVE  ReceiptTypes'
  BY <1>6 DEF R!GetDocument
<1>7. ASSUME NEW c \in Worker, R!filed_from_newer(c), r_year' = r_year
      PROVE  ReceiptTypes'
  BY <1>2, <1>7 DEF R!filed_from_newer
<1>8. ASSUME NEW c \in Worker, R!PutDocument(c), r_year' = r_year
      PROVE  ReceiptTypes'
  <2>1. CASE R!Return(c) /\ r_documents' = [r_documents EXCEPT ![r_place[c]] = r_filing[c]]
    BY <1>8, <2>1 DEF R!PutDocument, R!Return
  <2>2. CASE UNCHANGED <<r_documents, r_filing, r_place, r_beside>>
             /\ r_at' = [r_at EXCEPT ![c] = "document"]
    BY <1>8, <2>2 DEF R!PutDocument
  <2>. QED BY <1>8, <2>1, <2>2 DEF R!PutDocument
<1>9. ASSUME NEW c \in Worker, R!Nameless(c) \/ R!forward(c) \/ R!Fails(c), r_year' = r_year
      PROVE  ReceiptTypes'
  BY <1>2, <1>9 DEF R!Nameless, R!forward, R!Fails
<1>10. CASE R!NewYear \/ UNCHANGED R!vars
  BY <1>10 DEF R!NewYear, R!vars
<1>. QED BY <1>1, <1>3, <1>4, <1>5, <1>6, <1>7, <1>8, <1>9, <1>10 DEF R!Next, R!File

\* What stands up for a document does so for good, and what strayed has.
LEMMA BackedForGood ==
    ASSUME R!ReceiptsAssumption, ReceiptTypes, [R!Next]_(R!vars)
    PROVE  /\ \A p \in R!Place, r \in Receipt : Backed(p, r) => Backed(p, r)'
           /\ \A r \in Receipt : R!Strayed(r) => R!Strayed(r)'
<1>1. \A r \in Receipt : R!Strayed(r) => R!Strayed(r)'
  <2>1. r_year = 2 => r_year' = 2
    BY DEF R!Next, R!NewYear, R!vars
  <2>. QED BY <2>1 DEF R!Strayed
<1>2. ASSUME NEW c \in Worker, R!file_receipt(c), NEW p \in R!Place, NEW r \in Receipt,
             Backed(p, r)
      PROVE  Backed(p, r)'
  <2>1. r_filing[c] \in Receipt
    BY <1>2 DEF R!file_receipt, ReceiptTypes
  <2>2. \/ r_records'[p] = r_records[p]
        \/ r_records'[p] = r_filing[c] /\ ~ R!is_from_newer(r_records[p], r_filing[c])
    BY <1>2 DEF R!file_receipt, ReceiptTypes
  <2>3. r_records[p] \in Receipt /\ ReceiptDate[r_records[p]] \in Nat
        /\ ReceiptDate[r_filing[c]] \in Nat /\ ReceiptDate[r] \in Nat
    BY <1>2, <2>1 DEF Backed, ReceiptTypes, R!ReceiptsAssumption
  <2>. QED BY <1>2, <2>1, <2>2, <2>3 DEF Backed, R!is_from_newer, R!ReceiptsAssumption
<1>3. CASE r_records' = r_records
  BY <1>1, <1>3 DEF Backed
<1>4. (\E c \in Worker : R!file_receipt(c)) \/ r_records' = r_records
  BY DEF R!Next, R!File, R!Begin, R!Nameless, R!forward, R!paired_name_from_json,
         R!file_receipt_blob, R!GetDocument, R!filed_from_newer, R!PutDocument, R!Fails,
         R!NewYear, R!vars
<1>. QED BY <1>1, <1>2, <1>3, <1>4

\* As long as no write fails, every document is filed where it is backed.
LEMMA DocumentsBackedStep ==
    ASSUME R!ReceiptsAssumption, ReceiptTypes, DocumentsBacked, ~ r_how.faulty,
           [R!Next]_(R!vars)
    PROVE  DocumentsBacked'
<1>. DEFINE Fine(p) == r_documents[p] # None =>
                         R!Strayed(r_documents[p]) \/ Backed(p, r_documents[p])
            Pairs(c) == r_at[c] = "pair" =>
                         R!Strayed(r_filing[c]) \/ Backed(R!PlaceOf(r_filing[c]), r_filing[c])
            Files(c) == r_at[c] \in AtDocument =>
                         R!Strayed(r_filing[c]) \/ Backed(r_place[c], r_filing[c])
<1>0. /\ \A p \in R!Place : Fine(p)
      /\ \A c \in Worker : Pairs(c) /\ Files(c)
  BY DEF DocumentsBacked
<1>. USE DEF R!Goto
\* A document on file stays backed, and a new one was.
<1>1. ASSUME NEW p \in R!Place PROVE Fine(p)'
  <2>1. \/ r_documents'[p] = r_documents[p]
        \/ \E c \in Worker :
              /\ r_at[c] \in AtDocument /\ r_place[c] = p /\ r_documents'[p] = r_filing[c]
    BY DEF R!Next, R!File, R!Begin, R!Nameless, R!forward, R!file_receipt,
           R!paired_name_from_json, R!file_receipt_blob, R!GetDocument, R!filed_from_newer,
           R!PutDocument, R!Fails, R!NewYear, R!vars, AtDocument, ReceiptTypes
  <2>2. CASE r_documents'[p] = r_documents[p]
    BY <1>0, <2>2, BackedForGood DEF ReceiptTypes
  <2>3. ASSUME NEW c \in Worker, r_at[c] \in AtDocument, r_place[c] = p,
               r_documents'[p] = r_filing[c]
        PROVE  Fine(p)'
    <3>1. r_filing[c] \in Receipt
      BY <2>3 DEF ReceiptTypes, AtDocument
    <3>. QED BY <1>0, <2>3, <3>1, BackedForGood
  <2>. QED BY <2>1, <2>2, <2>3
\* Filing the record backs the document that comes with it.
<1>2. ASSUME NEW c \in Worker PROVE Pairs(c)'
  <2>. SUFFICES ASSUME r_at'[c] = "pair"
                PROVE  (R!Strayed(r_filing[c]) \/ Backed(R!PlaceOf(r_filing[c]), r_filing[c]))'
    OBVIOUS
  <2>1. CASE r_at[c] = "pair" /\ r_filing'[c] = r_filing[c]
    <3>1. r_filing[c] \in Receipt /\ R!PlaceOf(r_filing[c]) \in R!Place
      BY <2>1, PlaceOfNamed DEF ReceiptTypes
    <3>2. R!Strayed(r_filing[c])' \/ R!PlaceOf(r_filing[c])' = R!PlaceOf(r_filing[c])
      <4>1. r_year' = r_year \/ r_year' = 2
        BY DEF R!Next, R!NewYear, R!vars
      <4>. QED BY <2>1, <3>1, <4>1 DEF R!PlaceOf, R!derive_year, R!Strayed,
                                       R!ReceiptsAssumption
    <3>. QED BY <1>0, <2>1, <3>1, <3>2, BackedForGood
  <2>2. CASE R!file_receipt(c) /\ r_year' = r_year
    <3>1. /\ r_filing[c] \in Receipt /\ OrderOf[r_filing[c]] \in Order
          /\ r_filing' = r_filing
      BY <2>2 DEF R!file_receipt, R!AfterRecord, R!Return, ReceiptTypes, R!ReceiptsAssumption
    <3>2. R!PlaceOf(r_filing[c]) \in R!Place /\ R!PlaceOf(r_filing[c])' = R!PlaceOf(r_filing[c])
      BY <2>2, <3>1, PlaceOfNamed DEF ReceiptTypes, R!PlaceOf, R!derive_year
    <3>3. \/ r_records'[R!PlaceOf(r_filing[c])] = r_filing[c]
          \/ /\ R!is_from_newer(r_records[R!PlaceOf(r_filing[c])], r_filing[c])
             /\ r_records' = r_records
      BY <2>2, <3>2 DEF R!file_receipt, ReceiptTypes
    <3>4. ReceiptDate \in [Receipt -> Nat] /\ None \notin Receipt
      BY DEF R!ReceiptsAssumption
    <3>. QED BY <3>1, <3>2, <3>3, <3>4 DEF Backed, R!is_from_newer, ReceiptTypes
  <2>3. \/ r_at[c] = "pair" /\ r_filing'[c] = r_filing[c]
        \/ R!file_receipt(c) /\ r_year' = r_year
    BY DEF R!Next, R!File, R!Begin, R!Nameless, R!forward, R!file_receipt, R!AfterRecord,
           R!paired_name_from_json, R!file_receipt_blob, R!GetDocument, R!filed_from_newer,
           R!PutDocument, R!Fails, R!Return, R!NewYear, R!vars, ReceiptTypes
  <2>. QED BY <2>1, <2>2, <2>3
\* The document goes where its record did, or has strayed by then.
<1>3. ASSUME NEW c \in Worker PROVE Files(c)'
  <2>. SUFFICES ASSUME r_at'[c] \in AtDocument
                PROVE  (R!Strayed(r_filing[c]) \/ Backed(r_place[c], r_filing[c]))'
    OBVIOUS
  <2>1. CASE /\ r_at[c] \in AtDocument
             /\ r_filing'[c] = r_filing[c] /\ r_place'[c] = r_place[c]
    <3>1. r_filing[c] \in Receipt /\ r_place[c] \in R!Place
      BY <2>1 DEF ReceiptTypes, AtDocument
    <3>2. R!Strayed(r_filing[c])' \/ Backed(r_place[c], r_filing[c])'
      <4>1. R!Strayed(r_filing[c]) \/ Backed(r_place[c], r_filing[c])
        BY <1>0, <2>1
      <4>2. CASE R!Strayed(r_filing[c])
        BY <2>1, <3>1, <4>2, BackedForGood DEF R!Strayed
      <4>3. CASE Backed(r_place[c], r_filing[c])
        BY <2>1, <3>1, <4>3, BackedForGood DEF Backed
      <4>. QED BY <4>1, <4>2, <4>3
    <3>. QED BY <3>2
  <2>2. CASE R!paired_name_from_json(c) /\ r_year' = r_year
    <3>1. /\ r_at[c] = "pair" /\ r_filing' = r_filing /\ r_records' = r_records
          /\ r_place'[c] = R!PlaceOf(r_filing[c])
      BY <2>2 DEF R!paired_name_from_json, ReceiptTypes
    <3>2. R!Strayed(r_filing[c]) \/ Backed(R!PlaceOf(r_filing[c]), r_filing[c])
      BY <1>0, <3>1
    <3>. QED BY <2>2, <3>1, <3>2 DEF Backed, R!Strayed
  <2>3. \/ /\ r_at[c] \in AtDocument
           /\ r_filing'[c] = r_filing[c] /\ r_place'[c] = r_place[c]
        \/ R!paired_name_from_json(c) /\ r_year' = r_year
    <3>1. CASE R!NewYear \/ UNCHANGED R!vars
      BY <3>1 DEF R!NewYear, R!vars
    <3>2. ASSUME NEW u \in Worker, R!File(u), r_year' = r_year, u # c
          PROVE  /\ r_at'[c] = r_at[c]
                 /\ r_filing'[c] = r_filing[c] /\ r_place'[c] = r_place[c]
      BY <3>2 DEF R!File, R!Begin, R!Nameless, R!forward, R!file_receipt, R!AfterRecord,
                  R!paired_name_from_json, R!file_receipt_blob, R!GetDocument,
                  R!filed_from_newer, R!PutDocument, R!Fails, R!Return, ReceiptTypes
    <3>3. ASSUME R!File(c), r_year' = r_year
          PROVE  \/ /\ r_at[c] \in AtDocument
                    /\ r_filing'[c] = r_filing[c] /\ r_place'[c] = r_place[c]
                 \/ R!paired_name_from_json(c)
      BY <3>3 DEF R!File, R!Begin, R!Nameless, R!forward, R!file_receipt, R!AfterRecord,
                  R!file_receipt_blob, R!GetDocument,
                  R!filed_from_newer, R!PutDocument, R!Fails, R!Return, ReceiptTypes, AtDocument
    <3>. QED BY <3>1, <3>2, <3>3 DEF R!Next
  <2>. QED BY <2>1, <2>2, <2>3
<1>. QED BY <1>1, <1>2, <1>3 DEF DocumentsBacked

\* On a server, the record is asked after the document has been looked at.
LEMMA FoundIsOlderStep ==
    ASSUME R!ReceiptsAssumption, ReceiptTypes, DocumentsBacked, FoundIsOlder, ~ r_how.faulty,
           [R!Next]_(R!vars)
    PROVE  FoundIsOlder'
<1>. SUFFICES ASSUME NEW c \in Worker, r_beside'[c] # None
              PROVE  /\ r_at'[c] \in {"ask", "put"} =>
                          (R!Strayed(r_beside[c]) \/ Backed(r_place[c], r_beside[c]))'
                     /\ r_at'[c] = "put" =>
                          (\/ R!Strayed(r_beside[c])
                           \/ ReceiptDate[r_beside[c]] <= ReceiptDate[r_filing[c]])'
  BY DEF FoundIsOlder
<1>. USE DEF R!Goto
<1>1. CASE /\ r_at'[c] = r_at[c] /\ r_beside'[c] = r_beside[c]
           /\ r_filing'[c] = r_filing[c] /\ r_place'[c] = r_place[c]
  <2>1. r_beside[c] \in Receipt
    BY <1>1 DEF ReceiptTypes
  <2>2. R!Strayed(r_beside[c]) => R!Strayed(r_beside[c])'
    BY <1>1, <2>1, BackedForGood DEF R!Strayed
  <2>3. r_at[c] \in AtDocument /\ Backed(r_place[c], r_beside[c])
           => Backed(r_place[c], r_beside[c])'
    BY <1>1, <2>1, BackedForGood DEF Backed, ReceiptTypes
  <2>. QED BY <1>1, <2>2, <2>3 DEF FoundIsOlder, AtDocument
<1>2. CASE R!GetDocument(c) /\ r_year' = r_year
  <2>1. /\ r_at[c] = "document" /\ r_at'[c] = "ask" /\ r_place' = r_place
        /\ r_beside'[c] = r_documents[r_place[c]] /\ r_records' = r_records
        /\ r_place[c] \in R!Place
    BY <1>2 DEF R!GetDocument, ReceiptTypes, AtDocument
  <2>. QED BY <1>2, <2>1 DEF DocumentsBacked, Backed, R!Strayed
<1>3. CASE R!filed_from_newer(c) /\ r_year' = r_year /\ r_at'[c] = "put"
  <2>1. /\ r_at[c] = "ask" /\ ~ R!is_from_newer(r_records[r_place[c]], r_filing[c])
        /\ UNCHANGED <<r_filing, r_place, r_beside, r_records>>
    BY <1>3 DEF R!filed_from_newer, R!Return, ReceiptTypes
  <2>2. R!Strayed(r_beside[c]) \/ Backed(r_place[c], r_beside[c])
    BY <2>1 DEF FoundIsOlder
  <2>3. Backed(r_place[c], r_beside[c]) => ReceiptDate[r_beside[c]] <= ReceiptDate[r_filing[c]]
    <3>1. r_beside[c] \in Receipt /\ r_filing[c] \in Receipt /\ r_place[c] \in R!Place
      BY <2>1 DEF ReceiptTypes, AtDocument
    <3>2. ReceiptDate \in [Receipt -> Nat] /\ None \notin Receipt
      BY DEF R!ReceiptsAssumption
    <3>3. r_records[r_place[c]] \in Receipt \cup {None}
      BY <3>1 DEF ReceiptTypes
    <3>. QED BY <2>1, <3>1, <3>2, <3>3 DEF Backed, R!is_from_newer
  <2>. QED BY <1>3, <2>1, <2>2, <2>3 DEF Backed, R!Strayed
<1>4. CASE r_at'[c] \notin {"ask", "put"}
  BY <1>4
<1>5. CASE R!NewYear \/ UNCHANGED R!vars
  BY <1>1, <1>5 DEF R!NewYear, R!vars
<1>6. ASSUME NEW u \in Worker, R!File(u), r_year' = r_year, u # c
      PROVE  /\ r_at'[c] = r_at[c] /\ r_beside'[c] = r_beside[c]
             /\ r_filing'[c] = r_filing[c] /\ r_place'[c] = r_place[c]
  BY <1>6 DEF R!File, R!Begin, R!Nameless, R!forward, R!file_receipt, R!AfterRecord,
              R!paired_name_from_json, R!file_receipt_blob, R!GetDocument,
              R!filed_from_newer, R!PutDocument, R!Fails, R!Return, ReceiptTypes
<1>7. ASSUME R!File(c), r_at'[c] \in {"ask", "put"}
      PROVE  \/ R!GetDocument(c)
             \/ R!filed_from_newer(c) /\ r_at'[c] = "put"
  <2>1. ~ (R!Nameless(c) \/ R!forward(c) \/ R!Fails(c) \/ R!file_receipt_blob(c))
    BY <1>7 DEF R!Nameless, R!forward, R!Fails, R!file_receipt_blob, R!Return, ReceiptTypes
  <2>2. ~ (R!PutDocument(c) \/ R!file_receipt(c) \/ R!paired_name_from_json(c))
    BY <1>7 DEF R!PutDocument, R!file_receipt, R!AfterRecord, R!paired_name_from_json,
                R!Return, ReceiptTypes
  <2>3. \A r \in Receipt : ~ R!Begin(c, r)
    BY <1>7 DEF R!Begin, ReceiptTypes
  <2>4. R!filed_from_newer(c) => r_at'[c] = "put"
    BY <1>7 DEF R!filed_from_newer, R!Return, ReceiptTypes
  <2>. QED BY <1>7, <2>1, <2>2, <2>3, <2>4 DEF R!File
<1>. QED BY <1>1, <1>2, <1>3, <1>4, <1>5, <1>6, <1>7 DEF R!Next

-----------------------------------------------------------------------------

\* The invariant holds throughout.
LEMMA ReceiptsInvariant == ASSUME R!ReceiptsAssumption PROVE R!Spec => []ReceiptsInv
<1>1. R!Init => ReceiptsInv
  BY DEF R!Init, ReceiptsInv, ReceiptTypes, DocumentsBacked, FoundIsOlder, AtDocument
<1>2. ReceiptsInv /\ [R!Next]_(R!vars) => ReceiptsInv'
  <2>1. [R!Next]_(R!vars) => r_how' = r_how
    BY DEF R!Next, R!vars
  <2>. QED BY <2>1, ReceiptTypesStep, DocumentsBackedStep, FoundIsOlderStep DEF ReceiptsInv
<1>. QED BY <1>1, <1>2, PTL DEF R!Spec

(***************************************************************************)
(* A document lies beside a record that is not older, and no document      *)
(* gives way to an older one, in a directory and on a server, whoever dies *)
(* where - as long as no record fails to be written and the document has   *)
(* not strayed into the new year.                                          *)
(***************************************************************************)
THEOREM DocumentsStayWithRecords ==
    ASSUME R!ReceiptsAssumption
    PROVE  R!Spec => DocumentsKept
<1>1. ASSUME R!ReceiptsAssumption, ReceiptsInv PROVE R!DocumentFollowsRecord
  BY <1>1 DEF ReceiptsInv, ReceiptTypes, DocumentsBacked, Backed, R!DocumentFollowsRecord,
              R!is_from_newer, R!ReceiptsAssumption
<1>2. ReceiptsInv /\ [R!Next]_(R!vars) /\ R!ReceiptsAssumption =>
        [~ r_how.faulty =>
          \A p \in R!Place :
              \/ r_documents'[p] = None
              \/ R!Strayed(r_documents[p])
              \/ ~ R!is_from_newer(r_documents[p], r_documents'[p])]_(R!vars)
  <2>. SUFFICES ASSUME ReceiptsInv, R!Next, R!ReceiptsAssumption, ~ r_how.faulty,
                       NEW p \in R!Place, r_documents'[p] # None, r_documents[p] # None,
                       ~ R!Strayed(r_documents[p])
                PROVE  ~ (ReceiptDate[r_documents[p]] > ReceiptDate[r_documents'[p]])
    BY DEF R!is_from_newer
  <2>. USE DEF ReceiptsInv
  <2>1. r_documents[p] \in Receipt /\ ReceiptDate[r_documents[p]] \in Nat
    BY DEF ReceiptTypes, R!ReceiptsAssumption
  <2>2. ASSUME NEW c \in Worker, R!file_receipt_blob(c), r_documents'[p] # r_documents[p]
        PROVE  ReceiptDate[r_documents[p]] <= ReceiptDate[r_documents'[p]]
    <3>1. /\ r_place[c] = p /\ r_documents'[p] = r_filing[c] /\ r_filing[c] \in Receipt
          /\ ~ R!is_from_newer(r_records[p], r_filing[c])
      BY <2>2 DEF R!file_receipt_blob, ReceiptTypes
    <3>2. Backed(p, r_documents[p])
      BY <2>1 DEF DocumentsBacked
    <3>3. r_records[p] \in Receipt \cup {None} /\ ReceiptDate \in [Receipt -> Nat]
      BY DEF ReceiptTypes, R!ReceiptsAssumption
    <3>. QED BY <2>1, <3>1, <3>2, <3>3 DEF Backed, R!is_from_newer
  <2>3. ASSUME NEW c \in Worker, R!PutDocument(c), r_documents'[p] # r_documents[p]
        PROVE  ReceiptDate[r_documents[p]] <= ReceiptDate[r_documents'[p]]
    <3>1. /\ r_place[c] = p /\ r_documents'[p] = r_filing[c] /\ r_documents[p] = r_beside[c]
          /\ r_at[c] = "put"
      BY <2>3 DEF R!PutDocument, ReceiptTypes
    <3>. QED BY <3>1 DEF FoundIsOlder
  <2>4. CASE r_documents'[p] = r_documents[p]
    BY <2>1, <2>4
  <2>5. \/ \E c \in Worker : R!file_receipt_blob(c) \/ R!PutDocument(c)
        \/ r_documents' = r_documents
    BY DEF R!Next, R!File, R!Begin, R!Nameless, R!forward, R!file_receipt,
           R!paired_name_from_json, R!GetDocument, R!filed_from_newer, R!Fails, R!NewYear
  <2>6. ReceiptDate[r_documents'[p]] \in Nat
    <3>1. r_documents'[p] \in Receipt
      BY ReceiptTypesStep DEF ReceiptTypes
    <3>. QED BY <3>1 DEF R!ReceiptsAssumption
  <2>. QED BY <2>1, <2>2, <2>3, <2>4, <2>5, <2>6
<1>3. R!Spec => []R!DocumentFollowsRecord
  BY <1>1, ReceiptsInvariant, PTL
<1>4. R!Spec => R!DocumentNeverRegresses
  BY <1>2, ReceiptsInvariant, PTL DEF R!Spec, R!DocumentNeverRegresses
<1>. QED BY <1>3, <1>4 DEF DocumentsKept, R!DocumentsKept

-----------------------------------------------------------------------------
(***************************************************************************)
(* Reservations                                                            *)
(***************************************************************************)

Cancelling == {"scan", "cancel", "recall"}

\* A worker is one of the crew, and knows what its mail says.
MailsKnown ==
    \A w \in Planner :
        /\ v_pc[w] # "idle" => w \in v_setup.crew /\ v_msg[w] \in Booking
        /\ v_pc[w] \in {"events", "records"} => v_todo[w] \subseteq LegsOf[v_msg[w]]
        /\ v_pc[w] \in Cancelling => v_msg[w] \in Complete
        /\ v_pc[w] \notin Cancelling => v_dropped[w] = {}
        /\ v_pc[w] = "cancel" => v_leg[w] \in Leg \ LegsOf[v_msg[w]]

\* What is on file of a leg is not older than its last cancellation.
RevokedBefore ==
    \A l \in Leg :
        /\ v_record[l] = None => v_revoked[l] = 0
        /\ v_record[l] # None => v_record[l].date >= v_revoked[l]

\* A mail that cancels has nothing to say of a leg (any more).
Settled(l, m) ==
    \/ v_record[l] = None
    \/ v_record[l].cancelled
    \/ v_record[l].date >= BookingDate[m]

\* A lone worker that cancels leaves nothing behind it.
ScanSettles ==
    V!Sequential =>
        \A w \in v_setup.crew : v_pc[w] \in Cancelling =>
            \A l \in Leg \ LegsOf[v_msg[w]] :
                \/ v_pc[w] # "recall" /\ l \in v_todo[w]
                \/ v_pc[w] = "cancel" /\ l = v_leg[w]
                \/ Settled(l, v_msg[w])

\* What it has read of a leg is still so when it cancels it.
StillSuperseded ==
    V!Sequential =>
        \A w \in v_setup.crew : v_pc[w] = "cancel" =>
            V!Superseded(v_leg[w], v_msg[w])

\* The legs whose event the worker's mail has booked, and not yet the record,
\* and those whose record it has cancelled, and not yet the event.
Ahead(w) ==
    CASE v_pc[w] = "events" -> LegsOf[v_msg[w]] \ v_todo[w]
      [] v_pc[w] = "records" -> v_todo[w]
      [] OTHER -> {}
Behind(w) ==
    CASE v_pc[w] \in {"scan", "cancel"} -> v_dropped[w]
      [] v_pc[w] = "recall" -> v_todo[w]
      [] OTHER -> {}

\* What is on file once an entry is written unless the one there is newer.
Written(old, e) == IF V!supersedes(old, e.date) THEN old ELSE e

\* Apart from those the calendar says what the archive says.
InStep(w) ==
    \A l \in Leg :
        /\ l \in Ahead(w) => v_calendar[l] = Written(v_record[l], V!Booked(v_msg[w]))
        /\ l \in Behind(w) =>
              /\ v_record[l] = V!Cancelled(v_msg[w])
              /\ ~ V!supersedes(v_calendar[l], BookingDate[v_msg[w]])
        /\ l \notin Ahead(w) \cup Behind(w) => v_calendar[l] = v_record[l]

CalendarFollows ==
    V!Sequential /\ ~ v_setup.faulty => \A w \in v_setup.crew : InStep(w)

BookingInv ==
    /\ V!TypeOK
    /\ MailsKnown
    /\ RevokedBefore
    /\ V!CancelledOnPurpose
    /\ ScanSettles
    /\ StillSuperseded
    /\ CalendarFollows

-----------------------------------------------------------------------------

\* Nothing is on file and nobody is at work.
LEMMA BookingInit == ASSUME V!ReservationsAssumption, V!Init PROVE BookingInv
<1>. USE DEF V!ReservationsAssumption, V!Init
<1>1. V!TypeOK
  BY DEF V!TypeOK, V!Control
<1>2. MailsKnown /\ RevokedBefore /\ V!CancelledOnPurpose
  BY DEF MailsKnown, RevokedBefore, V!CancelledOnPurpose, Cancelling
<1>3. ScanSettles /\ StillSuperseded /\ CalendarFollows
  <2>1. \A w \in v_setup.crew : v_pc[w] = "idle"
    OBVIOUS
  <2>. QED BY <2>1 DEF ScanSettles, StillSuperseded, CalendarFollows, InStep, Ahead, Behind,
                       Cancelling
<1>. QED BY <1>1, <1>2, <1>3 DEF BookingInv

\* What a mail would put on file is of the kind that is on file.
LEMMA EntriesAreEntries ==
    ASSUME V!ReservationsAssumption, NEW m \in Booking
    PROVE  /\ V!Booked(m) \in [date : V!Dates, cancelled : BOOLEAN]
           /\ V!Cancelled(m) \in [date : V!Dates, cancelled : BOOLEAN]
           /\ V!Booked(m).date = BookingDate[m] /\ ~ V!Booked(m).cancelled
           /\ V!Cancelled(m).date = BookingDate[m] /\ V!Cancelled(m).cancelled
           /\ BookingDate[m] \in Nat
           /\ None \notin [date : V!Dates, cancelled : BOOLEAN]
           /\ V!Dates \subseteq Nat
BY DEF V!ReservationsAssumption, V!Booked, V!Cancelled, V!Dates, V!Entry

\* Everything keeps its type, and the workers know what they should.
LEMMA BookingTypesStep ==
    ASSUME V!ReservationsAssumption, V!TypeOK, MailsKnown, [V!Next]_(V!vars)
    PROVE  V!TypeOK' /\ MailsKnown'
<1>. USE DEF V!ReservationsAssumption, V!Goto, V!Drop, V!Control, Cancelling
<1>1. ASSUME NEW w \in Planner, NEW m \in Booking, V!Begin(w, m), v_setup' = v_setup
      PROVE  V!TypeOK' /\ MailsKnown'
  BY <1>1 DEF V!Begin, V!TypeOK, MailsKnown
<1>2. ASSUME NEW w \in Planner, NEW l \in Leg, v_setup' = v_setup,
             V!file_single(w, l) \/ V!RecallEvent(w, l)
      PROVE  V!TypeOK' /\ MailsKnown'
  <2>1. v_msg[w] \in Booking
    BY <1>2 DEF V!file_single, V!RecallEvent, MailsKnown
  <2>2. v_calendar' \in [Leg -> [date : V!Dates, cancelled : BOOLEAN] \cup {None}]
    BY <1>2, <2>1, EntriesAreEntries DEF V!file_single, V!RecallEvent, V!TypeOK, V!WriteUnlessNewer
  <2>3. CASE V!file_single(w, l)
    BY <1>2, <2>2, <2>3 DEF V!file_single, V!TypeOK, MailsKnown
  <2>4. CASE V!RecallEvent(w, l)
    BY <1>2, <2>2, <2>4 DEF V!RecallEvent, V!TypeOK, MailsKnown
  <2>. QED BY <1>2, <2>3, <2>4
<1>3. ASSUME NEW w \in Planner, NEW l \in Leg, v_setup' = v_setup, V!file_one(w, l)
      PROVE  V!TypeOK' /\ MailsKnown'
  <2>1. v_msg[w] \in Booking
    BY <1>3 DEF V!file_one, MailsKnown
  <2>2. v_record' \in [Leg -> [date : V!Dates, cancelled : BOOLEAN] \cup {None}]
    BY <1>3, <2>1, EntriesAreEntries DEF V!file_one, V!TypeOK, V!WriteUnlessNewer
  <2>. QED BY <1>3, <2>2 DEF V!file_one, V!TypeOK, MailsKnown
<1>4. ASSUME NEW w \in Planner, v_setup' = v_setup, V!write_atomic(w)
      PROVE  V!TypeOK' /\ MailsKnown'
  <2>1. v_msg[w] \in Booking /\ v_leg[w] \in Leg
    BY <1>4 DEF V!write_atomic, MailsKnown
  <2>2. v_record' \in [Leg -> [date : V!Dates, cancelled : BOOLEAN] \cup {None}]
    BY <1>4, <2>1, EntriesAreEntries DEF V!write_atomic, V!TypeOK
  <2>3. v_revoked' \in [Leg -> V!Dates \cup {0}]
    BY <1>4, <2>1 DEF V!write_atomic, V!TypeOK, V!Dates
  <2>. QED BY <1>4, <2>1, <2>2, <2>3 DEF V!write_atomic, V!TypeOK, MailsKnown
<1>5. ASSUME NEW w \in Planner, NEW l \in Leg, v_setup' = v_setup,
             V!FailLeg(w, l) \/ V!KeepLeg(w, l) \/ V!ReadLeg(w, l)
      PROVE  V!TypeOK' /\ MailsKnown'
  <2>1. CASE V!FailLeg(w, l)
    BY <1>5, <2>1 DEF V!FailLeg, V!TypeOK, MailsKnown
  <2>2. CASE V!KeepLeg(w, l)
    BY <1>5, <2>2 DEF V!KeepLeg, V!TypeOK, MailsKnown
  <2>3. CASE V!ReadLeg(w, l)
    BY <1>5, <2>3 DEF V!ReadLeg, V!Superseded, V!TypeOK, MailsKnown
  <2>. QED BY <1>5, <2>1, <2>2, <2>3
<1>6. ASSUME NEW w \in Planner, v_setup' = v_setup,
             V!EventsDone(w) \/ V!RecordsDone(w) \/ V!archived_records(w) \/ V!ScanDone(w)
      PROVE  V!TypeOK' /\ MailsKnown'
  BY <1>6 DEF V!EventsDone, V!RecordsDone, V!archived_records, V!ScanDone, V!TypeOK, MailsKnown
<1>7. ASSUME NEW w \in Planner, v_setup' = v_setup,
             V!Incomplete(w) \/ V!Finish(w) \/ V!Abort(w)
      PROVE  V!TypeOK' /\ MailsKnown'
  <2>1. V!Done(w) /\ UNCHANGED <<v_record, v_calendar, v_revoked>>
    BY <1>7 DEF V!Incomplete, V!Finish, V!Abort
  <2>. QED BY <1>7, <2>1 DEF V!Done, V!TypeOK, MailsKnown
<1>8. CASE UNCHANGED V!vars
  BY <1>8 DEF V!vars, V!TypeOK, MailsKnown
<1>. QED BY <1>1, <1>2, <1>3, <1>4, <1>5, <1>6, <1>7, <1>8 DEF V!Next, V!Step

\* The archive changes where a record is filed or cancelled, and nowhere else.
LEMMA RecordChanges ==
    ASSUME [V!Next]_(V!vars)
    PROVE  \/ \E w \in Planner, l \in Leg : V!file_one(w, l)
           \/ \E w \in Planner : V!write_atomic(w)
           \/ UNCHANGED <<v_record, v_revoked>>
BY DEF V!Next, V!Begin, V!Step, V!file_single, V!FailLeg, V!EventsDone, V!RecordsDone,
       V!Incomplete, V!archived_records, V!KeepLeg, V!ReadLeg, V!RecallEvent, V!ScanDone,
       V!Finish, V!Abort, V!vars

\* What filing a record does.
LEMMA FileOne ==
    ASSUME V!ReservationsAssumption, V!TypeOK, MailsKnown,
           NEW w \in Planner, NEW l \in Leg, V!file_one(w, l)
    PROVE  /\ v_msg[w] \in Booking /\ v_msg'[w] = v_msg[w] /\ v_revoked' = v_revoked
           /\ v_record' = [v_record EXCEPT ![l] = Written(v_record[l], V!Booked(v_msg[w]))]
           /\ v_record[l] = None => v_record'[l] = V!Booked(v_msg[w])
           /\ v_record[l] # None => v_record'[l].date >= v_record[l].date
           /\ \/ v_record'[l] = v_record[l]
              \/ v_record'[l] = V!Booked(v_msg[w])
<1>1. v_msg[w] \in Booking /\ UNCHANGED <<v_msg, v_revoked>>
  BY DEF V!file_one, MailsKnown
<1>2. v_record' = [v_record EXCEPT ![l] = Written(v_record[l], V!Booked(v_msg[w]))]
  BY DEF V!file_one, V!WriteUnlessNewer, Written, V!TypeOK
<1>3. v_record'[l] = Written(v_record[l], V!Booked(v_msg[w]))
  BY <1>2 DEF V!TypeOK
<1>4. v_record[l] = None \/ v_record[l].date \in Nat
  BY <1>1, EntriesAreEntries DEF V!TypeOK
<1>. QED BY <1>1, <1>2, <1>3, <1>4, EntriesAreEntries DEF Written, V!supersedes

\* What cancelling a record does.
LEMMA Cancel ==
    ASSUME V!ReservationsAssumption, V!TypeOK, MailsKnown,
           NEW w \in Planner, V!write_atomic(w)
    PROVE  /\ v_msg[w] \in Complete /\ v_msg[w] \in Booking
           /\ v_leg[w] \in Leg \ LegsOf[v_msg[w]]
           /\ v_record' = [v_record EXCEPT ![v_leg[w]] = V!Cancelled(v_msg[w])]
           /\ v_revoked' = [v_revoked EXCEPT ![v_leg[w]] = BookingDate[v_msg[w]]]
           /\ v_record'[v_leg[w]] = V!Cancelled(v_msg[w])
           /\ v_revoked'[v_leg[w]] = BookingDate[v_msg[w]]
           /\ v_msg' = v_msg
BY DEF V!write_atomic, V!TypeOK, MailsKnown, Cancelling

\* Cancelling a leg dates its record, and filing it does not make that older.
LEMMA RevokedStep ==
    ASSUME V!ReservationsAssumption, V!TypeOK, MailsKnown, RevokedBefore, [V!Next]_(V!vars)
    PROVE  RevokedBefore'
<1>1. ASSUME NEW w \in Planner, NEW l \in Leg, V!file_one(w, l)
      PROVE  RevokedBefore'
  <2>. SUFFICES ASSUME NEW k \in Leg
                PROVE  /\ v_record'[k] = None => v_revoked'[k] = 0
                       /\ v_record'[k] # None => v_record'[k].date >= v_revoked'[k]
    BY DEF RevokedBefore
  <2>1. CASE k = l
    <3>1. v_record'[l] # None /\ v_revoked'[l] = v_revoked[l] /\ v_revoked[l] \in Nat
      BY <1>1, FileOne, EntriesAreEntries DEF V!TypeOK
    <3>2. CASE v_record[l] = None
      BY <2>1, <3>1, <3>2, <1>1, FileOne, EntriesAreEntries DEF RevokedBefore
    <3>3. CASE v_record[l] # None
      <4>1. v_record[l].date \in Nat /\ v_record'[l].date \in Nat
        BY <1>1, <3>3, FileOne, EntriesAreEntries DEF V!TypeOK
      <4>. QED BY <2>1, <3>1, <3>3, <4>1, <1>1, FileOne DEF RevokedBefore
    <3>. QED BY <3>2, <3>3
  <2>2. CASE k # l
    BY <2>2, <1>1, FileOne DEF RevokedBefore, V!TypeOK
  <2>. QED BY <2>1, <2>2
<1>2. ASSUME NEW w \in Planner, V!write_atomic(w)
      PROVE  RevokedBefore'
  BY <1>2, Cancel, EntriesAreEntries DEF RevokedBefore, V!TypeOK
<1>3. CASE UNCHANGED <<v_record, v_revoked>>
  BY <1>3 DEF RevokedBefore
<1>. QED BY <1>1, <1>2, <1>3, RecordChanges

\* The cancelled record bears the date of the mail that does not list the leg.
LEMMA PurposeStep ==
    ASSUME V!ReservationsAssumption, V!TypeOK, MailsKnown, V!CancelledOnPurpose,
           [V!Next]_(V!vars)
    PROVE  V!CancelledOnPurpose'
<1>. USE DEF V!CancelledOnPurpose
<1>1. ASSUME NEW w \in Planner, NEW l \in Leg, V!file_one(w, l)
      PROVE  V!CancelledOnPurpose'
  <2>1. v_record'[l] = v_record[l] \/ ~ v_record'[l].cancelled
    BY <1>1, FileOne, EntriesAreEntries
  <2>2. \A k \in Leg \ {l} : v_record'[k] = v_record[k]
    BY <1>1, FileOne DEF V!TypeOK
  <2>. QED BY <2>1, <2>2
<1>2. ASSUME NEW w \in Planner, V!write_atomic(w)
      PROVE  V!CancelledOnPurpose'
  <2>1. \A k \in Leg \ {v_leg[w]} : v_record'[k] = v_record[k]
    BY <1>2, Cancel DEF V!TypeOK
  <2>2. v_record'[v_leg[w]].date = BookingDate[v_msg[w]]
    BY <1>2, Cancel, EntriesAreEntries
  <2>3. v_msg[w] \in Complete /\ v_leg[w] \notin LegsOf[v_msg[w]]
    BY <1>2, Cancel
  <2>. QED BY <2>1, <2>2, <2>3
<1>3. CASE UNCHANGED <<v_record, v_revoked>>
  BY <1>3
<1>. QED BY <1>1, <1>2, <1>3, RecordChanges

\* A lone worker: nobody else takes a step, and it stays the only one.
LEMMA LoneWorker ==
    ASSUME V!ReservationsAssumption, V!TypeOK, MailsKnown, V!Sequential, V!Next
    PROVE  \E w \in Planner :
              /\ v_setup' = v_setup /\ w \in v_setup.crew
              /\ \A u \in v_setup.crew : u = w
              /\ (\E m \in Booking : V!Begin(w, m)) \/ V!Step(w) \/ V!Abort(w)
<1>1. PICK w \in Planner : (\E m \in Booking : V!Begin(w, m)) \/ V!Step(w) \/ V!Abort(w)
  BY DEF V!Next
<1>2. w \in v_setup.crew
  BY <1>1 DEF V!Begin, V!Step, V!Abort, V!file_single, V!file_one, V!FailLeg, V!EventsDone,
              V!RecordsDone, V!Incomplete, V!archived_records, V!KeepLeg, V!ReadLeg,
              V!RecallEvent, V!write_atomic, V!ScanDone, V!Finish, MailsKnown
<1>. QED BY <1>1, <1>2 DEF V!Next, V!Sequential

\* The scan of a lone worker leaves a leg only when it is settled, and what it
\* has read of one stays true until it cancels it.
LEMMA SettlesStep ==
    ASSUME V!ReservationsAssumption, V!TypeOK, MailsKnown, ScanSettles, StillSuperseded,
           [V!Next]_(V!vars)
    PROVE  ScanSettles' /\ StillSuperseded'
<1>1. CASE UNCHANGED V!vars
  BY <1>1 DEF V!vars, ScanSettles, StillSuperseded, Settled, V!Superseded, V!Sequential
<1>2. CASE V!Next
  <2>1. v_setup' = v_setup /\ (V!Sequential' <=> V!Sequential)
    BY <1>2 DEF V!Next, V!Sequential
  <2>. SUFFICES ASSUME V!Sequential PROVE ScanSettles' /\ StillSuperseded'
    BY <2>1 DEF ScanSettles, StillSuperseded
  <2>2. PICK w \in Planner :
            /\ v_setup' = v_setup /\ w \in v_setup.crew
            /\ \A u \in v_setup.crew : u = w
            /\ (\E m \in Booking : V!Begin(w, m)) \/ V!Step(w) \/ V!Abort(w)
    BY <1>2, LoneWorker
  <2>. DEFINE Left(l) == \/ v_pc[w] # "recall" /\ l \in v_todo[w]
                         \/ v_pc[w] = "cancel" /\ l = v_leg[w]
                         \/ Settled(l, v_msg[w])
              Swept == v_pc[w] \in Cancelling =>
                          \A l \in Leg \ LegsOf[v_msg[w]] : Left(l)
              Read == v_pc[w] = "cancel" => V!Superseded(v_leg[w], v_msg[w])
  <2>3. Swept /\ Read
    BY <2>2 DEF ScanSettles, StillSuperseded
  <2>4. SUFFICES Swept' /\ Read'
    BY <2>1, <2>2 DEF ScanSettles, StillSuperseded
  <2>. USE DEF V!Goto, V!Drop, Cancelling
  <2>5. ASSUME NEW l \in Leg, V!KeepLeg(w, l) PROVE Swept' /\ Read'
    <3>1. v_record[l] = None \/ v_record[l].date \in Nat
      BY EntriesAreEntries, <2>5 DEF V!KeepLeg, MailsKnown, V!TypeOK
    <3>2. BookingDate[v_msg[w]] \in Nat
      BY EntriesAreEntries, <2>5 DEF V!KeepLeg, MailsKnown
    <3>3. l \notin LegsOf[v_msg[w]] => Settled(l, v_msg[w])
      BY <2>5, <3>1, <3>2 DEF V!KeepLeg, V!Superseded, Settled
    <3>4. v_pc' = v_pc /\ v_record' = v_record /\ v_msg' = v_msg /\ v_leg' = v_leg
          /\ v_todo'[w] = v_todo[w] \ {l} /\ v_pc[w] = "scan"
      BY <2>5 DEF V!KeepLeg, V!TypeOK
    <3>. QED BY <2>3, <3>3, <3>4 DEF Settled
  <2>6. ASSUME NEW l \in Leg, V!ReadLeg(w, l) PROVE Swept' /\ Read'
    <3>1. /\ v_pc[w] = "scan" /\ v_pc'[w] = "cancel" /\ v_leg'[w] = l
          /\ v_todo'[w] = v_todo[w] \ {l}
          /\ v_record' = v_record /\ v_msg' = v_msg
          /\ V!Superseded(l, v_msg[w])
      BY <2>6 DEF V!ReadLeg, V!TypeOK
    <3>2. Read'
      BY <3>1 DEF V!Superseded
    <3>3. Swept'
      BY <2>3, <3>1 DEF Settled
    <3>. QED BY <3>2, <3>3
  <2>7. CASE V!write_atomic(w)
    <3>1. /\ v_pc[w] = "cancel" /\ v_pc'[w] = "scan" /\ v_msg' = v_msg /\ v_todo' = v_todo
      BY <2>7 DEF V!write_atomic, V!TypeOK
    <3>2. \A l \in Leg : l # v_leg[w] => v_record'[l] = v_record[l]
      BY <2>7, Cancel DEF V!TypeOK
    <3>3. ASSUME NEW l \in Leg, l = v_leg[w] PROVE v_record'[l].cancelled
      BY <2>7, <3>3, Cancel, EntriesAreEntries
    <3>. QED BY <2>3, <3>1, <3>2, <3>3 DEF Settled
  <2>8. CASE V!archived_records(w)
    BY <2>8 DEF V!archived_records, V!TypeOK, Settled
  <2>9. CASE V!ScanDone(w)
    <3>1. /\ v_pc[w] = "scan" /\ v_pc'[w] = "recall" /\ v_msg' = v_msg /\ v_todo[w] = {}
          /\ v_record' = v_record
      BY <2>9 DEF V!ScanDone, V!TypeOK
    <3>. QED BY <2>3, <3>1 DEF Settled
  <2>10. ASSUME NEW l \in Leg, V!FailLeg(w, l) \/ V!RecallEvent(w, l) PROVE Swept' /\ Read'
    <3>1. /\ v_pc' = v_pc /\ v_msg' = v_msg /\ v_record' = v_record
          /\ v_pc[w] \in {"events", "records", "recall"}
      BY <2>10 DEF V!FailLeg, V!RecallEvent
    <3>. QED BY <2>3, <3>1 DEF Settled
  <2>11. CASE \/ \E m \in Booking : V!Begin(w, m)
              \/ \E l \in Leg : V!file_single(w, l) \/ V!file_one(w, l)
              \/ V!EventsDone(w) \/ V!RecordsDone(w)
              \/ V!Incomplete(w) \/ V!Finish(w) \/ V!Abort(w)
    <3>1. v_pc'[w] \notin Cancelling
      BY <2>11 DEF V!Begin, V!file_single, V!file_one, V!EventsDone, V!RecordsDone,
                   V!Incomplete, V!Finish, V!Abort, V!Done, V!TypeOK
    <3>. QED BY <3>1
  <2>. QED BY <2>2, <2>5, <2>6, <2>7, <2>8, <2>9, <2>10, <2>11 DEF V!Step
<1>. QED BY <1>1, <1>2

\* A lone worker that never fails takes the calendar and the archive through
\* the same changes, one before the other.
LEMMA FollowsStep ==
    ASSUME V!ReservationsAssumption, V!TypeOK, MailsKnown, StillSuperseded, CalendarFollows,
           [V!Next]_(V!vars)
    PROVE  CalendarFollows'
<1>1. CASE UNCHANGED V!vars
  BY <1>1 DEF V!vars, CalendarFollows, V!Sequential, InStep, Ahead, Behind, Written,
              V!supersedes, V!Booked, V!Cancelled
<1>2. CASE V!Next
  <2>1. v_setup' = v_setup /\ (V!Sequential' <=> V!Sequential)
    BY <1>2 DEF V!Next, V!Sequential
  <2>. SUFFICES ASSUME V!Sequential, ~ v_setup.faulty PROVE CalendarFollows'
    BY <2>1 DEF CalendarFollows
  <2>2. PICK w \in Planner :
            /\ v_setup' = v_setup /\ w \in v_setup.crew
            /\ \A u \in v_setup.crew : u = w
            /\ (\E m \in Booking : V!Begin(w, m)) \/ V!Step(w) \/ V!Abort(w)
    BY <1>2, LoneWorker
  <2>3. InStep(w)
    BY <2>2 DEF CalendarFollows
  <2>4. SUFFICES InStep(w)'
    BY <2>1, <2>2 DEF CalendarFollows
  <2>. USE DEF V!Goto, V!Drop
  \* The mail books its legs, in the calendar ...
  <2>5. ASSUME NEW m \in Booking, V!Begin(w, m) PROVE InStep(w)'
    <3>1. /\ v_pc[w] = "idle" /\ v_pc'[w] = "events" /\ v_msg'[w] = m
          /\ v_todo'[w] = LegsOf[m] /\ UNCHANGED <<v_record, v_calendar>>
      BY <2>5 DEF V!Begin, V!TypeOK
    <3>2. Ahead(w) = {} /\ Behind(w) = {}
      BY <3>1 DEF Ahead, Behind
    <3>3. Ahead(w)' = {} /\ Behind(w)' = {}
      BY <3>1 DEF Ahead, Behind
    <3>. QED BY <2>3, <3>1, <3>2, <3>3 DEF InStep
  <2>6. ASSUME NEW l \in Leg, V!file_single(w, l) PROVE InStep(w)'
    <3>1. /\ v_pc[w] = "events" /\ l \in v_todo[w] /\ v_todo'[w] = v_todo[w] \ {l}
          /\ UNCHANGED <<v_pc, v_msg, v_record>>
          /\ v_calendar' = [v_calendar EXCEPT ![l] = Written(@, V!Booked(v_msg[w]))]
      BY <2>6 DEF V!file_single, V!TypeOK, V!WriteUnlessNewer, Written
    <3>2. l \in LegsOf[v_msg[w]]
      BY <3>1 DEF MailsKnown
    <3>3. Ahead(w) = LegsOf[v_msg[w]] \ v_todo[w] /\ Behind(w) = {}
      BY <3>1 DEF Ahead, Behind
    <3>4. Ahead(w)' = Ahead(w) \cup {l} /\ Behind(w)' = {}
      BY <3>1, <3>2, <3>3 DEF Ahead, Behind
    <3>5. v_calendar[l] = v_record[l]
      BY <2>3, <3>1, <3>3 DEF InStep
    <3>6. v_calendar'[l] = Written(v_record[l], V!Booked(v_msg[w]))'
      BY <3>1, <3>5 DEF V!TypeOK, Written, V!supersedes, V!Booked
    <3>7. \A k \in Leg \ {l} : v_calendar'[k] = v_calendar[k]
      BY <3>1 DEF V!TypeOK
    <3>8. \A k \in Leg : Written(v_record[k], V!Booked(v_msg[w]))'
                         = Written(v_record[k], V!Booked(v_msg[w]))
      BY <3>1 DEF Written, V!supersedes, V!Booked
    <3>. QED BY <2>3, <3>1, <3>3, <3>4, <3>6, <3>7, <3>8 DEF InStep
  <2>7. CASE V!EventsDone(w)
    <3>1. /\ v_pc[w] = "events" /\ v_pc'[w] = "records" /\ v_todo[w] = {}
          /\ v_todo'[w] = LegsOf[v_msg[w]] /\ UNCHANGED <<v_msg, v_record, v_calendar>>
      BY <2>7 DEF V!EventsDone, V!TypeOK
    <3>2. Ahead(w)' = Ahead(w) /\ Behind(w)' = Behind(w) /\ Behind(w) = {}
      BY <3>1 DEF Ahead, Behind
    <3>. QED BY <2>3, <3>1, <3>2 DEF InStep, Written, V!supersedes, V!Booked
  \* ... and then in the archive.
  <2>8. ASSUME NEW l \in Leg, V!file_one(w, l) PROVE InStep(w)'
    <3>1. /\ v_pc[w] = "records" /\ l \in v_todo[w] /\ v_todo'[w] = v_todo[w] \ {l}
          /\ UNCHANGED <<v_pc, v_msg, v_calendar>>
      BY <2>8 DEF V!file_one, V!TypeOK
    <3>2. Ahead(w) = v_todo[w] /\ Behind(w) = {}
      BY <3>1 DEF Ahead, Behind
    <3>3. Ahead(w)' = Ahead(w) \ {l} /\ Behind(w)' = {}
      BY <3>1, <3>2 DEF Ahead, Behind
    <3>4. v_calendar[l] = Written(v_record[l], V!Booked(v_msg[w]))
      BY <2>3, <3>1, <3>2 DEF InStep
    <3>5. v_record'[l] = Written(v_record[l], V!Booked(v_msg[w]))
          /\ \A k \in Leg \ {l} : v_record'[k] = v_record[k]
      BY <2>8, FileOne DEF V!TypeOK
    <3>. QED BY <2>3, <3>1, <3>2, <3>3, <3>4, <3>5 DEF InStep, Written, V!supersedes, V!Booked
  <2>9. CASE V!RecordsDone(w) \/ V!Incomplete(w) \/ V!archived_records(w)
    <3>1. UNCHANGED <<v_record, v_calendar>> /\ Ahead(w) = {} /\ Behind(w) = {}
      BY <2>9 DEF V!RecordsDone, V!Incomplete, V!archived_records, Ahead, Behind
    <3>2. v_dropped[w] = {}
      BY <2>9 DEF V!RecordsDone, V!Incomplete, V!archived_records, MailsKnown, Cancelling
    <3>3. v_pc'[w] \in {"list", "idle", "scan"} /\ v_dropped'[w] = {}
      BY <2>9, <3>2 DEF V!RecordsDone, V!Incomplete, V!archived_records, V!Done, V!TypeOK
    <3>4. Ahead(w)' = {} /\ Behind(w)' = {}
      BY <3>3 DEF Ahead, Behind
    <3>. QED BY <2>3, <3>1, <3>4 DEF InStep
  \* It cancels legs in the archive ...
  <2>10. ASSUME NEW l \in Leg, V!KeepLeg(w, l) \/ V!ReadLeg(w, l) PROVE InStep(w)'
    <3>1. /\ v_pc[w] = "scan" /\ v_pc'[w] \in {"scan", "cancel"}
          /\ UNCHANGED <<v_msg, v_record, v_calendar, v_dropped>>
      BY <2>10 DEF V!KeepLeg, V!ReadLeg, V!TypeOK
    <3>2. Ahead(w) = {} /\ Ahead(w)' = {} /\ Behind(w)' = Behind(w)
      BY <3>1 DEF Ahead, Behind
    <3>. QED BY <2>3, <3>1, <3>2 DEF InStep, V!supersedes, V!Cancelled
  <2>11. CASE V!write_atomic(w)
    <3>1. /\ v_pc[w] = "cancel" /\ v_pc'[w] = "scan"
          /\ v_dropped'[w] = v_dropped[w] \cup {v_leg[w]}
          /\ UNCHANGED <<v_msg, v_calendar>>
      BY <2>11 DEF V!write_atomic, V!TypeOK
    <3>2. Ahead(w) = {} /\ Ahead(w)' = {} /\ Behind(w) = v_dropped[w]
          /\ Behind(w)' = v_dropped[w] \cup {v_leg[w]}
      BY <3>1 DEF Ahead, Behind
    <3>3. V!Superseded(v_leg[w], v_msg[w])
      BY <2>2, <3>1 DEF StillSuperseded
    <3>4. ~ V!supersedes(v_calendar[v_leg[w]], BookingDate[v_msg[w]])
      <4>1. v_leg[w] \in Leg
        BY <2>11, Cancel
      <4>2. CASE v_leg[w] \in v_dropped[w]
        BY <2>3, <3>2, <4>1, <4>2 DEF InStep
      <4>3. CASE v_leg[w] \notin v_dropped[w]
        <5>1. v_calendar[v_leg[w]] = v_record[v_leg[w]]
          BY <2>3, <3>2, <4>1, <4>3 DEF InStep
        <5>2. v_record[v_leg[w]].date \in Nat /\ BookingDate[v_msg[w]] \in Nat
          BY <2>11, <3>3, <4>1, Cancel, EntriesAreEntries DEF V!TypeOK, V!Superseded
        <5>. QED BY <3>3, <5>1, <5>2 DEF V!Superseded, V!supersedes
      <4>. QED BY <4>2, <4>3
    <3>5. \A k \in Leg : v_record'[k] = IF k = v_leg[w] THEN V!Cancelled(v_msg[w])
                                        ELSE v_record[k]
      BY <2>11, Cancel DEF V!TypeOK
    <3>. QED BY <2>3, <3>1, <3>2, <3>4, <3>5 DEF InStep, V!supersedes, V!Cancelled
  <2>12. CASE V!ScanDone(w)
    <3>1. /\ v_pc[w] = "scan" /\ v_pc'[w] = "recall" /\ v_todo'[w] = v_dropped[w]
          /\ UNCHANGED <<v_msg, v_record, v_calendar>>
      BY <2>12 DEF V!ScanDone, V!TypeOK
    <3>2. Ahead(w) = {} /\ Ahead(w)' = {} /\ Behind(w)' = Behind(w)
      BY <3>1 DEF Ahead, Behind
    <3>. QED BY <2>3, <3>1, <3>2 DEF InStep, V!supersedes, V!Cancelled
  \* ... and then in the calendar.
  <2>13. ASSUME NEW l \in Leg, V!RecallEvent(w, l) PROVE InStep(w)'
    <3>1. /\ v_pc[w] = "recall" /\ l \in v_todo[w] /\ v_todo'[w] = v_todo[w] \ {l}
          /\ UNCHANGED <<v_pc, v_msg, v_record>>
          /\ v_calendar' = V!WriteUnlessNewer(v_calendar, l, V!Cancelled(v_msg[w]))
          /\ v_msg[w] \in Booking
      BY <2>13 DEF V!RecallEvent, V!TypeOK, MailsKnown
    <3>2. Ahead(w) = {} /\ Ahead(w)' = {} /\ Behind(w) = v_todo[w]
          /\ Behind(w)' = v_todo[w] \ {l}
      BY <3>1 DEF Ahead, Behind
    <3>3. v_record[l] = V!Cancelled(v_msg[w])
          /\ ~ V!supersedes(v_calendar[l], V!Cancelled(v_msg[w]).date)
      BY <2>3, <3>1, <3>2, EntriesAreEntries DEF InStep
    <3>4. v_calendar' = [v_calendar EXCEPT ![l] = v_record[l]]
      BY <3>1, <3>3 DEF V!WriteUnlessNewer
    <3>5. \A k \in Leg : v_calendar'[k] = IF k = l THEN v_record[l] ELSE v_calendar[k]
      BY <3>4 DEF V!TypeOK
    <3>. QED BY <2>3, <3>1, <3>2, <3>5 DEF InStep, V!supersedes, V!Cancelled
  <2>14. CASE V!Finish(w)
    <3>1. UNCHANGED <<v_record, v_calendar>> /\ Ahead(w) = {} /\ Behind(w) = {}
      BY <2>14 DEF V!Finish, Ahead, Behind
    <3>2. v_pc'[w] = "idle"
      BY <2>14 DEF V!Finish, V!Done, V!TypeOK
    <3>3. Ahead(w)' = {} /\ Behind(w)' = {}
      BY <3>2 DEF Ahead, Behind
    <3>. QED BY <2>3, <3>1, <3>3 DEF InStep
  <2>15. ~ V!Abort(w) /\ \A l \in Leg : ~ V!FailLeg(w, l)
    BY DEF V!Abort, V!FailLeg
  <2>. QED BY <2>2, <2>5, <2>6, <2>7, <2>8, <2>9, <2>10, <2>11, <2>12, <2>13, <2>14, <2>15
           DEF V!Step
<1>. QED BY <1>1, <1>2

-----------------------------------------------------------------------------

\* The invariant holds throughout.
LEMMA BookingInvariant == ASSUME V!ReservationsAssumption PROVE V!Spec => []BookingInv
<1>1. V!Init => BookingInv
  BY BookingInit
<1>2. BookingInv /\ [V!Next]_(V!vars) => BookingInv'
  BY BookingTypesStep, RevokedStep, PurposeStep, SettlesStep, FollowsStep DEF BookingInv
<1>. QED BY <1>1, <1>2, PTL DEF V!Spec

(***************************************************************************)
(* A leg is cancelled only in the name of a complete itinerary without it, *)
(* and is booked again only by mail that is no older, whatever is filed at *)
(* the same time and whoever dies.                                         *)
(***************************************************************************)
THEOREM CancelledWithCause ==
    ASSUME V!ReservationsAssumption
    PROVE  V!Spec => []CancelledForCause
<1>1. BookingInv => CancelledForCause
  <2>. SUFFICES ASSUME BookingInv PROVE CancelledForCause
    OBVIOUS
  <2>. QED BY DEF BookingInv, RevokedBefore, CancelledForCause, V!CancelledForCause,
                  V!StaysCancelled
<1>. QED BY <1>1, BookingInvariant, PTL

(***************************************************************************)
(* A lone worker's complete itinerary has its way with the legs it does    *)
(* not list, in the calendar too as long as nothing fails, and it leaves   *)
(* alone what newer mail filed.                                            *)
(***************************************************************************)
THEOREM ItineraryPrevails ==
    ASSUME V!ReservationsAssumption
    PROVE  V!Spec => ItineraryHasItsWay
<1>1. BookingInv /\ [V!Next]_(V!vars) =>
        [V!Sequential =>
          \A w \in Planner : V!Finish(w) /\ v_clean[w] =>
              \A l \in Leg \ LegsOf[v_msg[w]] :
                  \/ v_record[l] = None
                  \/ v_record[l].cancelled
                  \/ v_record[l].date >= BookingDate[v_msg[w]]]_(V!vars)
  <2>. SUFFICES ASSUME BookingInv, V!Sequential, NEW w \in Planner, V!Finish(w),
                       NEW l \in Leg \ LegsOf[v_msg[w]]
                PROVE  Settled(l, v_msg[w])
    BY DEF Settled
  <2>1. v_pc[w] = "recall" /\ w \in v_setup.crew
    BY DEF V!Finish, BookingInv, MailsKnown
  <2>. QED BY <2>1 DEF BookingInv, ScanSettles, Cancelling
<1>2. BookingInv /\ [V!Next]_(V!vars) =>
        [V!Sequential /\ ~ v_setup.faulty =>
          \A w \in Planner : V!Finish(w) =>
              \A l \in Leg : v_record[l] = V!Cancelled(v_msg[w]) =>
                  v_calendar[l] = None \/ v_calendar[l].cancelled]_(V!vars)
  <2>. SUFFICES ASSUME BookingInv, V!Sequential, ~ v_setup.faulty,
                       NEW w \in Planner, V!Finish(w),
                       NEW l \in Leg, v_record[l] = V!Cancelled(v_msg[w])
                PROVE  v_calendar[l].cancelled
    OBVIOUS
  <2>1. v_pc[w] = "recall" /\ v_todo[w] = {} /\ w \in v_setup.crew
    BY DEF V!Finish, BookingInv, MailsKnown
  <2>2. l \notin Ahead(w) \cup Behind(w)
    BY <2>1 DEF Ahead, Behind
  <2>3. v_calendar[l] = v_record[l]
    BY <2>1, <2>2 DEF BookingInv, CalendarFollows, InStep
  <2>. QED BY <2>3 DEF V!Cancelled
<1>3. BookingInv /\ [V!Next]_(V!vars) /\ V!ReservationsAssumption =>
        [V!Sequential =>
          \A l \in Leg : v_record'[l] # v_record[l] =>
              ~ V!supersedes(v_record[l], v_record'[l].date)]_(V!vars)
  <2>. SUFFICES ASSUME BookingInv, [V!Next]_(V!vars), V!ReservationsAssumption, V!Sequential,
                       NEW l \in Leg, v_record'[l] # v_record[l]
                PROVE  ~ V!supersedes(v_record[l], v_record'[l].date)
    OBVIOUS
  <2>. USE DEF BookingInv
  <2>0. v_record[l] = None \/ v_record[l].date \in Nat
    BY DEF V!TypeOK, V!ReservationsAssumption, V!Dates
  <2>1. ASSUME NEW w \in Planner, NEW k \in Leg, V!file_one(w, k)
        PROVE  ~ V!supersedes(v_record[l], v_record'[l].date)
    <3>1. k = l
      BY <2>1, FileOne DEF V!TypeOK
    <3>2. v_record'[l] = V!Booked(v_msg[w]) /\ V!Booked(v_msg[w]).date \in Nat
      BY <2>1, <3>1, FileOne, EntriesAreEntries
    <3>. QED BY <2>0, <2>1, <3>1, <3>2, FileOne DEF V!supersedes
  <2>2. ASSUME NEW w \in Planner, V!write_atomic(w)
        PROVE  ~ V!supersedes(v_record[l], v_record'[l].date)
    <3>1. v_leg[w] = l
      BY <2>2, Cancel DEF V!TypeOK
    <3>2. v_record'[l].date = BookingDate[v_msg[w]] /\ BookingDate[v_msg[w]] \in Nat
      BY <2>2, <3>1, Cancel, EntriesAreEntries
    <3>3. v_pc[w] = "cancel" /\ w \in v_setup.crew
      BY <2>2 DEF V!write_atomic, MailsKnown
    <3>. QED BY <2>0, <3>1, <3>2, <3>3 DEF StillSuperseded, V!Superseded, V!supersedes
  <2>. QED BY <2>1, <2>2, RecordChanges
<1>4. V!Spec => V!ItineraryHonoured
  BY <1>1, BookingInvariant, PTL DEF V!Spec, V!ItineraryHonoured
<1>5. V!Spec => V!CancelledUnlessFaulty
  BY <1>2, BookingInvariant, PTL DEF V!Spec, V!CancelledUnlessFaulty
<1>6. V!Spec => V!OnlyOlderLegsTouched
  BY <1>3, BookingInvariant, PTL DEF V!Spec, V!OnlyOlderLegsTouched
<1>. QED BY <1>4, <1>5, <1>6 DEF ItineraryHasItsWay, V!ItineraryHasItsWay

-----------------------------------------------------------------------------
(***************************************************************************)
(* Reindex                                                                 *)
(***************************************************************************)

\* A number for each of finitely many things: one of them has the largest.
LEMMA Largest ==
    ASSUME NEW S, IsFiniteSet(S), S # {}, NEW f \in [S -> Nat]
    PROVE  \E x \in S : \A y \in S : f[y] <= f[x]
<1>. DEFINE Above(x) == {y \in S : f[y] > f[x]}
            Sizes == {Cardinality(Above(x)) : x \in S}
<1>1. \A x \in S : IsFiniteSet(Above(x)) /\ Cardinality(Above(x)) \in Nat
  BY FS_Subset, FS_CardinalityType
<1>2. Sizes \subseteq Nat /\ Sizes # {}
  BY <1>1
<1>3. PICK k \in Sizes : \A j \in Sizes : k <= j
  <2>. HIDE DEF Sizes
  <2>. QED BY <1>2, Smallest
<1>4. PICK x \in S : k = Cardinality(Above(x))
  BY <1>3
<1>5. ASSUME NEW y \in S, f[y] > f[x] PROVE FALSE
  <2>1. y \in Above(x) /\ y \notin Above(y)
    BY <1>5
  <2>2. Above(y) \subseteq Above(x)
    BY <1>5
  <2>3. Cardinality(Above(y)) < Cardinality(Above(x))
    <3>. HIDE DEF Above
    <3>. QED BY <1>1, <1>5, <2>1, <2>2, FS_Subset
  <2>4. k <= Cardinality(Above(y))
    BY <1>3, <1>5
  <2>. QED BY <1>1, <1>4, <2>3, <2>4
<1>. QED BY <1>5

\* The name that is looked at is the first of those that are listed.
LEMMA FirstListed ==
    ASSUME X!ReindexAssumption, NEW i, x_paths[i] \subseteq X!Name, x_paths[i] # {}
    PROVE  /\ X!First(i) \in x_paths[i]
           /\ \A n \in x_paths[i] : Rank[X!First(i)] <= Rank[n]
<1>. DEFINE Ranks == {Rank[n] : n \in x_paths[i]}
<1>1. Ranks \subseteq Nat /\ Ranks # {}
  BY DEF X!ReindexAssumption
<1>2. PICK r \in Ranks : \A s \in Ranks : r <= s
  <2>. HIDE DEF Ranks
  <2>. QED BY <1>1, Smallest
<1>3. \E n \in x_paths[i] : \A m \in x_paths[i] : Rank[n] <= Rank[m]
  BY <1>2
<1>. QED BY <1>3 DEF X!First

-----------------------------------------------------------------------------

\* A process that has read a record it is about to move, or has just moved.
Moving == {"probe", "compare", "write", "remove"}

RenamingTypes ==
    /\ x_files \in [X!Name -> X!Record \cup {None, Corrupt}]
    /\ x_at \in [Indexer -> {"idle", "list"} \cup Moving]
    /\ x_dry \in [Indexer -> BOOLEAN]
    /\ x_paths \in [Indexer -> SUBSET X!Name]
    /\ x_body \in [Indexer -> X!Record \cup {None}]
    /\ x_company \in Company
    /\ \A i \in Indexer :
          /\ x_at[i] # "idle" => i \in x_company.crew
          /\ x_at[i] \in Moving =>
                x_paths[i] # {} /\ x_body[i] \in X!Record /\ x_body[i][1] \in IndexedLeg

\* A leg's own name holds that leg.
OwnNames == \A l \in IndexedLeg : x_files[l] \in X!Record => x_files[l][1] = l

\* What a lone process has read is still where it was, and was filed under
\* another name than it goes to.
AtHand ==
    X!Alone =>
        \A i \in x_company.crew : x_at[i] \in Moving =>
            /\ x_files[X!First(i)] = x_body[i]
            /\ X!First(i) # x_body[i][1]

\* It writes over nothing newer, and removes only what is at the target, or
\* is older than what is there.
Supplanted ==
    X!Alone =>
        \A i \in x_company.crew :
            /\ x_at[i] = "write" => ~ X!filed_from_newer(x_body[i][1], x_body[i][2])
            /\ x_at[i] = "remove" =>
                  \/ x_files[x_body[i][1]] = x_body[i]
                  \/ X!filed_from_newer(x_body[i][1], x_body[i][2])

\* The newest is what it is said to be.
NewestBounds ==
    X!Alone =>
        \A l \in IndexedLeg : x_newest[l] # None =>
            /\ x_newest[l] \in Nat
            /\ \A d \in X!DatesOf(l, x_files) : d \in Nat /\ d <= x_newest[l]

\* No leg is left under an old name that a process has been through.
PassedOver ==
    X!Alone =>
        \A i \in x_company.crew : x_at[i] # "idle" /\ ~ x_dry[i] =>
            \A n \in OldName \ x_paths[i] :
                x_files[n] \in X!Record => x_files[n][1] = None

RenamingInv ==
    /\ RenamingTypes
    /\ OwnNames
    /\ AtHand
    /\ Supplanted
    /\ NewestBounds
    /\ X!NewestCopySurvives
    /\ PassedOver

-----------------------------------------------------------------------------

\* A date of a leg is that of one of its copies.
LEMMA DatesAreOfCopies ==
    \A l, d, F : d \in X!DatesOf(l, F) <=>
        \E n \in X!Name : F[n] \in X!Record /\ F[n][1] = l /\ d = F[n][2]
BY DEF X!DatesOf

\* To begin with the newest copy is the newest of them all.
LEMMA RenamingInit == ASSUME X!ReindexAssumption, X!Init PROVE RenamingInv
<1>. USE DEF X!Init
<1>1. RenamingTypes
  BY DEF X!ReindexAssumption, RenamingTypes, Moving
<1>2. OwnNames
  BY DEF X!ReindexAssumption, OwnNames
<1>3. AtHand /\ Supplanted /\ PassedOver
  <2>1. \A i \in x_company.crew : x_at[i] = "idle"
    BY DEF X!ReindexAssumption
  <2>. QED BY <2>1 DEF AtHand, Supplanted, PassedOver, Moving
<1>4. ASSUME NEW l \in IndexedLeg
      PROVE  /\ x_newest[l] \in {0, None} \cup X!DatesOf(l, x_files)
             /\ x_newest[l] # None =>
                  /\ x_newest[l] \in Nat
                  /\ \A d \in X!DatesOf(l, x_files) : d \in Nat /\ d <= x_newest[l]
  <2>. DEFINE D == {0} \cup X!DatesOf(l, x_files)
              Copies == {n \in X!Name : x_files[n] \in X!Record /\ x_files[n][1] = l}
              date == [n \in Copies |-> x_files[n][2]]
  <2>1. x_newest[l] = X!Latest(D)
    OBVIOUS
  <2>2. CASE None \in D
    BY <2>1, <2>2 DEF X!Latest
  <2>3. CASE None \notin D
    <3>1. X!Latest(D) = CHOOSE d \in D : \A e \in D : e <= d
      BY <2>3 DEF X!Latest
    <3>2. D \subseteq Nat
      <4>1. \A d \in X!DatesOf(l, x_files) : d \in Nat \cup {None}
        BY DatesAreOfCopies DEF X!Record
      <4>. QED BY <2>3, <4>1
    <3>3. date \in [Copies -> Nat]
      <4>1. ASSUME NEW n \in Copies PROVE x_files[n][2] \in D
        BY DatesAreOfCopies
      <4>. QED BY <3>2, <4>1
    <3>4. \E d \in D : \A e \in D : e <= d
      <4>1. CASE Copies = {}
        <5>1. D = {0}
          BY <4>1, DatesAreOfCopies
        <5>. QED BY <5>1
      <4>2. CASE Copies # {}
        <5>1. IsFiniteSet(Copies)
          <6>1. IsFiniteSet(X!Name)
            BY DEF X!ReindexAssumption, X!IsFiniteSet, IsFiniteSet
          <6>. QED BY <6>1, FS_Subset
        <5>2. PICK x \in Copies : \A y \in Copies : date[y] <= date[x]
          <6>. HIDE DEF Copies, date
          <6>. QED BY <3>3, <4>2, <5>1, Largest
        <5>3. date[x] \in D /\ date[x] \in Nat
          BY <3>3, DatesAreOfCopies
        <5>4. \A e \in D : e <= date[x]
          <6>1. ASSUME NEW e \in X!DatesOf(l, x_files) PROVE \E y \in Copies : e = date[y]
            BY DatesAreOfCopies
          <6>. HIDE DEF Copies, date
          <6>. QED BY <5>2, <5>3, <6>1
        <5>. QED BY <5>3, <5>4
      <4>. QED BY <4>1, <4>2
    <3>5. x_newest[l] \in D /\ \A e \in D : e <= x_newest[l]
      <4>. HIDE DEF D
      <4>. QED BY <2>1, <3>1, <3>4
    <3>. QED BY <3>2, <3>5
  <2>. QED BY <2>2, <2>3
<1>5. NewestBounds /\ X!NewestCopySurvives
  BY <1>4 DEF NewestBounds, X!NewestCopySurvives
<1>. QED BY <1>1, <1>2, <1>3, <1>5 DEF RenamingInv

\* Everything keeps its type, and a leg's own name its leg.
LEMMA RenamingTypesStep ==
    ASSUME X!ReindexAssumption, RenamingTypes, OwnNames, [X!Next]_(X!vars)
    PROVE  RenamingTypes' /\ OwnNames'
<1>. USE DEF RenamingTypes, Moving, X!Goto
<1>1. ASSUME NEW m \in LegMail, X!file_one(m[1], m[2]), x_company' = x_company
      PROVE  RenamingTypes' /\ OwnNames'
  <2>1. m[1] \in IndexedLeg /\ m[1] \in X!Name /\ <<m[1], m[2]>> \in X!Record
        /\ <<m[1], m[2]>>[1] = m[1]
    BY DEF X!ReindexAssumption, X!Record, X!Name
  <2>2. /\ x_files' = [x_files EXCEPT ![m[1]] = <<m[1], m[2]>>]
        /\ UNCHANGED <<x_at, x_dry, x_paths, x_body>>
    BY <1>1 DEF X!file_one
  <2>. HIDE DEF X!Name, X!Record
  <2>3. RenamingTypes'
    BY <1>1, <2>1, <2>2
  <2>4. OwnNames'
    BY <2>1, <2>2 DEF OwnNames
  <2>. QED BY <2>3, <2>4
<1>2. ASSUME NEW i \in Indexer, X!archived_records(i), x_company' = x_company
      PROVE  RenamingTypes' /\ OwnNames'
  BY <1>2 DEF X!archived_records, OwnNames
<1>3. ASSUME NEW i \in Indexer, X!Leave(i), x_company' = x_company
      PROVE  RenamingTypes' /\ OwnNames'
  BY <1>3 DEF X!Leave, X!PassFirst, OwnNames
<1>4. ASSUME NEW i \in Indexer, X!Read(i), x_company' = x_company
      PROVE  RenamingTypes' /\ OwnNames'
  <2>1. PICK r \in X!Record : r = x_files[X!First(i)] /\ r[1] # None
        /\ x_body' = [x_body EXCEPT ![i] = r] /\ x_at' = [x_at EXCEPT ![i] = "probe"]
        /\ x_at[i] = "list" /\ x_paths[i] # {}
        /\ UNCHANGED <<x_files, x_dry, x_paths>>
    BY <1>4 DEF X!Read
  <2>2. r[1] \in IndexedLeg
    BY <2>1 DEF X!Record
  <2>3. RenamingTypes'
    BY <1>4, <2>1, <2>2
  <2>. QED BY <2>1, <2>3 DEF OwnNames
<1>5. ASSUME NEW i \in Indexer, X!Probe(i), x_company' = x_company
      PROVE  RenamingTypes' /\ OwnNames'
  <2>1. /\ x_at[i] = "probe"
        /\ UNCHANGED <<x_files, x_dry>>
        /\ \/ /\ x_paths' = [x_paths EXCEPT ![i] = @ \ {X!First(i)}]
              /\ x_body' = [x_body EXCEPT ![i] = None]
              /\ x_at' = [x_at EXCEPT ![i] = "list"]
           \/ /\ UNCHANGED <<x_paths, x_body>>
              /\ \/ x_at' = [x_at EXCEPT ![i] = "compare"]
                 \/ x_at' = [x_at EXCEPT ![i] = "write"]
    BY <1>5 DEF X!Probe, X!PassFirst
  <2>. QED BY <1>5, <2>1 DEF OwnNames
<1>6. ASSUME NEW i \in Indexer, X!Compare(i), x_company' = x_company
      PROVE  RenamingTypes' /\ OwnNames'
  BY <1>6 DEF X!Compare, X!Kept, OwnNames
<1>7. ASSUME NEW i \in Indexer, X!write_atomic(i), x_company' = x_company
      PROVE  RenamingTypes' /\ OwnNames'
  <2>1. /\ x_at[i] = "write" /\ x_body[i] \in X!Record /\ x_body[i][1] \in IndexedLeg
        /\ x_body[i][1] \in X!Name
    BY <1>7 DEF X!write_atomic, X!Name
  <2>. QED BY <1>7, <2>1 DEF X!write_atomic, OwnNames
<1>8. ASSUME NEW i \in Indexer, X!remove_file(i), x_company' = x_company
      PROVE  RenamingTypes' /\ OwnNames'
  <2>1. /\ x_at[i] = "remove" /\ x_at' = [x_at EXCEPT ![i] = "list"]
        /\ x_paths' = [x_paths EXCEPT ![i] = @ \ {X!First(i)}]
        /\ x_body' = [x_body EXCEPT ![i] = None]
        /\ x_files' = [x_files EXCEPT ![X!First(i)] = None]
        /\ x_dry' = x_dry
    BY <1>8 DEF X!remove_file, X!PassFirst
  <2>2. RenamingTypes'
    BY <1>8, <2>1
  <2>3. None \notin X!Record
    BY DEF X!ReindexAssumption
  <2>4. ASSUME NEW l \in IndexedLeg, x_files'[l] \in X!Record
        PROVE  x_files'[l] = x_files[l]
    <3>1. l \in X!Name
      BY DEF X!Name
    <3>. HIDE DEF X!Name
    <3>. QED BY <2>1, <2>3, <2>4, <3>1
  <2>. QED BY <2>2, <2>4 DEF OwnNames
<1>9. ASSUME NEW i \in Indexer, X!Finish(i) \/ X!Abort(i), x_company' = x_company
      PROVE  RenamingTypes' /\ OwnNames'
  <2>1. X!Over(i)
    BY <1>9 DEF X!Finish, X!Abort
  <2>. QED BY <1>9, <2>1 DEF X!Over, OwnNames
<1>10. CASE UNCHANGED X!vars
  BY <1>10 DEF X!vars, OwnNames
<1>. QED BY <1>1, <1>2, <1>3, <1>4, <1>5, <1>6, <1>7, <1>8, <1>9, <1>10 DEF X!Next

\* A lone process: nobody else takes a step, and it stays the only one.
LEMMA LoneProcess ==
    ASSUME RenamingTypes, X!Alone, X!Next
    PROVE  \E i \in Indexer :
              /\ x_company' = x_company /\ i \in x_company.crew
              /\ \A j \in x_company.crew : j = i
              /\ \/ X!archived_records(i) \/ X!Leave(i) \/ X!Read(i) \/ X!Probe(i)
                 \/ X!Compare(i) \/ X!write_atomic(i) \/ X!remove_file(i)
                 \/ X!Finish(i) \/ X!Abort(i)
<1>1. \A l, d : ~ X!file_one(l, d)
  BY DEF X!Alone, X!file_one
<1>2. PICK i \in Indexer :
                 \/ X!archived_records(i) \/ X!Leave(i) \/ X!Read(i) \/ X!Probe(i)
                 \/ X!Compare(i) \/ X!write_atomic(i) \/ X!remove_file(i)
                 \/ X!Finish(i) \/ X!Abort(i)
  BY <1>1 DEF X!Next
<1>3. i \in x_company.crew
  BY <1>2 DEF X!archived_records, X!Leave, X!Read, X!Probe, X!Compare, X!write_atomic,
              X!remove_file, X!Finish, X!Abort, RenamingTypes
<1>. QED BY <1>2, <1>3 DEF X!Next, X!Alone

\* What a lone process has at hand stays so while it moves it.
LEMMA AtHandStep ==
    ASSUME X!ReindexAssumption, RenamingTypes, AtHand, [X!Next]_(X!vars)
    PROVE  AtHand'
<1>1. CASE UNCHANGED X!vars
  BY <1>1 DEF X!vars, AtHand, X!Alone, X!First
<1>2. CASE X!Next
  <2>1. x_company' = x_company /\ (X!Alone' <=> X!Alone)
    BY <1>2 DEF X!Next, X!Alone
  <2>. SUFFICES ASSUME X!Alone PROVE AtHand'
    BY <2>1 DEF AtHand
  <2>2. PICK i \in Indexer :
              /\ x_company' = x_company /\ i \in x_company.crew
              /\ \A j \in x_company.crew : j = i
              /\ \/ X!archived_records(i) \/ X!Leave(i) \/ X!Read(i) \/ X!Probe(i)
                 \/ X!Compare(i) \/ X!write_atomic(i) \/ X!remove_file(i)
                 \/ X!Finish(i) \/ X!Abort(i)
    BY <1>2, LoneProcess
  <2>. DEFINE Hand == x_at[i] \in Moving => /\ x_files[X!First(i)] = x_body[i]
                                            /\ X!First(i) # x_body[i][1]
  <2>3. Hand
    BY <2>2 DEF AtHand
  <2>4. SUFFICES Hand'
    BY <2>2 DEF AtHand
  <2>. USE DEF X!Goto, Moving
  <2>5. CASE X!Read(i)
    <3>1. /\ x_body'[i] = x_files[X!First(i)] /\ X!First(i) # x_files[X!First(i)][1]
          /\ x_paths' = x_paths /\ x_files' = x_files
      BY <2>5 DEF X!Read, RenamingTypes
    <3>2. X!First(i)' = X!First(i)
      BY <3>1 DEF X!First
    <3>. QED BY <3>1, <3>2
  <2>6. CASE X!Probe(i)
    <3>1. /\ x_at[i] = "probe" /\ x_files' = x_files
          /\ \/ x_at'[i] = "list"
             \/ UNCHANGED <<x_paths, x_body>>
      BY <2>6 DEF X!Probe, RenamingTypes
    <3>. QED BY <2>3, <3>1 DEF X!First
  <2>7. CASE X!Compare(i)
    <3>1. x_at[i] = "compare" /\ UNCHANGED <<x_files, x_paths, x_body>>
      BY <2>7 DEF X!Compare, X!Kept
    <3>. QED BY <2>3, <3>1 DEF X!First
  <2>8. CASE X!write_atomic(i)
    <3>1. /\ x_at[i] = "write" /\ UNCHANGED <<x_paths, x_body>>
          /\ x_files' = [x_files EXCEPT ![x_body[i][1]] = x_body[i]]
      BY <2>8 DEF X!write_atomic
    <3>2. x_files'[X!First(i)] = x_files[X!First(i)]
      BY <2>3, <3>1 DEF RenamingTypes
    <3>. QED BY <2>3, <3>1, <3>2 DEF X!First
  <2>9. CASE \/ X!archived_records(i) \/ X!Leave(i) \/ X!remove_file(i)
             \/ X!Finish(i) \/ X!Abort(i)
    <3>1. x_at'[i] \in {"list", "idle"}
      BY <2>9 DEF X!archived_records, X!Leave, X!remove_file, X!Finish, X!Abort, X!Over,
                  RenamingTypes
    <3>. QED BY <3>1
  <2>. QED BY <2>2, <2>5, <2>6, <2>7, <2>8, <2>9
<1>. QED BY <1>1, <1>2

\* It writes where there is no file or where it has compared the dates.
LEMMA SupplantedStep ==
    ASSUME X!ReindexAssumption, RenamingTypes, Supplanted, [X!Next]_(X!vars)
    PROVE  Supplanted'
<1>1. CASE UNCHANGED X!vars
  BY <1>1 DEF X!vars, Supplanted, X!Alone, X!filed_from_newer
<1>2. CASE X!Next
  <2>1. x_company' = x_company /\ (X!Alone' <=> X!Alone)
    BY <1>2 DEF X!Next, X!Alone
  <2>. SUFFICES ASSUME X!Alone PROVE Supplanted'
    BY <2>1 DEF Supplanted
  <2>2. PICK i \in Indexer :
              /\ x_company' = x_company /\ i \in x_company.crew
              /\ \A j \in x_company.crew : j = i
              /\ \/ X!archived_records(i) \/ X!Leave(i) \/ X!Read(i) \/ X!Probe(i)
                 \/ X!Compare(i) \/ X!write_atomic(i) \/ X!remove_file(i)
                 \/ X!Finish(i) \/ X!Abort(i)
    BY <1>2, LoneProcess
  <2>. DEFINE Clear == x_at[i] = "write" =>
                         ~ X!filed_from_newer(x_body[i][1], x_body[i][2])
              Safe == x_at[i] = "remove" =>
                        \/ x_files[x_body[i][1]] = x_body[i]
                        \/ X!filed_from_newer(x_body[i][1], x_body[i][2])
  <2>4. SUFFICES Clear' /\ Safe'
    BY <2>2 DEF Supplanted
  <2>. USE DEF X!Goto, Moving
  <2>5. CASE X!Probe(i)
    <3>1. CASE x_at'[i] = "write"
      <4>1. /\ ~ X!Merges(i, x_body[i][1]) /\ UNCHANGED <<x_files, x_body>>
        BY <2>5, <3>1 DEF X!Probe, RenamingTypes
      <4>2. x_files[x_body[i][1]] \notin X!Record
        BY <4>1 DEF X!Merges, X!ReindexAssumption
      <4>. QED BY <3>1, <4>1, <4>2 DEF X!filed_from_newer
    <3>2. x_at'[i] # "remove"
      BY <2>5 DEF X!Probe, RenamingTypes
    <3>. QED BY <3>1, <3>2
  <2>6. CASE X!Compare(i)
    BY <2>6 DEF X!Compare, X!Kept, RenamingTypes, X!filed_from_newer
  <2>7. CASE X!write_atomic(i)
    <3>1. /\ x_at[i] = "write" /\ x_body' = x_body /\ x_at'[i] = "remove"
          /\ x_files' = [x_files EXCEPT ![x_body[i][1]] = x_body[i]]
      BY <2>7 DEF X!write_atomic, RenamingTypes
    <3>2. x_body[i][1] \in X!Name
      BY <3>1 DEF RenamingTypes, X!Name
    <3>3. x_files'[x_body[i][1]] = x_body[i]
      BY <3>1, <3>2 DEF RenamingTypes
    <3>. QED BY <3>1, <3>3
  <2>8. CASE \/ X!archived_records(i) \/ X!Leave(i) \/ X!Read(i) \/ X!remove_file(i)
             \/ X!Finish(i) \/ X!Abort(i)
    <3>1. x_at'[i] \in {"list", "idle", "probe"}
      BY <2>8 DEF X!archived_records, X!Leave, X!Read, X!remove_file, X!Finish, X!Abort,
                  X!Over, RenamingTypes
    <3>. QED BY <3>1
  <2>. QED BY <2>2, <2>5, <2>6, <2>7, <2>8
<1>. QED BY <1>1, <1>2

\* Of the files, a lone process changes only those it writes and removes.
LEMMA FilesChange ==
    ASSUME NEW i \in Indexer,
           \/ X!archived_records(i) \/ X!Leave(i) \/ X!Read(i) \/ X!Probe(i)
           \/ X!Compare(i) \/ X!write_atomic(i) \/ X!remove_file(i)
           \/ X!Finish(i) \/ X!Abort(i)
    PROVE  /\ x_newest' = x_newest
           /\ X!write_atomic(i) \/ X!remove_file(i) \/ x_files' = x_files
BY DEF X!archived_records, X!Leave, X!Read, X!Probe, X!Compare, X!Kept, X!write_atomic,
       X!remove_file, X!Finish, X!Abort, X!Over

\* Whatever a lone process does, the newest copy is still on file.
LEMMA NewestStep ==
    ASSUME X!ReindexAssumption, RenamingTypes, OwnNames, AtHand, Supplanted, NewestBounds,
           X!NewestCopySurvives, [X!Next]_(X!vars)
    PROVE  NewestBounds' /\ X!NewestCopySurvives'
<1>1. CASE UNCHANGED X!vars
  BY <1>1 DEF X!vars, NewestBounds, X!NewestCopySurvives, X!Alone
<1>2. CASE X!Next
  <2>1. x_company' = x_company /\ (X!Alone' <=> X!Alone)
    BY <1>2 DEF X!Next, X!Alone
  <2>. SUFFICES ASSUME X!Alone PROVE NewestBounds' /\ X!NewestCopySurvives'
    BY <2>1 DEF NewestBounds, X!NewestCopySurvives
  <2>2. PICK i \in Indexer :
              /\ x_company' = x_company /\ i \in x_company.crew
              /\ \A j \in x_company.crew : j = i
              /\ \/ X!archived_records(i) \/ X!Leave(i) \/ X!Read(i) \/ X!Probe(i)
                 \/ X!Compare(i) \/ X!write_atomic(i) \/ X!remove_file(i)
                 \/ X!Finish(i) \/ X!Abort(i)
    BY <1>2, LoneProcess
  <2>3. x_newest' = x_newest
    BY <2>2, FilesChange
  <2>4. SUFFICES ASSUME NEW l \in IndexedLeg
                 PROVE  /\ X!DatesOf(l, x_files') \subseteq X!DatesOf(l, x_files)
                        /\ x_newest[l] \in {0, None} \cup X!DatesOf(l, x_files')
    BY <2>3 DEF NewestBounds, X!NewestCopySurvives
  <2>5. x_newest[l] \in {0, None} \cup X!DatesOf(l, x_files)
    BY DEF X!NewestCopySurvives
  <2>6. CASE x_files' = x_files
    BY <2>5, <2>6
  <2>. DEFINE n == X!First(i)
              t == x_body[i][1]
  <2>7. ASSUME x_at[i] \in Moving
        PROVE  /\ n \in X!Name /\ t \in X!Name /\ t \in IndexedLeg
               /\ n # t /\ x_files[n] = x_body[i] /\ x_body[i] \in X!Record
    <3>1. t \in IndexedLeg /\ x_body[i] \in X!Record /\ x_paths[i] # {}
          /\ x_paths[i] \subseteq X!Name
      BY <2>7 DEF RenamingTypes
    <3>2. n \in X!Name
      BY <3>1, FirstListed
    <3>3. t \in X!Name
      BY <3>1 DEF X!Name
    <3>. QED BY <2>2, <2>7, <3>1, <3>2, <3>3 DEF AtHand
  <2>8. CASE X!write_atomic(i)
    <3>1. x_at[i] = "write" /\ x_files' = [x_files EXCEPT ![t] = x_body[i]]
      BY <2>8 DEF X!write_atomic
    <3>2. /\ n \in X!Name /\ t \in X!Name /\ t \in IndexedLeg
          /\ n # t /\ x_files[n] = x_body[i] /\ x_body[i] \in X!Record
      BY <2>7, <3>1 DEF Moving
    <3>. HIDE DEF n
    <3>3. /\ x_files'[t] = x_body[i]
          /\ \A m \in X!Name : m # t => x_files'[m] = x_files[m]
      BY <3>1, <3>2 DEF RenamingTypes
    <3>4. X!DatesOf(l, x_files') \subseteq X!DatesOf(l, x_files)
      <4>. SUFFICES ASSUME NEW m \in X!Name, x_files'[m] \in X!Record, x_files'[m][1] = l
                    PROVE  x_files'[m][2] \in X!DatesOf(l, x_files)
        BY DatesAreOfCopies
      <4>1. CASE m = t
        BY <4>1, <3>2, <3>3, DatesAreOfCopies
      <4>2. CASE m # t
        BY <4>2, <3>3, DatesAreOfCopies
      <4>. QED BY <4>1, <4>2
    <3>5. ASSUME x_newest[l] # None, x_newest[l] \in X!DatesOf(l, x_files)
          PROVE  x_newest[l] \in X!DatesOf(l, x_files')
      <4>1. PICK m \in X!Name : /\ x_files[m] \in X!Record /\ x_files[m][1] = l
                                /\ x_newest[l] = x_files[m][2]
        BY <3>5, DatesAreOfCopies
      <4>2. CASE m # t
        BY <4>1, <4>2, <3>3, DatesAreOfCopies
      <4>3. CASE m = t
        <5>1. l = t
          BY <4>1, <4>3, <3>2 DEF OwnNames
        <5>2. x_body[i][2] \in X!DatesOf(l, x_files)
          BY <5>1, <3>2, DatesAreOfCopies
        <5>3. /\ x_newest[l] \in Nat /\ x_body[i][2] \in Nat
              /\ x_body[i][2] <= x_newest[l]
          BY <3>5, <5>2 DEF NewestBounds
        <5>4. ~ X!filed_from_newer(t, x_body[i][2])
          BY <2>2, <3>1 DEF Supplanted
        <5>5. x_files[t][2] # None /\ x_body[i][2] # None
          BY <3>5, <4>1, <4>3, <5>3 DEF X!ReindexAssumption
        <5>6. x_newest[l] = x_body[i][2]
          BY <4>1, <4>3, <5>3, <5>4, <5>5 DEF X!filed_from_newer
        <5>. QED BY <5>1, <5>6, <3>2, <3>3, DatesAreOfCopies
      <4>. QED BY <4>2, <4>3
    <3>. QED BY <2>5, <3>4, <3>5
  <2>9. CASE X!remove_file(i)
    <3>1. x_at[i] = "remove" /\ x_files' = [x_files EXCEPT ![n] = None]
      BY <2>9 DEF X!remove_file
    <3>2. /\ n \in X!Name /\ t \in X!Name /\ t \in IndexedLeg
          /\ n # t /\ x_files[n] = x_body[i] /\ x_body[i] \in X!Record
      BY <2>7, <3>1 DEF Moving
    <3>. HIDE DEF n
    <3>3. /\ x_files'[n] \notin X!Record
          /\ \A m \in X!Name : m # n => x_files'[m] = x_files[m]
      BY <3>1, <3>2 DEF RenamingTypes, X!ReindexAssumption
    <3>4. X!DatesOf(l, x_files') \subseteq X!DatesOf(l, x_files)
      <4>. SUFFICES ASSUME NEW m \in X!Name, x_files'[m] \in X!Record, x_files'[m][1] = l
                    PROVE  x_files'[m][2] \in X!DatesOf(l, x_files)
        BY DatesAreOfCopies
      <4>1. m # n
        BY <3>3
      <4>. QED BY <4>1, <3>3, DatesAreOfCopies
    <3>5. ASSUME x_newest[l] # None, x_newest[l] \in X!DatesOf(l, x_files)
          PROVE  x_newest[l] \in X!DatesOf(l, x_files')
      <4>1. PICK m \in X!Name : /\ x_files[m] \in X!Record /\ x_files[m][1] = l
                                /\ x_newest[l] = x_files[m][2]
        BY <3>5, DatesAreOfCopies
      <4>2. CASE m # n
        BY <4>1, <4>2, <3>3, DatesAreOfCopies
      <4>3. CASE m = n
        <5>1. l = t /\ x_newest[l] = x_body[i][2]
          BY <4>1, <4>3, <3>2
        <5>2. CASE x_files[t] = x_body[i]
          BY <5>1, <5>2, <3>2, <3>3, DatesAreOfCopies
        <5>3. CASE X!filed_from_newer(t, x_body[i][2])
          <6>1. x_files[t] \in X!Record /\ x_files[t][1] = l
            BY <5>1, <5>3, <3>2 DEF X!filed_from_newer, OwnNames
          <6>2. x_files[t][2] \in X!DatesOf(l, x_files)
            BY <6>1, <3>2, DatesAreOfCopies
          <6>3. x_files[t][2] \in Nat /\ x_files[t][2] <= x_newest[l] /\ x_newest[l] \in Nat
            BY <3>5, <6>2 DEF NewestBounds
          <6>. QED BY <5>1, <5>3, <6>3 DEF X!filed_from_newer
        <5>. QED BY <2>2, <3>1, <5>2, <5>3 DEF Supplanted
      <4>. QED BY <4>2, <4>3
    <3>. QED BY <2>5, <3>4, <3>5
  <2>. QED BY <2>2, <2>6, <2>8, <2>9, FilesChange
<1>. QED BY <1>1, <1>2

\* A lone process passes over an old name only where it has moved what is
\* there, or where there is nothing to move.
LEMMA PassedOverStep ==
    ASSUME X!ReindexAssumption, RenamingTypes, AtHand, PassedOver, [X!Next]_(X!vars)
    PROVE  PassedOver'
<1>1. CASE UNCHANGED X!vars
  BY <1>1 DEF X!vars, PassedOver, X!Alone
<1>2. CASE X!Next
  <2>1. x_company' = x_company /\ (X!Alone' <=> X!Alone)
    BY <1>2 DEF X!Next, X!Alone
  <2>. SUFFICES ASSUME X!Alone PROVE PassedOver'
    BY <2>1 DEF PassedOver
  <2>2. PICK i \in Indexer :
              /\ x_company' = x_company /\ i \in x_company.crew
              /\ \A j \in x_company.crew : j = i
              /\ \/ X!archived_records(i) \/ X!Leave(i) \/ X!Read(i) \/ X!Probe(i)
                 \/ X!Compare(i) \/ X!write_atomic(i) \/ X!remove_file(i)
                 \/ X!Finish(i) \/ X!Abort(i)
    BY <1>2, LoneProcess
  <2>. DEFINE Tidy(n) == x_files[n] \in X!Record => x_files[n][1] = None
              Behind_ == x_at[i] # "idle" /\ ~ x_dry[i] =>
                            \A n \in OldName \ x_paths[i] : Tidy(n)
  <2>3. Behind_
    BY <2>2 DEF PassedOver
  <2>4. SUFFICES Behind_'
    BY <2>2 DEF PassedOver
  <2>5. None \notin X!Record /\ OldName \subseteq X!Name
        /\ \A n \in OldName : n \notin IndexedLeg
    BY DEF X!ReindexAssumption, X!Name
  <2>. USE DEF X!Goto
  <2>6. CASE X!archived_records(i)
    BY <2>5, <2>6 DEF X!archived_records, RenamingTypes
  <2>7. CASE X!Leave(i)
    <3>1. /\ x_paths'[i] = x_paths[i] \ {X!First(i)} /\ x_at[i] = "list"
          /\ UNCHANGED <<x_files, x_dry>>
      BY <2>7 DEF X!Leave, X!PassFirst, RenamingTypes
    <3>2. X!First(i) \in OldName => Tidy(X!First(i))
      BY <2>5, <2>7 DEF X!Leave, X!Record
    <3>. QED BY <2>3, <3>1, <3>2
  <2>8. CASE X!Read(i) \/ X!Compare(i)
    <3>1. x_at[i] # "idle" /\ UNCHANGED <<x_files, x_dry, x_paths>>
      BY <2>8 DEF X!Read, X!Compare, X!Kept
    <3>. QED BY <2>3, <3>1
  <2>9. CASE X!Probe(i)
    <3>1. x_at[i] # "idle" /\ UNCHANGED <<x_files, x_dry>> /\ (x_dry[i] \/ x_paths' = x_paths)
      BY <2>9 DEF X!Probe
    <3>. QED BY <2>3, <3>1
  <2>10. CASE X!write_atomic(i)
    <3>1. /\ x_at[i] = "write" /\ UNCHANGED <<x_paths, x_dry>>
          /\ x_files' = [x_files EXCEPT ![x_body[i][1]] = x_body[i]]
          /\ x_body[i][1] \in IndexedLeg
      BY <2>10 DEF X!write_atomic, RenamingTypes, Moving
    <3>2. \A n \in OldName : x_files'[n] = x_files[n]
      BY <2>5, <3>1 DEF RenamingTypes
    <3>. QED BY <2>3, <3>1, <3>2
  <2>11. CASE X!remove_file(i)
    <3>1. /\ x_at[i] = "remove" /\ x_dry' = x_dry
          /\ x_paths'[i] = x_paths[i] \ {X!First(i)}
          /\ x_files' = [x_files EXCEPT ![X!First(i)] = None]
      BY <2>11 DEF X!remove_file, X!PassFirst, RenamingTypes
    <3>2. \A n \in OldName : x_files'[n] = IF n = X!First(i) THEN None ELSE x_files[n]
      BY <2>5, <3>1 DEF RenamingTypes
    <3>. QED BY <2>3, <2>5, <3>1, <3>2
  <2>12. CASE X!Finish(i) \/ X!Abort(i)
    <3>1. x_at'[i] = "idle"
      BY <2>12 DEF X!Finish, X!Abort, X!Over, RenamingTypes
    <3>. QED BY <3>1
  <2>. QED BY <2>2, <2>6, <2>7, <2>8, <2>9, <2>10, <2>11, <2>12
<1>. QED BY <1>1, <1>2

-----------------------------------------------------------------------------

\* The invariant holds throughout.
LEMMA RenamingInvariant == ASSUME X!ReindexAssumption PROVE X!Spec => []RenamingInv
<1>1. X!Init => RenamingInv
  BY RenamingInit
<1>2. RenamingInv /\ [X!Next]_(X!vars) => RenamingInv'
  BY RenamingTypesStep, AtHandStep, SupplantedStep, NewestStep, PassedOverStep
     DEF RenamingInv
<1>. QED BY <1>1, <1>2, PTL DEF X!Spec

(***************************************************************************)
(* The newest copy of a leg is on file at every moment of a renaming that  *)
(* nothing else runs beside, wherever it dies and however often it is run  *)
(* again.                                                                  *)
(***************************************************************************)
THEOREM NewestSurvivesRenaming ==
    ASSUME X!ReindexAssumption
    PROVE  X!Spec => []NewestCopySurvives
<1>1. RenamingInv => NewestCopySurvives
  BY DEF RenamingInv, NewestCopySurvives
<1>. QED BY <1>1, RenamingInvariant, PTL

(***************************************************************************)
(* When such a renaming has gone through, no old name holds a leg any      *)
(* more, and at no time does it move what is not a leg.                    *)
(***************************************************************************)
THEOREM RenamingIsThorough ==
    ASSUME X!ReindexAssumption
    PROVE  X!Spec => X!OneCopyEach
<1>1. RenamingInv /\ [X!Next]_(X!vars) /\ X!ReindexAssumption =>
        [X!Alone =>
          \A i \in Indexer :
              /\ X!Finish(i) /\ ~ x_dry[i] =>
                    \A n \in OldName :
                        x_files[n] \in X!Record => x_files[n][1] = None
              /\ \A n \in OldName :
                    x_files[n] \in {None} \X (Nat \cup {None}) =>
                        x_files'[n] = x_files[n]]_(X!vars)
  <2>. SUFFICES ASSUME RenamingInv, X!Next, X!ReindexAssumption, X!Alone,
                       NEW i \in Indexer, NEW n \in OldName
                PROVE  /\ X!Finish(i) /\ ~ x_dry[i] =>
                             (x_files[n] \in X!Record => x_files[n][1] = None)
                       /\ x_files[n] \in {None} \X (Nat \cup {None}) =>
                             x_files'[n] = x_files[n]
    OBVIOUS
  <2>. USE DEF RenamingInv
  <2>1. ASSUME X!Finish(i), ~ x_dry[i], x_files[n] \in X!Record
        PROVE  x_files[n][1] = None
    <3>1. x_at[i] = "list" /\ x_paths[i] = {} /\ i \in x_company.crew
      BY <2>1 DEF X!Finish, RenamingTypes
    <3>. QED BY <2>1, <3>1 DEF PassedOver
  <2>2. ASSUME x_files[n] \in {None} \X (Nat \cup {None})
        PROVE  x_files'[n] = x_files[n]
    <3>1. PICK j \in Indexer :
              /\ x_company' = x_company /\ j \in x_company.crew
              /\ \A k \in x_company.crew : k = j
              /\ \/ X!archived_records(j) \/ X!Leave(j) \/ X!Read(j) \/ X!Probe(j)
                 \/ X!Compare(j) \/ X!write_atomic(j) \/ X!remove_file(j)
                 \/ X!Finish(j) \/ X!Abort(j)
      BY LoneProcess
    <3>2. n \notin IndexedLeg /\ None \notin IndexedLeg
      BY DEF X!ReindexAssumption
    <3>3. CASE X!write_atomic(j)
      <4>1. x_body[j][1] \in IndexedLeg /\ x_files' = [x_files EXCEPT ![x_body[j][1]] = x_body[j]]
        BY <3>3 DEF X!write_atomic, RenamingTypes, Moving
      <4>. QED BY <3>2, <4>1 DEF RenamingTypes
    <3>4. CASE X!remove_file(j)
      <4>1. /\ x_at[j] = "remove" /\ x_files' = [x_files EXCEPT ![X!First(j)] = None]
            /\ x_body[j][1] \in IndexedLeg
        BY <3>4 DEF X!remove_file, RenamingTypes, Moving
      <4>2. x_files[X!First(j)] = x_body[j]
        BY <3>1, <4>1 DEF AtHand, Moving
      <4>3. n # X!First(j)
        BY <2>2, <3>2, <4>1, <4>2
      <4>. QED BY <4>1, <4>3 DEF RenamingTypes
    <3>5. CASE x_files' = x_files
      BY <3>5
    <3>. QED BY <3>1, <3>3, <3>4, <3>5, FilesChange
  <2>. QED BY <2>1, <2>2
<1>. QED BY <1>1, RenamingInvariant, PTL DEF X!Spec, X!OneCopyEach

-----------------------------------------------------------------------------

\* What reindex reports of some files: for each that it would move, where to,
\* and whether the leg has a copy there by then.
Movable(F) == {n \in X!Name : F[n] \in X!Record /\ F[n][1] \notin {None, n}}
Merged(F, n) ==
    \/ F[F[n][1]] # None
    \/ \E m \in Movable(F) : F[m][1] = F[n][1] /\ Rank[m] < Rank[n]
Report(F, n) == <<n, F[n][1], Merged(F, n)>>

\* A list of such reports, of those among the names S, in order.
ReportOf(s, F, S) ==
    /\ s \in Seq({Report(F, n) : n \in Movable(F)})
    /\ \A n \in Movable(F) \cap S : \E k \in DOMAIN s : s[k] = Report(F, n)
    /\ \A k \in DOMAIN s : \E n \in Movable(F) \cap S : s[k] = Report(F, n)
    /\ \A j, k \in DOMAIN s : j < k => Rank[s[j][1]] < Rank[s[k][1]]

\* Two lists of the same reports in the same order are the same.
LEMMA OneReport ==
    ASSUME X!ReindexAssumption, NEW F, NEW S, NEW s, NEW t, ReportOf(s, F, S), ReportOf(t, F, S)
    PROVE  s = t
<1>. DEFINE Both == {k \in DOMAIN s \cap DOMAIN t : s[k] = t[k]}
            Differ == (DOMAIN s \cup DOMAIN t) \ Both
<1>1. DOMAIN s = 1 .. Len(s) /\ Len(s) \in Nat /\ DOMAIN t = 1 .. Len(t) /\ Len(t) \in Nat
  BY DEF ReportOf
<1>2. /\ \A k \in DOMAIN s : \E j \in DOMAIN t : s[k] = t[j]
      /\ \A k \in DOMAIN t : \E j \in DOMAIN s : t[k] = s[j]
  BY DEF ReportOf
<1>3. /\ \A k \in DOMAIN s : Rank[s[k][1]] \in Nat
      /\ \A k \in DOMAIN t : Rank[t[k][1]] \in Nat
  BY DEF ReportOf, Report, Movable, X!ReindexAssumption
<1>4. /\ \A j, k \in DOMAIN s : j < k => Rank[s[j][1]] < Rank[s[k][1]]
      /\ \A j, k \in DOMAIN t : j < k => Rank[t[j][1]] < Rank[t[k][1]]
  BY DEF ReportOf
<1>5. Differ = {}
  <2>. SUFFICES ASSUME Differ # {} PROVE FALSE
    OBVIOUS
  <2>1. Differ \subseteq Nat
    BY <1>1
  <2>2. PICK k \in Differ : \A j \in Differ : k <= j
    <3>. HIDE DEF Differ
    <3>. QED BY <2>1, Smallest
  <2>3. k \in Nat /\ \A j \in DOMAIN s \cup DOMAIN t : j < k => j \in Both
    BY <1>1, <2>1, <2>2
  <2>4. CASE k \in DOMAIN s
    <3>1. PICK j \in DOMAIN t : s[k] = t[j]
      BY <1>2, <2>4
    <3>2. j # k
      BY <2>2, <2>4, <3>1
    <3>3. ~ (j < k)
      <4>. SUFFICES ASSUME j < k PROVE FALSE
        OBVIOUS
      <4>1. j \in DOMAIN s /\ s[j] = t[j]
        BY <2>3
      <4>. QED BY <1>3, <1>4, <2>4, <3>1, <4>1
    <3>4. k \in DOMAIN t /\ k < j
      BY <1>1, <2>3, <2>4, <3>2, <3>3
    <3>5. PICK i \in DOMAIN s : t[k] = s[i]
      BY <1>2, <3>4
    <3>6. i # k
      BY <2>2, <2>4, <3>4, <3>5
    <3>7. ~ (i < k)
      <4>. SUFFICES ASSUME i < k PROVE FALSE
        OBVIOUS
      <4>1. i \in DOMAIN t /\ s[i] = t[i]
        BY <2>3
      <4>. QED BY <1>3, <1>4, <3>4, <3>5, <4>1
    <3>8. k < i
      BY <1>1, <2>3, <3>6, <3>7
    <3>9. Rank[s[k][1]] < Rank[s[i][1]] /\ Rank[t[k][1]] < Rank[t[j][1]]
      BY <1>4, <2>4, <3>4, <3>8
    <3>. QED BY <1>3, <2>4, <3>1, <3>4, <3>5, <3>9
  <2>5. CASE k \in DOMAIN t
    <3>1. PICK j \in DOMAIN s : t[k] = s[j]
      BY <1>2, <2>5
    <3>2. k \notin DOMAIN s
      BY <2>4
    <3>3. j < k
      BY <1>1, <2>3, <2>5, <3>2
    <3>4. j \in DOMAIN t /\ s[j] = t[j]
      BY <2>3, <3>3
    <3>. QED BY <1>3, <1>4, <2>5, <3>1, <3>3, <3>4
  <2>. QED BY <2>2, <2>4, <2>5
<1>6. DOMAIN s = DOMAIN t /\ \A k \in DOMAIN s : s[k] = t[k]
  BY <1>5
<1>. QED BY <1>1, <1>6 DEF ReportOf

\* Only the names that would be moved matter to a report.
LEMMA SameReport ==
    ASSUME NEW F, NEW S, NEW S2, NEW s, ReportOf(s, F, S),
           Movable(F) \cap S = Movable(F) \cap S2
    PROVE  ReportOf(s, F, S2)
BY DEF ReportOf

\* Nothing to report.
LEMMA NoReport ==
    ASSUME NEW F, NEW S, Movable(F) \cap S = {}
    PROVE  ReportOf(<<>>, F, S)
BY DEF ReportOf

\* One more report, of a name that sorts behind the others.
LEMMA MoreReported ==
    ASSUME NEW F, NEW S, NEW s, ReportOf(s, F, S), NEW n \in Movable(F),
           \A m \in Movable(F) \cap S : Rank[m] < Rank[n]
    PROVE  ReportOf(Append(s, Report(F, n)), F, S \cup {n})
<1>. DEFINE r == Report(F, n)
            R_ == {Report(F, m) : m \in Movable(F)}
            t == Append(s, r)
<1>1. s \in Seq(R_) /\ r \in R_ /\ r[1] = n
  BY DEF ReportOf, Report
<1>2. /\ t \in Seq(R_) /\ DOMAIN s = 1 .. Len(s) /\ DOMAIN t = 1 .. Len(s) + 1 /\ Len(s) \in Nat
      /\ t[Len(s) + 1] = r
      /\ \A k \in DOMAIN s : t[k] = s[k]
  <2>. HIDE DEF r, R_
  <2>. QED BY <1>1
<1>3. \A m \in Movable(F) \cap (S \cup {n}) : \E k \in DOMAIN t : t[k] = Report(F, m)
  <2>. HIDE DEF t
  <2>. QED BY <1>2 DEF ReportOf
<1>4. \A k \in DOMAIN t : \E m \in Movable(F) \cap (S \cup {n}) : t[k] = Report(F, m)
  <2>. HIDE DEF t
  <2>. QED BY <1>2 DEF ReportOf
<1>5. ASSUME NEW j \in DOMAIN t, NEW k \in DOMAIN t, j < k
      PROVE  Rank[t[j][1]] < Rank[t[k][1]]
  <2>. HIDE DEF t
  <2>1. j \in DOMAIN s /\ t[j] = s[j]
    BY <1>2, <1>5
  <2>2. CASE k \in DOMAIN s
    BY <1>2, <1>5, <2>1, <2>2 DEF ReportOf
  <2>3. CASE k = Len(s) + 1
    <3>1. PICK m \in Movable(F) \cap S : s[j] = Report(F, m)
      BY <2>1 DEF ReportOf
    <3>2. s[j][1] = m
      BY <3>1 DEF Report
    <3>. QED BY <1>1, <1>2, <2>1, <2>3, <3>1, <3>2
  <2>. QED BY <1>2, <2>2, <2>3
<1>. QED BY <1>2, <1>3, <1>4, <1>5 DEF ReportOf

\* The names a process has looked at, that which it is moving included.
Covered(i) ==
    (X!Name \ x_paths[i]) \cup
    (IF x_at[i] \in {"compare", "write", "remove"} THEN {X!First(i)} ELSE {})

\* F is what the files were when the process listed them: it has reported
\* what it has covered, and the rest of the old names is as it was.
UnderwaySince(i, F) ==
    /\ ReportOf(x_done[i], F, Covered(i))
    /\ x_claimed[i] = {F[n][1] : n \in Movable(F) \cap Covered(i)}
    /\ \A m \in Movable(F) \cap Covered(i), n \in x_paths[i] :
          n # m => Rank[m] < Rank[n]
    /\ \A n \in OldName \cap x_paths[i] : x_files[n] = F[n]
    /\ \A l \in IndexedLeg :
          /\ F[l] # None => x_files[l] # None
          /\ x_files[l] # None => F[l] # None \/ l \in x_claimed[i]
    /\ x_dry[i] => x_files = F /\ x_at[i] \in {"list", "probe"}

StartedFrom(i, F) ==
    /\ F \in [X!Name -> X!Record \cup {None, Corrupt}]
    /\ \A l \in IndexedLeg : F[l] \in X!Record => F[l][1] = l
    /\ x_at[i] = "idle" => F = x_files /\ x_done[i] = <<>> /\ x_claimed[i] = {}
    /\ x_at[i] # "idle" => UnderwaySince(i, F)
    /\ x_foretold # None => ReportOf(x_foretold, F, X!Name)

Foretells ==
    /\ x_claimed \in [Indexer -> SUBSET IndexedLeg]
    /\ x_done = [i \in Indexer |-> x_done[i]]
    /\ X!Alone => \A i \in x_company.crew : \E F : StartedFrom(i, F)

\* To begin with nothing is underway and nothing foretold.
LEMMA ForetellsInit == ASSUME X!ReindexAssumption, X!Init PROVE Foretells
<1>1. x_files \in [X!Name -> X!Record \cup {None, Corrupt}]
  BY DEF X!Init, X!ReindexAssumption
<1>2. ASSUME NEW l \in IndexedLeg, x_files[l] \in X!Record PROVE x_files[l][1] = l
  BY <1>2 DEF X!Init, X!ReindexAssumption
<1>3. ASSUME NEW i \in Indexer PROVE StartedFrom(i, x_files)
  BY <1>1, <1>2 DEF StartedFrom, X!Init
<1>4. x_company.crew \subseteq Indexer
  BY DEF X!Init, X!ReindexAssumption
<1>. QED BY <1>3, <1>4 DEF Foretells, X!Init

\* What a process has at hand it is yet to report, or was the last it did.
LEMMA AtHandMoves ==
    ASSUME X!ReindexAssumption, RenamingTypes, OwnNames, AtHand, X!Alone,
           NEW i \in x_company.crew, NEW F, StartedFrom(i, F), x_at[i] \in Moving
    PROVE  LET n == X!First(i) IN
           /\ n \in x_paths[i] /\ n \in OldName /\ n \in Movable(F)
           /\ F[n] = x_body[i] /\ F[n][1] \in IndexedLeg
           /\ \A m \in x_paths[i] : m # n => Rank[n] < Rank[m]
<1>. DEFINE n == X!First(i)
<1>1. /\ x_paths[i] # {} /\ x_paths[i] \subseteq X!Name /\ i \in Indexer
      /\ x_body[i] \in X!Record /\ x_body[i][1] \in IndexedLeg
  BY DEF RenamingTypes, X!ReindexAssumption
<1>2. n \in x_paths[i] /\ \A m \in x_paths[i] : Rank[n] <= Rank[m]
  BY <1>1, FirstListed
<1>3. x_files[n] = x_body[i] /\ n # x_body[i][1]
  BY DEF AtHand
<1>4. n \in OldName
  BY <1>1, <1>2, <1>3 DEF OwnNames, X!Name
<1>5. F[n] = x_body[i]
  <2>1. UnderwaySince(i, F)
    BY DEF StartedFrom, Moving
  <2>. QED BY <1>2, <1>3, <1>4, <2>1 DEF UnderwaySince
<1>6. n \in Movable(F)
  BY <1>1, <1>2, <1>3, <1>5 DEF Movable, X!ReindexAssumption
<1>7. \A m \in x_paths[i] : m # n => Rank[n] < Rank[m]
  <2>1. Rank \in [X!Name -> Nat] /\ \A p, q \in X!Name : Rank[p] = Rank[q] => p = q
    BY DEF X!ReindexAssumption
  <2>. HIDE DEF n
  <2>. QED BY <1>1, <1>2, <2>1
<1>. QED BY <1>1, <1>2, <1>4, <1>5, <1>6, <1>7

\* What a run knows of a target is what there is to know.
LEMMA MergesTruly ==
    ASSUME X!ReindexAssumption, RenamingTypes, OwnNames, AtHand, X!Alone,
           NEW i \in x_company.crew, NEW F, StartedFrom(i, F), x_at[i] = "probe"
    PROVE  X!Merges(i, x_body[i][1]) = Merged(F, X!First(i))
<1>. DEFINE n == X!First(i)
            t == x_body[i][1]
<1>1. /\ n \in x_paths[i] /\ n \in Movable(F) /\ F[n][1] = t /\ t \in IndexedLeg
      /\ \A m \in x_paths[i] : m # n => Rank[n] < Rank[m]
  BY AtHandMoves DEF Moving
<1>2. UnderwaySince(i, F) /\ Covered(i) = X!Name \ x_paths[i]
  BY DEF StartedFrom, Covered
<1>3. \A m \in X!Name : Rank[m] \in Nat
  BY DEF X!ReindexAssumption
<1>4. ASSUME NEW m \in Movable(F), F[m][1] = t, Rank[m] < Rank[n]
      PROVE  t \in x_claimed[i]
  <2>1. m \in X!Name /\ n \in X!Name
    BY <1>1 DEF Movable
  <2>2. m \notin x_paths[i]
    BY <1>1, <1>3, <1>4, <2>1
  <2>. QED BY <1>2, <1>4, <2>1, <2>2 DEF UnderwaySince
<1>5. ASSUME t \in x_claimed[i]
      PROVE  \E m \in Movable(F) : F[m][1] = t /\ Rank[m] < Rank[n]
  <2>1. PICK m \in Movable(F) \cap Covered(i) : F[m][1] = t
    BY <1>2, <1>5 DEF UnderwaySince
  <2>2. m # n
    BY <1>1, <1>2, <2>1
  <2>. QED BY <1>1, <1>2, <2>1, <2>2 DEF UnderwaySince
<1>6. /\ F[t] # None => x_files[t] # None
      /\ x_files[t] # None => F[t] # None \/ t \in x_claimed[i]
  BY <1>1, <1>2 DEF UnderwaySince
<1>7. X!Merges(i, t) <=> Merged(F, n)
  BY <1>1, <1>4, <1>5, <1>6 DEF X!Merges, Merged
<1>. QED BY <1>7 DEF X!Merges, Merged

\* What a lone process reports goes with what it covers, step by step.
LEMMA ReportsStep ==
    ASSUME X!ReindexAssumption, RenamingTypes, OwnNames, AtHand, X!Alone, Foretells,
           NEW i \in Indexer, i \in x_company.crew, NEW F, StartedFrom(i, F), X!Probe(i)
    PROVE  StartedFrom(i, F)'
<1>. DEFINE n == X!First(i)
            t == x_body[i][1]
<1>1. /\ x_at[i] = "probe" /\ UNCHANGED <<x_files, x_dry, x_foretold>>
      /\ x_claimed'[i] = x_claimed[i] \cup {t}
      /\ x_done'[i] = Append(x_done[i], <<n, t, X!Merges(i, t)>>)
      /\ IF x_dry[i]
           THEN x_paths'[i] = x_paths[i] \ {n} /\ x_at'[i] = "list"
           ELSE x_paths' = x_paths /\ x_at'[i] \in {"compare", "write"}
  BY DEF X!Probe, X!PassFirst, X!Goto, RenamingTypes, Foretells
<1>2. /\ n \in x_paths[i] /\ n \in OldName /\ n \in Movable(F)
      /\ F[n] = x_body[i] /\ t \in IndexedLeg
      /\ \A m \in x_paths[i] : m # n => Rank[n] < Rank[m]
  BY <1>1, AtHandMoves DEF Moving
<1>3. UnderwaySince(i, F) /\ Covered(i) = X!Name \ x_paths[i]
  BY <1>1 DEF StartedFrom, Covered
<1>4. Covered(i)' = Covered(i) \cup {n}
  <2>1. CASE x_dry[i]
    BY <1>1, <1>2, <1>3, <2>1 DEF Covered, RenamingTypes
  <2>2. CASE ~ x_dry[i]
    <3>1. X!First(i)' = n
      BY <1>1, <2>2 DEF X!First
    <3>2. Covered(i)' = (X!Name \ x_paths'[i]) \cup {X!First(i)'}
      BY <1>1, <2>2 DEF Covered
    <3>. QED BY <1>1, <1>3, <2>2, <3>1, <3>2
  <2>. QED BY <2>1, <2>2
<1>5. x_done'[i] = Append(x_done[i], Report(F, n))
  BY <1>1, <1>2, MergesTruly DEF Report
<1>6. \A m \in Movable(F) \cap Covered(i) : Rank[m] < Rank[n]
  BY <1>2, <1>3 DEF UnderwaySince
<1>7. ReportOf(x_done'[i], F, Covered(i) \cup {n})
  BY <1>2, <1>3, <1>5, <1>6, MoreReported DEF UnderwaySince
<1>8. x_claimed'[i] = {F[m][1] : m \in Movable(F) \cap (Covered(i) \cup {n})}
  BY <1>1, <1>2, <1>3 DEF UnderwaySince
<1>9. \A m \in Movable(F) \cap (Covered(i) \cup {n}), p \in x_paths'[i] :
          p # m => Rank[m] < Rank[p]
  BY <1>1, <1>2, <1>3 DEF UnderwaySince
<1>10. UnderwaySince(i, F)'
  <2>1. ReportOf(x_done[i], F, Covered(i))'
    BY <1>4, <1>7
  <2>2. (x_claimed[i] = {F[m][1] : m \in Movable(F) \cap Covered(i)})'
    BY <1>4, <1>8
  <2>3. (\A m \in Movable(F) \cap Covered(i), p \in x_paths[i] : p # m => Rank[m] < Rank[p])'
    BY <1>4, <1>9
  <2>. QED BY <1>1, <1>3, <2>1, <2>2, <2>3 DEF UnderwaySince
<1>. QED BY <1>1, <1>10 DEF StartedFrom

\* Nothing is reported between two reports.
LEMMA QuietStep ==
    ASSUME X!ReindexAssumption, RenamingTypes, OwnNames, AtHand, X!Alone, Foretells,
           NEW i \in Indexer, i \in x_company.crew, NEW F, StartedFrom(i, F),
           \/ X!Leave(i) \/ X!Read(i) \/ X!Compare(i) \/ X!write_atomic(i) \/ X!remove_file(i)
    PROVE  StartedFrom(i, F)'
<1>. USE DEF X!Goto
<1>1. /\ x_at[i] # "idle" /\ x_at'[i] # "idle" /\ UNCHANGED <<x_dry, x_claimed, x_done, x_foretold>>
  BY DEF X!Leave, X!Read, X!Compare, X!Kept, X!write_atomic, X!remove_file, RenamingTypes
<1>2. UnderwaySince(i, F) /\ OldName \cap IndexedLeg = {} /\ None \notin X!Record
      /\ IndexedLeg \subseteq X!Name /\ OldName \subseteq X!Name
  BY <1>1 DEF StartedFrom, X!ReindexAssumption, X!Name
<1>3. SUFFICES UnderwaySince(i, F)'
  BY <1>1 DEF StartedFrom
<1>4. ASSUME Movable(F) \cap Covered(i)' = Movable(F) \cap Covered(i),
             x_paths'[i] \subseteq x_paths[i],
             \A n \in OldName \cap x_paths'[i] : x_files'[n] = x_files[n],
             \A l \in IndexedLeg : x_files'[l] # x_files[l] =>
                 x_files'[l] # None /\ l \in x_claimed[i],
             x_dry[i] => x_files' = x_files /\ x_at'[i] \in {"list", "probe"}
      PROVE  UnderwaySince(i, F)'
  <2>1. ReportOf(x_done[i], F, Covered(i))'
    <3>1. ReportOf(x_done'[i], F, Covered(i))
      BY <1>1, <1>2 DEF UnderwaySince
    <3>. QED BY <1>4, <3>1, SameReport
  <2>2. (x_claimed[i] = {F[n][1] : n \in Movable(F) \cap Covered(i)})'
    BY <1>1, <1>2, <1>4 DEF UnderwaySince
  <2>3. (\A m \in Movable(F) \cap Covered(i), n \in x_paths[i] : n # m => Rank[m] < Rank[n])'
    BY <1>2, <1>4 DEF UnderwaySince
  <2>4. (\A n \in OldName \cap x_paths[i] : x_files[n] = F[n])'
    BY <1>2, <1>4 DEF UnderwaySince
  <2>5. (\A l \in IndexedLeg :
          /\ F[l] # None => x_files[l] # None
          /\ x_files[l] # None => F[l] # None \/ l \in x_claimed[i])'
    BY <1>1, <1>2, <1>4 DEF UnderwaySince
  <2>6. (x_dry[i] => x_files = F /\ x_at[i] \in {"list", "probe"})'
    BY <1>1, <1>2, <1>4 DEF UnderwaySince
  <2>. QED BY <2>1, <2>2, <2>3, <2>4, <2>5, <2>6 DEF UnderwaySince
<1>5. CASE X!Leave(i)
  <2>1. /\ x_at[i] = "list" /\ x_at' = x_at /\ x_files' = x_files
        /\ x_paths'[i] = x_paths[i] \ {X!First(i)}
        /\ \/ x_files[X!First(i)] = None
           \/ x_files[X!First(i)] \in X!Record /\ x_files[X!First(i)][1] \in {None, X!First(i)}
        /\ x_paths[i] # {} /\ x_paths[i] \subseteq X!Name
    BY <1>5 DEF X!Leave, X!PassFirst, RenamingTypes
  <2>2. X!First(i) \in X!Name
    BY <2>1, FirstListed
  <2>3. X!First(i) \notin Movable(F)
    <3>1. CASE X!First(i) \in OldName
      <4>1. x_files[X!First(i)] = F[X!First(i)]
        BY <1>2, <2>1, <3>1, FirstListed DEF UnderwaySince
      <4>. QED BY <1>2, <2>1, <4>1 DEF Movable
    <3>2. CASE X!First(i) \in IndexedLeg
      BY <3>2 DEF Movable, StartedFrom
    <3>. QED BY <2>2, <3>1, <3>2 DEF X!Name
  <2>4. Covered(i) = X!Name \ x_paths[i] /\ Covered(i)' = X!Name \ x_paths'[i]
    BY <2>1 DEF Covered
  <2>5. Movable(F) \cap Covered(i)' = Movable(F) \cap Covered(i)
    BY <2>1, <2>3, <2>4
  <2>. QED BY <1>4, <2>1, <2>5
<1>6. CASE X!Read(i)
  <2>1. /\ x_at[i] = "list" /\ x_at'[i] = "probe" /\ x_files' = x_files /\ x_paths' = x_paths
    BY <1>6 DEF X!Read, RenamingTypes
  <2>2. Covered(i)' = Covered(i)
    BY <2>1 DEF Covered
  <2>. QED BY <1>4, <2>1, <2>2
<1>7. CASE X!Compare(i)
  <2>1. /\ x_at[i] = "compare" /\ x_at'[i] \in {"write", "remove"}
        /\ x_files' = x_files /\ x_paths' = x_paths
    BY <1>7 DEF X!Compare, X!Kept, RenamingTypes
  <2>2. Covered(i)' = Covered(i)
    BY <2>1 DEF Covered, X!First
  <2>3. ~ x_dry[i]
    BY <1>2, <2>1 DEF UnderwaySince
  <2>. QED BY <1>4, <2>1, <2>2, <2>3
<1>8. CASE X!write_atomic(i) \/ X!remove_file(i)
  <2>1. x_at[i] \in {"write", "remove"} /\ x_at[i] \in Moving
    BY <1>8 DEF X!write_atomic, X!remove_file, Moving
  <2>2. /\ X!First(i) \in x_paths[i] /\ X!First(i) \in OldName /\ X!First(i) \in Movable(F)
        /\ F[X!First(i)] = x_body[i] /\ F[X!First(i)][1] \in IndexedLeg
    BY <2>1, AtHandMoves
  <2>3. ~ x_dry[i]
    BY <1>2, <2>1 DEF UnderwaySince
  <2>4. Covered(i) = (X!Name \ x_paths[i]) \cup {X!First(i)}
    BY <2>1 DEF Covered
  <2>5. x_body[i][1] \in x_claimed[i]
    BY <1>2, <2>2, <2>4 DEF UnderwaySince
  <2>6. CASE X!write_atomic(i)
    <3>1. /\ x_at'[i] = "remove" /\ x_paths' = x_paths
          /\ x_files' = [x_files EXCEPT ![x_body[i][1]] = x_body[i]]
          /\ x_body[i] \in X!Record
      BY <2>1, <2>6 DEF X!write_atomic, RenamingTypes
    <3>2. Covered(i)' = Covered(i)
      BY <2>1, <3>1 DEF Covered, X!First
    <3>3. \A l \in X!Name : x_files'[l] # x_files[l] => l = x_body[i][1] /\ x_files'[l] = x_body[i]
      BY <3>1 DEF RenamingTypes
    <3>4. \A n \in OldName : x_files'[n] = x_files[n]
      BY <1>2, <2>2, <3>3
    <3>. QED BY <1>2, <1>4, <2>3, <2>5, <3>1, <3>2, <3>3, <3>4
  <2>7. CASE X!remove_file(i)
    <3>1. /\ x_at'[i] = "list" /\ x_paths'[i] = x_paths[i] \ {X!First(i)}
          /\ x_files' = [x_files EXCEPT ![X!First(i)] = None]
          /\ x_paths[i] \subseteq X!Name
      BY <2>7 DEF X!remove_file, X!PassFirst, RenamingTypes
    <3>2. Covered(i)' = X!Name \ x_paths'[i]
      BY <3>1 DEF Covered
    <3>3. Covered(i)' = Covered(i)
      BY <1>2, <2>2, <2>4, <3>1, <3>2
    <3>4. \A n \in X!Name : n # X!First(i) => x_files'[n] = x_files[n]
      BY <3>1 DEF RenamingTypes
    <3>5. \A l \in IndexedLeg : x_files'[l] = x_files[l]
      BY <1>2, <2>2, <3>4
    <3>6. \A n \in OldName \cap x_paths'[i] : x_files'[n] = x_files[n]
      BY <1>2, <3>1, <3>4
    <3>. QED BY <1>4, <2>3, <3>1, <3>3, <3>5, <3>6
  <2>. QED BY <1>8, <2>6, <2>7
<1>. QED BY <1>5, <1>6, <1>7, <1>8

\* A run that starts has nothing to report yet; of one that is over only
\* what a dry run foretold is left, and the files are as it found them.
LEMMA EndsStep ==
    ASSUME X!ReindexAssumption, RenamingTypes, OwnNames, Foretells,
           NEW i \in Indexer, i \in x_company.crew, NEW F, StartedFrom(i, F),
           X!archived_records(i) \/ X!Finish(i) \/ X!Abort(i)
    PROVE  \E G : StartedFrom(i, G)'
<1>. USE DEF X!Goto
<1>1. /\ x_files \in [X!Name -> X!Record \cup {None, Corrupt}]
      /\ \A l \in IndexedLeg : x_files[l] \in X!Record => x_files[l][1] = l
  BY DEF RenamingTypes, OwnNames
<1>2. CASE X!archived_records(i)
  <2>1. /\ x_at[i] = "idle" /\ x_at'[i] = "list" /\ x_files' = x_files
        /\ x_paths'[i] = {n \in X!Name : x_files[n] # None}
        /\ UNCHANGED <<x_claimed, x_done, x_foretold>>
    BY <1>2 DEF X!archived_records, RenamingTypes
  <2>2. F = x_files /\ x_done[i] = <<>> /\ x_claimed[i] = {}
    BY <2>1 DEF StartedFrom
  <2>3. Covered(i)' = X!Name \ x_paths'[i]
    BY <2>1 DEF Covered
  <2>4. Movable(F) \cap Covered(i)' = {}
    BY <2>1, <2>2, <2>3 DEF Movable, X!ReindexAssumption
  <2>5. ReportOf(x_done[i], F, Covered(i))'
    <3>1. ReportOf(x_done'[i], F, Covered(i)')
      BY <2>1, <2>2, <2>4, NoReport
    <3>. QED BY <3>1
  <2>6. UnderwaySince(i, F)'
    BY <2>1, <2>2, <2>4, <2>5 DEF UnderwaySince
  <2>. QED BY <2>1, <2>6 DEF StartedFrom
<1>3. CASE X!Finish(i) \/ X!Abort(i)
  <2>1. /\ x_at[i] # "idle" /\ x_at'[i] = "idle" /\ x_files' = x_files
        /\ x_done'[i] = <<>> /\ x_claimed'[i] = {}
    BY <1>3 DEF X!Finish, X!Abort, X!Over, RenamingTypes, Foretells
  <2>2. UnderwaySince(i, F)
    BY <2>1 DEF StartedFrom
  <2>3. x_foretold' # None => ReportOf(x_foretold', x_files, X!Name)
    <3>1. CASE X!Finish(i)
      <4>1. ReportOf(x_done[i], F, X!Name)
        <5>1. Covered(i) = X!Name
          BY <3>1 DEF X!Finish, Covered
        <5>. QED BY <2>2, <5>1 DEF UnderwaySince
      <4>. QED BY <2>2, <3>1, <4>1 DEF X!Finish, UnderwaySince
    <3>2. CASE X!Abort(i)
      BY <2>2, <3>2 DEF X!Abort, UnderwaySince, StartedFrom
    <3>. QED BY <1>3, <3>1, <3>2
  <2>4. StartedFrom(i, x_files)'
    BY <1>1, <2>1, <2>3 DEF StartedFrom
  <2>. QED BY <2>4
<1>. QED BY <1>2, <1>3

LEMMA ForetellsStep ==
    ASSUME X!ReindexAssumption, RenamingTypes, OwnNames, AtHand, Foretells, [X!Next]_(X!vars)
    PROVE  Foretells'
<1>1. CASE UNCHANGED X!vars
  <2>1. X!Alone' <=> X!Alone
    BY <1>1 DEF X!vars, X!Alone
  <2>2. \A i, F : StartedFrom(i, F)' <=> StartedFrom(i, F)
    BY <1>1 DEF X!vars, StartedFrom, UnderwaySince, Covered, X!First
  <2>. QED BY <1>1, <2>1, <2>2 DEF X!vars, Foretells
<1>2. CASE X!Next
  <2>1. x_company' = x_company /\ (X!Alone' <=> X!Alone)
    BY <1>2 DEF X!Next, X!Alone
  <2>. DEFINE Typed == /\ x_claimed \in [Indexer -> SUBSET IndexedLeg]
                       /\ x_done = [i \in Indexer |-> x_done[i]]
  <2>2. Typed'
    <3>1. CASE UNCHANGED <<x_claimed, x_done>>
      BY <3>1 DEF Foretells
    <3>2. ASSUME NEW i \in Indexer, X!Probe(i) PROVE Typed'
      <4>1. x_body[i][1] \in IndexedLeg
        BY <3>2 DEF X!Probe, RenamingTypes, Moving
      <4>. QED BY <3>2, <4>1 DEF X!Probe, Foretells
    <3>3. ASSUME NEW i \in Indexer, X!Finish(i) \/ X!Abort(i) PROVE Typed'
      BY <3>3 DEF X!Finish, X!Abort, X!Over, Foretells
    <3>. QED BY <1>2, <3>1, <3>2, <3>3
             DEF X!Next, X!file_one, X!archived_records, X!Leave, X!Read, X!Compare, X!Kept,
                 X!write_atomic, X!remove_file
  <2>3. ASSUME X!Alone PROVE \A i \in x_company'.crew : \E F : StartedFrom(i, F)'
    <3>1. PICK i \in Indexer :
              /\ x_company' = x_company /\ i \in x_company.crew
              /\ \A j \in x_company.crew : j = i
              /\ \/ X!archived_records(i) \/ X!Leave(i) \/ X!Read(i) \/ X!Probe(i)
                 \/ X!Compare(i) \/ X!write_atomic(i) \/ X!remove_file(i)
                 \/ X!Finish(i) \/ X!Abort(i)
      BY <1>2, <2>3, LoneProcess
    <3>2. PICK F : StartedFrom(i, F)
      BY <2>3, <3>1 DEF Foretells
    <3>3. CASE X!Probe(i)
      BY <2>3, <3>1, <3>2, <3>3, ReportsStep
    <3>4. CASE X!Leave(i) \/ X!Read(i) \/ X!Compare(i) \/ X!write_atomic(i) \/ X!remove_file(i)
      BY <2>3, <3>1, <3>2, <3>4, QuietStep
    <3>5. CASE X!archived_records(i) \/ X!Finish(i) \/ X!Abort(i)
      BY <3>1, <3>2, <3>5, EndsStep
    <3>6. \E G : StartedFrom(i, G)'
      BY <3>1, <3>3, <3>4, <3>5
    <3>. QED BY <3>1, <3>6
  <2>. QED BY <2>1, <2>2, <2>3 DEF Foretells
<1>. QED BY <1>1, <1>2

(***************************************************************************)
(* A run that goes through does what it is for, and reports what a dry run *)
(* of the same files foretold: of each file that moves where to, and       *)
(* whether the leg had a copy there.                                       *)
(***************************************************************************)
THEOREM RenamingDelivers ==
    ASSUME X!ReindexAssumption
    PROVE  X!Spec => RunDelivers
<1>1. X!Init => Foretells
  BY ForetellsInit
<1>2. RenamingInv /\ Foretells /\ [X!Next]_(X!vars) => Foretells'
  BY ForetellsStep DEF RenamingInv
<1>3. RenamingInv /\ Foretells /\ X!ReindexAssumption =>
        [X!Alone =>
          \A i \in Indexer :
              X!Finish(i) /\ ~ x_dry[i] /\ x_foretold # None =>
                  x_done[i] = x_foretold]_(X!vars)
  <2>. SUFFICES ASSUME RenamingInv, Foretells, X!Alone, NEW i \in Indexer,
                       X!Finish(i), x_foretold # None
                PROVE  x_done[i] = x_foretold
    OBVIOUS
  <2>1. x_at[i] = "list" /\ x_paths[i] = {} /\ i \in x_company.crew
    BY DEF X!Finish, RenamingInv, RenamingTypes
  <2>2. PICK F : StartedFrom(i, F)
    BY <2>1 DEF Foretells
  <2>3. Covered(i) = X!Name
    BY <2>1 DEF Covered
  <2>4. ReportOf(x_done[i], F, X!Name) /\ ReportOf(x_foretold, F, X!Name)
    BY <2>1, <2>2, <2>3 DEF StartedFrom, UnderwaySince
  <2>. QED BY <2>4, OneReport
<1>4. X!Spec => []Foretells
  BY <1>1, <1>2, RenamingInvariant, PTL DEF X!Spec
<1>5. X!Spec => X!DryRunForetells
  BY <1>3, <1>4, RenamingInvariant, PTL DEF X!Spec, X!DryRunForetells
<1>. QED BY <1>5, RenamingIsThorough DEF RunDelivers, X!RunDelivers

-----------------------------------------------------------------------------
(***************************************************************************)
(* The archives together                                                   *)
(***************************************************************************)

(***************************************************************************)
(* The archives share no state: among the others, each takes its own steps *)
(* and stays as it is at theirs.                                           *)
(***************************************************************************)
LEMMA EachAsOnItsOwn ==
    ArchivesSpec => T!Spec /\ R!Spec /\ V!Spec /\ X!Spec /\ Spec
<1>1. ArchivesInit => T!Init /\ R!Init /\ V!Init /\ X!Init /\ Init
  BY DEF ArchivesInit
<1>. USE DEF ArchivesNext, TicketsStep, ReceiptsStep, ReservationsStep, ReindexStep, ParcelsStep,
             archives
<1>2. [ArchivesNext]_archives => [T!Next]_(T!vars)
  BY DEF tvars, T!vars
<1>3. [ArchivesNext]_archives => [R!Next]_(R!vars)
  BY DEF rvars, R!vars
<1>4. [ArchivesNext]_archives => [V!Next]_(V!vars)
  BY DEF vvars, V!vars
<1>5. [ArchivesNext]_archives => [X!Next]_(X!vars)
  BY DEF xvars, X!vars
<1>6. [ArchivesNext]_archives => [Next]_vars
  OBVIOUS
<1>. QED BY <1>1, <1>2, <1>3, <1>4, <1>5, <1>6, PTL
         DEF ArchivesSpec, T!Spec, R!Spec, V!Spec, X!Spec, Spec

(***************************************************************************)
(* What has been proved of each of the archives, of all of them together.  *)
(***************************************************************************)
THEOREM ArchivesHold ==
    ASSUME ArchivesAssumption
    PROVE  ArchivesSpec => /\ TicketsAgree
                           /\ DocumentsKept
                           /\ []CancelledForCause
                           /\ ItineraryHasItsWay
                           /\ []NewestCopySurvives
                           /\ RunDelivers
                           /\ []DeliveredStays
                           /\ []HistoryHasEachOnce
<1>1. /\ T!TicketsAssumption /\ R!ReceiptsAssumption
      /\ V!ReservationsAssumption /\ X!ReindexAssumption /\ ParcelsAssumption
  BY DEF ArchivesAssumption
<1>2. T!Spec => TicketsAgree
  BY <1>1, TicketAndSidecarAgree
<1>3. R!Spec => DocumentsKept
  BY <1>1, DocumentsStayWithRecords
<1>4. V!Spec => []CancelledForCause /\ ItineraryHasItsWay
  BY <1>1, CancelledWithCause, ItineraryPrevails
<1>5. X!Spec => []NewestCopySurvives /\ RunDelivers
  BY <1>1, NewestSurvivesRenaming, RenamingDelivers
<1>6. Spec => []DeliveredStays /\ []HistoryHasEachOnce
  BY <1>1, DeliveredParcelStays, RescansAddNothing
<1>. QED BY <1>2, <1>3, <1>4, <1>5, <1>6, EachAsOnItsOwn
=============================================================================
