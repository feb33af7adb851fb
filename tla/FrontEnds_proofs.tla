-------------------------- MODULE FrontEnds_proofs --------------------------
(***************************************************************************)
(* What the three front-ends promise, for any number of messages.          *)
(*                                                                         *)
(* Milter: the pipeline is given each message as it was sent, on any       *)
(* number of connections.  GivenWhole speaks of the moment after the end   *)
(* of a message; it rests on what the buffer holds at every moment before, *)
(* and on no two connections carrying the same message, so that the one    *)
(* cannot take the other's place in what was given.                        *)
(*                                                                         *)
(* MaildirScan: whatever the client does to other messages, one that is    *)
(* wanted and left alone gets through every stage (Tracked), and is given  *)
(* to the pipeline unless --limit cuts it off; then, if the client has     *)
(* been quiet, as many messages as the limit allows come before it         *)
(* (CutOff), which is a fact about finite orders (FirstOnes).              *)
(*                                                                         *)
(* JmapWatch: the keyword stands for a run of the pipeline, and a pass     *)
(* ends with nothing in the mailbox that has no keyword.  It rests on a    *)
(* pass that is no dry run never skipping, so that each of its queries     *)
(* starts at the first message that is left (JmapInv, FirstPage).          *)
(***************************************************************************)
EXTENDS FrontEnds, FiniteSetTheorems, WellFoundedInduction, TLAPS

-----------------------------------------------------------------------------
(***************************************************************************)
(* Milter                                                                  *)
(***************************************************************************)

TypeInv ==
    /\ mta \in [Connection -> Protocol]
    /\ current \in [Connection -> Message \cup {NoMessage}]
    /\ DOMAIN sent = Connection
    /\ DOMAIN buf = Connection
    /\ headers_done \in [Connection -> BOOLEAN]
    /\ DOMAIN given = Message

\* A connection carries a message from MAIL to its end, and is alone with it.
OwnMessage ==
    /\ \A c \in Connection : mta[c] # "connected" => current[c] \in Message
    /\ \A c, d \in Connection : c # d /\ current[c] = current[d] => current[c] = NoMessage

\* The buffer is what was sent of this message and nothing else.
BufferIsSent ==
    \A c \in Connection :
        /\ mta[c] = "mail" => buf[c] = <<>> /\ sent[c] = <<>> /\ ~ headers_done[c]
        /\ mta[c] = "headers" => buf[c] = sent[c] /\ ~ headers_done[c]
        /\ mta[c] = "body" => buf[c] = sent[c] /\ headers_done[c]

MilterInv == TypeInv /\ OwnMessage /\ BufferIsSent /\ GivenWhole

-----------------------------------------------------------------------------

\* Every step keeps the invariant.
LEMMA MilterInvStep ==
    ASSUME MilterAssumption, MilterInv, [Next]_vars
    PROVE  MilterInv'
<1>. USE DEF MilterAssumption, MilterInv, TypeInv, Protocol
<1>1. ASSUME NEW c \in Connection, NEW m \in Message, on_mail(c, m)
      PROVE  MilterInv'
  <2>. USE <1>1 DEF on_mail, reset, Goto, work
  <2>1. TypeInv'
    OBVIOUS
  <2>2. OwnMessage'
    BY DEF OwnMessage, Fresh
  <2>3. BufferIsSent'
    BY DEF BufferIsSent
  <2>4. GivenWhole'
    BY DEF GivenWhole
  <2>. QED BY <2>1, <2>2, <2>3, <2>4
<1>2. ASSUME NEW c \in Connection, on_header(c)
      PROVE  MilterInv'
  <2>. USE <1>2 DEF on_header, Send, Goto, work
  <2>1. TypeInv'
    OBVIOUS
  <2>2. OwnMessage'
    BY DEF OwnMessage
  <2>3. BufferIsSent'
    BY DEF BufferIsSent
  <2>4. GivenWhole'
    BY DEF GivenWhole
  <2>. QED BY <2>1, <2>2, <2>3, <2>4
<1>3. ASSUME NEW c \in Connection, on_eoh(c)
      PROVE  MilterInv'
  <2>. USE <1>3 DEF on_eoh, Send, Goto, work
  <2>1. TypeInv'
    OBVIOUS
  <2>2. OwnMessage'
    BY DEF OwnMessage
  <2>3. BufferIsSent'
    BY DEF BufferIsSent, finish_headers
  <2>4. GivenWhole'
    BY DEF GivenWhole
  <2>. QED BY <2>1, <2>2, <2>3, <2>4
<1>4. ASSUME NEW c \in Connection, on_body(c)
      PROVE  MilterInv'
  <2>. USE <1>4 DEF on_body, Send, work
  <2>1. TypeInv'
    OBVIOUS
  <2>2. OwnMessage'
    BY DEF OwnMessage
  <2>3. BufferIsSent'
    BY DEF BufferIsSent, finish_headers
  <2>4. GivenWhole'
    BY DEF GivenWhole
  <2>. QED BY <2>1, <2>2, <2>3, <2>4
<1>5. ASSUME NEW c \in Connection, on_eom(c)
      PROVE  MilterInv'
  <2>. USE <1>5 DEF on_eom, Goto
  <2>1. TypeInv'
    OBVIOUS
  <2>2. OwnMessage'
    BY DEF OwnMessage
  <2>3. BufferIsSent'
    BY DEF BufferIsSent
  \* This connection's buffer is what it was sent; what the others gave is
  \* untouched, since their messages are not this one.
  <2>4. GivenWhole'
    BY DEF GivenWhole, OwnMessage, BufferIsSent, finish_headers
  <2>. QED BY <2>1, <2>2, <2>3, <2>4
\* A message ends, and its connection carries none.
<1>6. ASSUME NEW c \in Connection,
             EomWithoutState(c) \/ on_abort(c) \/ Accept(c) \/ Timeout(c) \/ Reconnect(c)
      PROVE  MilterInv'
  <2>. USE <1>6 DEF EomWithoutState, on_abort, Accept, Timeout, Reconnect, reset, Goto, state, work
  <2>1. TypeInv'
    OBVIOUS
  <2>2. OwnMessage'
    BY DEF OwnMessage
  <2>3. BufferIsSent'
    BY DEF BufferIsSent
  <2>4. GivenWhole'
    BY DEF GivenWhole
  <2>. QED BY <2>1, <2>2, <2>3, <2>4
<1>7. ASSUME NEW m \in Message, FileArtifacts(m) \/ TaskEnds(m)
      PROVE  MilterInv'
  BY <1>7 DEF FileArtifacts, TaskEnds, state, OwnMessage, BufferIsSent, GivenWhole
<1>8. CASE UNCHANGED vars
  BY <1>8 DEF vars, OwnMessage, BufferIsSent, GivenWhole
<1>. QED
  BY <1>1, <1>2, <1>3, <1>4, <1>5, <1>6, <1>7, <1>8 DEF Next

(***************************************************************************)
(* The pipeline is given the message as the MTA sent it, whatever was      *)
(* sent, aborted or accepted on the connection before (GivenWhole).        *)
(***************************************************************************)
THEOREM MessagesStayWhole ==
    ASSUME MilterAssumption
    PROVE  Spec => []GivenWhole
<1>1. Init => MilterInv
  BY DEF Init, MilterInv, TypeInv, Protocol, OwnMessage, BufferIsSent, GivenWhole
<1>2. MilterInv /\ [Next]_vars => MilterInv'
  BY MilterInvStep
<1>3. MilterInv => GivenWhole
  BY DEF MilterInv
<1>. QED
  BY <1>1, <1>2, <1>3, PTL DEF Spec

-----------------------------------------------------------------------------
(***************************************************************************)
(* MaildirScan: the first of a finite order                                *)
(***************************************************************************)

\* < is well-founded, the form in which the library's lemma WFMin takes it.
LEMMA LessOnNat == IsWellFoundedOn({p \in Nat \X Nat : p[1] < p[2]}, Nat)
BY NatLessThanWellFounded DEF OpToRel

\* A set of numbers has a smallest member.
LEMMA Smallest ==
    ASSUME NEW S, S \subseteq Nat, S # {}
    PROVE  \E x \in S : \A y \in S : x <= y
<1>. DEFINE Less == {p \in Nat \X Nat : p[1] < p[2]}
<1>1. PICK x \in S : \A y \in S : <<y, x>> \notin Less
  <2>. IsWellFoundedOn(Less, Nat)
    BY LessOnNat
  <2>. HIDE DEF Less
  <2>. QED BY WFMin
<1>2. ASSUME NEW y \in S PROVE x <= y
  <2>1. ~ (y < x)
    <3>1. SUFFICES ASSUME y < x PROVE FALSE
      OBVIOUS
    <3>2. <<y, x>> \in Nat \X Nat /\ <<y, x>>[1] < <<y, x>>[2]
      BY <3>1
    <3>3. <<y, x>> \in Less
      BY <3>2
    <3>. QED BY <3>3, <1>1
  <2>2. x \in Nat /\ y \in Nat
    OBVIOUS
  <2>. HIDE DEF Less
  <2>. QED BY <2>1, <2>2
<1>. QED BY <1>2

\* The paths of S before p, and how many they are.
Ahead(S, p) == {q \in S : D!Before(q, p)}
Rank(S, p) == Cardinality(Ahead(S, p))

\* Cardinality is the same to MaildirScan as it is here.
LEMMA SameToMaildirScan ==
    /\ \A S : D!IsFiniteSet(S) <=> IsFiniteSet(S)
    /\ \A S : D!Cardinality(S) = Cardinality(S)
<1>1. \A S : D!IsFiniteSet(S) <=> IsFiniteSet(S)
  BY DEF D!IsFiniteSet, IsFiniteSet
<1>2. \A S : D!Cardinality(S) = Cardinality(S)
  BY DEF D!Cardinality, Cardinality
<1>. QED BY <1>1, <1>2

\* Names are in order.
LEMMA BeforeIsAnOrder ==
    ASSUME D!MaildirAssumption, NEW p \in D!Path, NEW q \in D!Path, D!Before(p, q)
    PROVE  /\ ~ D!Before(q, p)
           /\ \A r \in D!Path : D!Before(r, p) => D!Before(r, q)
<1>1. \A r \in D!Path : r.dir \in Nat /\ r.id \in Nat
  <2>1. DOMAIN D!Dir \subseteq Nat
    BY DEF D!Dir
  <2>. QED BY <2>1 DEF D!MaildirAssumption, D!Path
<1>. QED BY <1>1 DEF D!Before

LEMMA RankGrows ==
    ASSUME D!MaildirAssumption, NEW S, S \subseteq D!Path, IsFiniteSet(S),
           NEW p \in S, NEW q \in S, D!Before(p, q)
    PROVE  /\ Rank(S, p) \in Nat /\ Rank(S, q) \in Nat
           /\ Rank(S, p) < Rank(S, q)
<1>1. Ahead(S, p) \subseteq Ahead(S, q) /\ p \in Ahead(S, q) /\ p \notin Ahead(S, p)
  BY BeforeIsAnOrder DEF Ahead
<1>2. IsFiniteSet(Ahead(S, q))
  BY FS_Subset DEF Ahead
<1>3. IsFiniteSet(Ahead(S, p)) /\ Rank(S, p) <= Rank(S, q) /\ Rank(S, p) # Rank(S, q)
  BY <1>1, <1>2, FS_Subset DEF Rank
<1>4. Rank(S, p) \in Nat /\ Rank(S, q) \in Nat
  BY <1>2, <1>3, FS_CardinalityType DEF Rank
<1>. QED BY <1>3, <1>4

(***************************************************************************)
(* Of a finite set of names, those with fewer than n names before them are *)
(* n if they are not all of them, and come before the rest.                *)
(***************************************************************************)
LEMMA FirstOnes ==
    ASSUME D!MaildirAssumption, NEW S, S \subseteq D!Path, IsFiniteSet(S),
           \A p, q \in S : p # q => D!Before(p, q) \/ D!Before(q, p),
           NEW n \in Nat \ {0},
           NEW p \in S, ~ (Rank(S, p) < n)
    PROVE  LET F == {q \in S : Rank(S, q) < n}
           IN  /\ IsFiniteSet(F) /\ Cardinality(F) = n
               /\ \A q \in F : D!Before(q, p)
<1>. DEFINE F == {q \in S : Rank(S, q) < n}
<1>1. \A q \in S : Rank(S, q) \in Nat
  <2>. TAKE q \in S
  <2>1. IsFiniteSet(Ahead(S, q))
    BY FS_Subset DEF Ahead
  <2>. QED BY <2>1, FS_CardinalityType DEF Rank
<1>2. ASSUME NEW q \in F, NEW r \in S \ F
      PROVE  D!Before(q, r)
  <2>1. q # r /\ q \in S /\ Rank(S, q) < n /\ ~ (Rank(S, r) < n)
    OBVIOUS
  <2>2. ~ D!Before(r, q)
    <3>1. SUFFICES ASSUME D!Before(r, q) PROVE FALSE
      OBVIOUS
    <3>2. Rank(S, r) < Rank(S, q)
      BY <2>1, <3>1, RankGrows
    <3>. QED BY <1>1, <2>1, <3>2
  <2>. QED BY <2>1, <2>2
<1>3. IsFiniteSet(F)
  BY FS_Subset
\* The first of the rest has all of F before it, and nothing else.
<1>4. PICK r \in S \ F : \A q \in S \ F : Rank(S, r) <= Rank(S, q)
  <2>. DEFINE R == {Rank(S, q) : q \in S \ F}
  <2>1. R \subseteq Nat /\ R # {}
    BY <1>1
  <2>2. PICK x \in R : \A y \in R : x <= y
    <3>. HIDE DEF R
    <3>. QED BY <2>1, Smallest
  <2>. QED BY <2>2
<1>5. Ahead(S, r) = F
  <2>1. ASSUME NEW q \in Ahead(S, r) PROVE q \in F
    <3>1. q \in S /\ D!Before(q, r)
      BY DEF Ahead
    <3>2. Rank(S, q) < Rank(S, r)
      BY <3>1, RankGrows
    <3>3. ~ (Rank(S, r) <= Rank(S, q))
      BY <1>1, <3>1, <3>2
    <3>. QED BY <1>4, <3>1, <3>3
  <2>2. F \subseteq Ahead(S, r)
    BY <1>2 DEF Ahead
  <2>. QED BY <2>1, <2>2
<1>6. Cardinality(F) \in Nat /\ Cardinality(F) >= n
  <2>1. Rank(S, r) = Cardinality(F)
    BY <1>5 DEF Rank
  <2>2. ~ (Rank(S, r) < n)
    OBVIOUS
  <2>3. Rank(S, r) \in Nat
    BY <1>1
  <2>. QED BY <2>1, <2>2, <2>3
\* The last of F has all the others before it, and fewer than n.
<1>7. PICK l \in F : \A q \in F : Rank(S, q) <= Rank(S, l)
  <2>. DEFINE R == {n - Rank(S, q) : q \in F}
  <2>1. R \subseteq Nat
    BY <1>1
  <2>2. F # {}
    BY <1>6, FS_EmptySet
  <2>3. PICK x \in R : \A y \in R : x <= y
    <3>1. R # {}
      BY <2>2
    <3>. HIDE DEF R
    <3>. QED BY <2>1, <3>1, Smallest
  <2>4. PICK l \in F : x = n - Rank(S, l)
    BY <2>3
  <2>5. ASSUME NEW q \in F PROVE Rank(S, q) <= Rank(S, l)
    <3>1. n - Rank(S, l) <= n - Rank(S, q)
      BY <2>3, <2>4
    <3>2. Rank(S, l) \in Nat /\ Rank(S, q) \in Nat
      BY <1>1
    <3>. QED BY <3>1, <3>2
  <2>. QED BY <2>5
<1>8. Cardinality(F) <= n
  <2>1. F \subseteq Ahead(S, l) \cup {l}
    <3>1. ASSUME NEW q \in F, q # l PROVE D!Before(q, l)
      <4>1. q \in S /\ l \in S
        OBVIOUS
      <4>2. D!Before(l, q) => Rank(S, l) < Rank(S, q)
        BY <4>1, RankGrows
      <4>3. ~ (Rank(S, l) < Rank(S, q))
        BY <1>1, <1>7, <4>1
      <4>. QED BY <3>1, <4>1, <4>2, <4>3
    <3>. QED BY <3>1 DEF Ahead
  <2>2. IsFiniteSet(Ahead(S, l))
    BY FS_Subset DEF Ahead
  <2>3. IsFiniteSet(Ahead(S, l) \cup {l}) /\ Cardinality(Ahead(S, l) \cup {l}) <= Rank(S, l) + 1
    <3>1. /\ IsFiniteSet(Ahead(S, l) \cup {l})
          /\ Cardinality(Ahead(S, l) \cup {l}) =
                IF l \in Ahead(S, l) THEN Rank(S, l) ELSE Rank(S, l) + 1
      BY <2>2, FS_AddElement DEF Rank
    <3>2. Rank(S, l) \in Nat
      BY <1>1
    <3>. QED BY <3>1, <3>2
  <2>4. Cardinality(F) <= Cardinality(Ahead(S, l) \cup {l})
    BY <2>1, <2>3, FS_Subset
  <2>5. Rank(S, l) < n /\ Rank(S, l) \in Nat /\ Cardinality(Ahead(S, l) \cup {l}) \in Nat
    BY <1>1, <2>3, FS_CardinalityType
  <2>. QED BY <1>6, <2>3, <2>4, <2>5
<1>. QED BY <1>2, <1>3, <1>6, <1>8

-----------------------------------------------------------------------------
(***************************************************************************)
(* MaildirScan: the invariant                                              *)
(***************************************************************************)

ScanTypes ==
    /\ d_box \in [Id -> D!Path \cup {Gone}]
    /\ \A i \in Id : d_box[i] # Gone => d_box[i].id = i
    /\ d_scan \in Scans
    /\ d_stage \in {"list", "since", "prefilter", "limit", "run", "done"}
    /\ d_unlisted \in Seq(Nat)
    /\ d_todo \subseteq D!Path /\ d_kept \subseteq D!Path
    /\ d_given \subseteq Id
    /\ d_moves \in Nat
    /\ d_untouched \subseteq {i \in Id : d_box[i] # Gone}

\* What a stage may take for granted.
Stages ==
    /\ d_stage = "since" => d_scan.since
    /\ d_stage \notin {"run", "done"} => d_given = {}
    /\ d_stage = "done" => d_todo = {}

\* As long as the client is quiet, everything is where it was listed.
Quiet == d_moves = 0 => \A p \in d_todo \cup d_kept : D!There(p)

\* The messages the pipeline has been given, or will be if they stay.
GivenOrDue == d_given \cup {p.id : p \in d_todo}

\* --limit cuts message i off: there are that many before it.
CutOff(i) ==
    /\ d_scan.limit > 0
    /\ d_moves = 0 =>
          /\ Cardinality(GivenOrDue) = d_scan.limit
          /\ \A j \in GivenOrDue : D!Before(d_box[j], d_box[i])

\* Where a message is that is wanted and left alone.
Tracked(i) ==
    /\ d_stage = "list" =>
          \/ d_box[i] \in d_kept
          \/ \E k \in DOMAIN d_unlisted : d_unlisted[k] = d_box[i].dir
    /\ d_stage \in {"since", "prefilter"} => d_box[i] \in d_todo \cup d_kept
    /\ d_stage = "limit" => d_box[i] \in d_todo
    /\ d_stage \in {"run", "done"} =>
          d_box[i] \in d_todo \/ i \in d_given \/ CutOff(i)

AllTracked == \A i \in d_untouched : D!Wanted(i) => Tracked(i)

MaildirInv == ScanTypes /\ Stages /\ Quiet /\ AllTracked

LEMMA DirsAreFour == DOMAIN D!Dir = 1 .. 4
BY DEF D!Dir

LEMMA MaildirInvInit ==
    ASSUME D!MaildirAssumption, D!Init
    PROVE  MaildirInv
<1>1. ScanTypes
  BY DEF D!MaildirAssumption, D!Init, ScanTypes
<1>2. Stages /\ Quiet
  BY DEF D!Init, Stages, Quiet
<1>3. AllTracked
  <2>. SUFFICES ASSUME NEW i \in d_untouched, D!Wanted(i)
                PROVE  Tracked(i)
    BY DEF AllTracked
  <2>1. d_box[i].dir \in 1 .. 4
    BY <1>1, DirsAreFour DEF ScanTypes, D!Path
  <2>2. d_box[i].dir \in {1, 2} \/ d_scan.recurse
    BY DEF D!Wanted
  <2>3. \E k \in DOMAIN d_unlisted : d_unlisted[k] = d_box[i].dir
    BY <2>1, <2>2 DEF D!Init
  <2>. QED BY <2>3 DEF D!Init, Tracked
<1>. QED BY <1>1, <1>2, <1>3 DEF MaildirInv

\* What the scan does leaves the Maildir and the command alone.
LEMMA WantedStays ==
    ASSUME UNCHANGED <<d_box, d_scan>>
    PROVE  \A i : D!Wanted(i)' <=> D!Wanted(i)
BY DEF D!Wanted

LEMMA ListingKeeps ==
    ASSUME D!MaildirAssumption, MaildirInv, D!collect_messages
    PROVE  MaildirInv'
<1>. USE DEF MaildirInv
<1>1. /\ d_stage = "list" /\ d_unlisted # <<>>
      /\ d_kept' = d_kept \cup {d_box[i] : i \in {j \in Id : d_box[j] # Gone /\ d_box[j].dir = Head(d_unlisted)}}
      /\ d_unlisted' = Tail(d_unlisted)
      /\ UNCHANGED <<d_box, d_scan, d_stage, d_todo, d_given, d_moves, d_untouched>>
  BY DEF D!collect_messages
<1>2. ScanTypes'
  BY <1>1 DEF ScanTypes
<1>3. Stages'
  BY <1>1 DEF Stages
<1>4. Quiet'
  BY <1>1 DEF Quiet, ScanTypes, D!There
<1>5. ASSUME NEW i \in d_untouched, D!Wanted(i)
      PROVE  Tracked(i)'
  <2>1. Tracked(i) /\ i \in Id /\ d_box[i] # Gone
    BY <1>5 DEF AllTracked, ScanTypes
  <2>2. CASE d_box[i] \in d_kept
    BY <1>1, <2>2 DEF Tracked
  <2>3. ASSUME NEW k \in DOMAIN d_unlisted, d_unlisted[k] = d_box[i].dir
        PROVE  Tracked(i)'
    <3>1. CASE k = 1
      <4>1. d_box[i].dir = Head(d_unlisted)
        BY <2>3, <3>1 DEF ScanTypes
      <4>. QED BY <1>1, <2>1, <4>1 DEF Tracked
    <3>2. CASE k # 1
      <4>1. k - 1 \in DOMAIN Tail(d_unlisted) /\ Tail(d_unlisted)[k - 1] = d_unlisted[k]
        BY <1>1, <2>3, <3>2 DEF ScanTypes
      <4>. QED BY <1>1, <2>3, <4>1 DEF Tracked
    <3>. QED BY <3>1, <3>2
  <2>. QED BY <1>1, <2>1, <2>2, <2>3 DEF Tracked
<1>6. AllTracked'
  BY <1>1, <1>5, WantedStays DEF AllTracked
<1>. QED BY <1>2, <1>3, <1>4, <1>6

LEMMA StageDoneKeeps ==
    ASSUME D!MaildirAssumption, MaildirInv, D!StageDone
    PROVE  MaildirInv'
<1>. USE DEF MaildirInv
<1>1. /\ d_todo = {} /\ d_kept' = {}
      /\ UNCHANGED <<d_box, d_scan, d_unlisted, d_given, d_moves, d_untouched>>
      /\ \/ /\ d_stage = "list" /\ d_unlisted = <<>> /\ d_todo' = d_kept
            /\ d_stage' \in {"since", "prefilter", "limit"}
            /\ d_stage' = "since" => d_scan.since
         \/ /\ d_stage = "since" /\ d_todo' = d_kept
            /\ d_stage' \in {"prefilter", "limit"}
         \/ /\ d_stage = "prefilter" /\ d_todo' = d_kept
            /\ d_stage' = "limit"
         \/ /\ d_stage = "run" /\ d_todo' = {}
            /\ d_stage' = "done"
  BY DEF D!StageDone, D!Enter, D!AfterSince
<1>2. ScanTypes'
  BY <1>1 DEF ScanTypes
<1>3. Stages'
  BY <1>1 DEF Stages
<1>4. Quiet'
  BY <1>1 DEF Quiet, D!There
<1>5. ASSUME NEW i \in d_untouched, D!Wanted(i)
      PROVE  Tracked(i)'
  <2>1. Tracked(i)
    BY <1>5 DEF AllTracked
  <2>2. CASE d_stage # "run"
    BY <1>1, <2>1, <2>2 DEF Tracked
  <2>3. CASE d_stage = "run"
    <3>1. UNCHANGED <<d_todo, d_given, d_scan, d_moves, d_box>>
      BY <1>1, <2>3
    <3>2. CutOff(i) => CutOff(i)'
      BY <3>1 DEF CutOff, GivenOrDue
    <3>3. d_stage' = "done" /\ d_todo = {}
      BY <1>1, <2>3
    <3>. QED BY <2>1, <2>3, <3>1, <3>2, <3>3 DEF Tracked
  <2>. QED BY <2>2, <2>3
<1>6. AllTracked'
  BY <1>1, <1>5, WantedStays DEF AllTracked
<1>. QED BY <1>2, <1>3, <1>4, <1>6

\* A name is dropped for being old, or for its headers.
LEMMA LookingKeeps ==
    ASSUME D!MaildirAssumption, MaildirInv, NEW p \in d_todo, D!retain(p) \/ D!prefilter(p)
    PROVE  MaildirInv'
<1>. USE DEF MaildirInv
<1>1. /\ d_stage \in {"since", "prefilter"}
      /\ d_todo' = d_todo \ {p} /\ d_kept' \subseteq d_kept \cup {p} /\ d_kept \subseteq d_kept'
      /\ UNCHANGED <<d_box, d_scan, d_stage, d_unlisted, d_given, d_moves, d_untouched>>
  BY DEF D!retain, D!prefilter, D!Looked
<1>2. ScanTypes'
  BY <1>1 DEF ScanTypes
<1>3. Stages'
  BY <1>1 DEF Stages
<1>4. Quiet'
  BY <1>1 DEF Quiet, D!There
<1>5. ASSUME NEW i \in d_untouched, D!Wanted(i)
      PROVE  Tracked(i)'
  <2>1. Tracked(i) /\ i \in Id /\ d_box[i].id = i
    BY <1>5 DEF AllTracked, ScanTypes
  <2>2. CASE p = d_box[i]
    <3>1. p \in d_kept'
      BY <1>5, <2>1, <2>2 DEF D!retain, D!prefilter, D!Looked, D!Wanted, D!could_match_any,
                             D!There, Stages
    <3>. QED BY <1>1, <2>2, <3>1 DEF Tracked
  <2>3. CASE p # d_box[i]
    BY <1>1, <2>1, <2>3 DEF Tracked
  <2>. QED BY <2>2, <2>3
<1>6. AllTracked'
  BY <1>1, <1>5, WantedStays DEF AllTracked
<1>. QED BY <1>2, <1>3, <1>4, <1>6

\* While the client is quiet, --limit takes as many messages as it says, and
\* all of them come before those it leaves.
LEMMA TakeCutsOff ==
    ASSUME D!MaildirAssumption, MaildirInv, D!take, d_moves = 0,
           NEW i \in d_untouched, d_box[i] \in d_todo, d_box[i] \notin d_todo'
    PROVE  CutOff(i)'
<1>. DEFINE F == D!First(d_todo)
            G == {p.id : p \in F}
<1>1. /\ d_stage = "limit" /\ d_todo' = F
      /\ UNCHANGED <<d_box, d_scan, d_given, d_moves>>
      /\ d_given = {}
  BY DEF D!take, D!Enter, MaildirInv, Stages
<1>2. \A p \in d_todo : p \in D!Path /\ p.id \in Id /\ d_box[p.id] = p
  BY DEF MaildirInv, ScanTypes, Quiet, D!There, D!Path
<1>3. IsFiniteSet(d_todo)
  <2>. DEFINE R == {d_box[j] : j \in Id}
  <2>1. IsFiniteSet(Id)
    BY SameToMaildirScan DEF D!MaildirAssumption
  <2>2. d_box \in Surjection(Id, R)
    BY DEF Surjection, MaildirInv, ScanTypes
  <2>3. IsFiniteSet(R)
    BY <2>1, <2>2, FS_Surjection
  <2>4. d_todo \subseteq R
    BY <1>2
  <2>. QED BY <2>3, <2>4, FS_Subset
<1>4. \A p, q \in d_todo : p # q => D!Before(p, q) \/ D!Before(q, p)
  <2>. TAKE p, q \in d_todo
  <2>1. p.id = q.id => p = q
    BY <1>2
  <2>2. p.dir \in Nat /\ q.dir \in Nat /\ p.id \in Nat /\ q.id \in Nat
    BY <1>2, DirsAreFour DEF D!Path, D!MaildirAssumption
  <2>. QED BY <2>1, <2>2 DEF D!Before
<1>5. d_scan.limit \in Nat \ {0}
  <2>1. d_scan.limit \in Nat
    BY DEF MaildirInv, ScanTypes, D!MaildirAssumption
  <2>2. d_scan.limit # 0
    BY <1>1 DEF D!First
  <2>. QED BY <2>1, <2>2
<1>6. F = {p \in d_todo : Rank(d_todo, p) < d_scan.limit}
  BY <1>5, SameToMaildirScan DEF D!First, Rank, Ahead
<1>7. /\ IsFiniteSet(F) /\ Cardinality(F) = d_scan.limit
      /\ \A q \in F : D!Before(q, d_box[i])
  <2>1. ~ (Rank(d_todo, d_box[i]) < d_scan.limit)
    BY <1>1, <1>6
  <2>2. d_todo \subseteq D!Path
    BY <1>2
  <2>. HIDE DEF F
  <2>. QED BY <1>3, <1>4, <1>5, <1>6, <2>1, <2>2, FirstOnes
<1>8. Cardinality(G) = Cardinality(F)
  <2>. DEFINE f == [p \in F |-> p.id]
  <2>1. F \subseteq d_todo
    BY <1>6
  <2>2. f \in Injection(F, G)
    BY <1>2, <2>1 DEF Injection, IsInjective
  <2>3. f \in Surjection(F, G)
    BY DEF Surjection
  <2>4. ExistsBijection(F, G)
    BY <2>2, <2>3 DEF ExistsBijection, Bijection
  <2>. HIDE DEF F, G
  <2>. QED BY <1>7, <2>4, FS_Bijection
<1>9. GivenOrDue' = G
  BY <1>1 DEF GivenOrDue
<1>10. \A j \in G : D!Before(d_box[j], d_box[i])
  BY <1>2, <1>6, <1>7
<1>11. /\ Cardinality(GivenOrDue') = d_scan'.limit
       /\ \A j \in GivenOrDue' : D!Before(d_box'[j], d_box'[i])
       /\ d_scan'.limit > 0
  <2>. HIDE DEF F, G
  <2>. QED BY <1>1, <1>5, <1>7, <1>8, <1>9, <1>10
<1>. QED BY <1>11 DEF CutOff, D!Before

LEMMA TakeKeeps ==
    ASSUME D!MaildirAssumption, MaildirInv, D!take
    PROVE  MaildirInv'
<1>. USE DEF MaildirInv
<1>1. /\ d_stage = "limit" /\ d_stage' = "run" /\ d_todo' = D!First(d_todo) /\ d_kept' = {}
      /\ UNCHANGED <<d_box, d_scan, d_unlisted, d_given, d_moves, d_untouched>>
      /\ d_todo' \subseteq d_todo
  BY DEF D!take, D!Enter, D!First
<1>2. ScanTypes'
  BY <1>1 DEF ScanTypes
<1>3. Stages'
  BY <1>1 DEF Stages
<1>4. Quiet'
  BY <1>1 DEF Quiet, D!There
<1>5. ASSUME NEW i \in d_untouched, D!Wanted(i)
      PROVE  Tracked(i)'
  <2>1. d_box[i] \in d_todo
    BY <1>1, <1>5 DEF AllTracked, Tracked
  <2>2. d_box[i] \notin d_todo' => CutOff(i)'
    <3>1. CASE d_moves = 0
      BY <2>1, <3>1, TakeCutsOff
    <3>2. CASE d_moves # 0 /\ d_box[i] \notin d_todo'
      <4>1. d_scan.limit # 0 /\ d_scan.limit \in Nat
        BY <1>1, <2>1, <3>2 DEF D!First, ScanTypes, D!MaildirAssumption
      <4>2. d_scan'.limit > 0 /\ d_moves' # 0
        BY <1>1, <3>2, <4>1
      <4>. QED BY <4>2 DEF CutOff
    <3>. QED BY <3>1, <3>2
  <2>3. d_box'[i] \in d_todo' \/ CutOff(i)'
    BY <1>1, <2>2
  <2>. QED BY <1>1, <2>3 DEF Tracked
<1>6. AllTracked'
  BY <1>1, <1>5, WantedStays DEF AllTracked
<1>. QED BY <1>2, <1>3, <1>4, <1>6

LEMMA RunKeeps ==
    ASSUME D!MaildirAssumption, MaildirInv, NEW p \in d_todo, D!run(p)
    PROVE  MaildirInv'
<1>. USE DEF MaildirInv
<1>1. /\ d_stage = "run"
      /\ d_given' = IF D!There(p) THEN d_given \cup {p.id} ELSE d_given
      /\ d_todo' = d_todo \ {p} /\ d_kept' = d_kept \cup {p}
      /\ UNCHANGED <<d_box, d_scan, d_stage, d_unlisted, d_moves, d_untouched>>
  BY DEF D!run, D!Looked
<1>2. ScanTypes'
  <2>1. p.id \in Id
    BY DEF ScanTypes, D!Path
  <2>. QED BY <1>1, <2>1 DEF ScanTypes
<1>3. Stages'
  BY <1>1 DEF Stages
<1>4. Quiet'
  BY <1>1 DEF Quiet, D!There
<1>5. d_moves = 0 => GivenOrDue' = GivenOrDue
  <2>1. d_moves = 0 => D!There(p)
    BY DEF Quiet
  <2>. QED BY <1>1, <2>1 DEF GivenOrDue
<1>6. ASSUME NEW i \in d_untouched, D!Wanted(i)
      PROVE  Tracked(i)'
  <2>1. Tracked(i) /\ d_box[i].id = i
    BY <1>6 DEF AllTracked, ScanTypes
  <2>2. CutOff(i) => CutOff(i)'
    BY <1>1, <1>5 DEF CutOff, D!Before
  <2>3. d_box[i] = p => i \in d_given'
    BY <1>1, <2>1 DEF D!There
  <2>. QED BY <1>1, <2>1, <2>2, <2>3 DEF Tracked
<1>7. AllTracked'
  BY <1>1, <1>6, WantedStays DEF AllTracked
<1>. QED BY <1>2, <1>3, <1>4, <1>7

\* The client's doings are excused, and so is what it does to other messages:
\* none of them changes places with one that is left alone.
LEMMA ClientKeeps ==
    ASSUME D!MaildirAssumption, MaildirInv, NEW c \in Id, D!Client(c)
    PROVE  MaildirInv'
<1>. USE DEF MaildirInv
<1>1. /\ d_moves' = d_moves + 1 /\ d_moves \in Nat
      /\ d_untouched' = d_untouched \ {c}
      /\ UNCHANGED <<d_scan, d_stage, d_unlisted, d_todo, d_kept, d_given>>
  BY DEF D!Client, ScanTypes
<1>2. /\ d_box' \in [Id -> D!Path \cup {Gone}]
      /\ \A i \in Id : d_box'[i] # Gone => d_box'[i].id = i
      /\ \A i \in Id \ {c} : d_box'[i] = d_box[i]
  <2>. USE DirsAreFour DEF D!Path, ScanTypes
  <2>1. CASE d_box' = [d_box EXCEPT ![c] = [dir |-> 2, id |-> c, flagged |-> FALSE]]
    BY <2>1
  <2>2. CASE d_box[c] # Gone /\ d_box[c].dir \in {2, 4} /\ d_box' = [d_box EXCEPT ![c].dir = @ - 1]
    <3>1. d_box[c].dir - 1 \in 1 .. 4
      BY <2>2
    <3>2. d_box[c] \in D!Path /\ d_box[c].id = c
      BY <2>2
    <3>. DEFINE moved == [d_box[c] EXCEPT !.dir = d_box[c].dir - 1]
    <3>3. moved \in D!Path
      BY <3>1, <3>2
    <3>4. moved.id = c
      BY <3>2
    <3>5. d_box' = [d_box EXCEPT ![c] = moved]
      BY <2>2
    <3>. HIDE DEF moved
    <3>. QED BY <3>3, <3>4, <3>5
  <2>3. CASE d_box[c] # Gone /\ d_box' = [d_box EXCEPT ![c].flagged = TRUE]
    <3>1. d_box[c] \in D!Path /\ d_box[c].id = c
      BY <2>3
    <3>. DEFINE read == [d_box[c] EXCEPT !.flagged = TRUE]
    <3>2. read \in D!Path
      BY <3>1
    <3>3. read.id = c
      BY <3>1
    <3>4. d_box' = [d_box EXCEPT ![c] = read]
      BY <2>3
    <3>. HIDE DEF read
    <3>. QED BY <3>2, <3>3, <3>4
  <2>4. CASE d_box' = [d_box EXCEPT ![c] = Gone]
    BY <2>4
  <2>. QED BY <2>1, <2>2, <2>3, <2>4 DEF D!Client
<1>3. ScanTypes'
  BY <1>1, <1>2 DEF ScanTypes
<1>4. Stages' /\ Quiet'
  BY <1>1 DEF Stages, Quiet
<1>5. ASSUME NEW i \in d_untouched', D!Wanted(i)'
      PROVE  Tracked(i)'
  <2>1. i \in d_untouched /\ d_box'[i] = d_box[i]
    BY <1>1, <1>2, <1>5 DEF ScanTypes
  <2>2. D!Wanted(i)
    BY <1>1, <1>5, <2>1 DEF D!Wanted
  <2>3. Tracked(i)
    BY <2>1, <2>2 DEF AllTracked
  <2>4. CutOff(i) => CutOff(i)'
    BY <1>1 DEF CutOff
  <2>. QED BY <1>1, <2>1, <2>3, <2>4 DEF Tracked
<1>6. AllTracked'
  BY <1>5 DEF AllTracked
<1>. QED BY <1>3, <1>4, <1>6

LEMMA MaildirInvStep ==
    ASSUME D!MaildirAssumption, MaildirInv, [D!Next]_(D!vars)
    PROVE  MaildirInv'
<1>1. CASE UNCHANGED D!vars
  <2>. USE <1>1 DEF D!vars, MaildirInv
  <2>1. ScanTypes'
    BY DEF ScanTypes
  <2>2. Stages' /\ Quiet'
    BY DEF Stages, Quiet, D!There
  <2>3. \A i : CutOff(i) => CutOff(i)'
    BY DEF CutOff, GivenOrDue, D!Before
  <2>4. AllTracked'
    BY <2>3, WantedStays DEF AllTracked, Tracked
  <2>. QED BY <2>1, <2>2, <2>4
<1>. QED
  BY <1>1, ListingKeeps, StageDoneKeeps, LookingKeeps, TakeKeeps, RunKeeps, ClientKeeps
     DEF D!Next, D!Done

(***************************************************************************)
(* Every message that a pipeline would make something of, and that the     *)
(* client leaves alone, is given to it; only --limit may cut it off        *)
(* (maildir_scan.rs run, could_match_any).                                 *)
(***************************************************************************)
THEOREM NoMessageOverlooked ==
    ASSUME D!MaildirAssumption
    PROVE  D!Spec => []NothingOverlooked
<1>1. D!Init => MaildirInv
  BY MaildirInvInit
<1>2. MaildirInv /\ [D!Next]_(D!vars) => MaildirInv'
  BY MaildirInvStep
<1>3. ASSUME MaildirInv PROVE NothingOverlooked
  <2>1. d_stage = "done" => d_todo = {} /\ GivenOrDue = d_given
    BY <1>3 DEF MaildirInv, Stages, GivenOrDue
  <2>2. \A i \in d_untouched : D!Wanted(i) => Tracked(i)
    BY <1>3 DEF MaildirInv, AllTracked
  <2>3. d_stage = "done" => \A i \in d_untouched : D!Wanted(i) => i \in d_given \/ CutOff(i)
    BY <2>1, <2>2 DEF Tracked
  <2>. QED BY <2>1, <2>3, SameToMaildirScan DEF NothingOverlooked, D!NothingOverlooked, CutOff
<1>. QED BY <1>1, <1>2, <1>3, PTL DEF D!Spec

-----------------------------------------------------------------------------
(***************************************************************************)
(* JmapWatch                                                               *)
(***************************************************************************)

(***************************************************************************)
(* What carries the keyword, or is skipped as looked at, the pipeline has  *)
(* been run on, also when the program died or lost an answer between the   *)
(* run and the keyword (process_pending, email_set_keyword); and a dry run *)
(* gives no keyword.                                                       *)
(***************************************************************************)
KeywordMeansRun ==
    /\ j_marked \cup j_skip \subseteq j_ran
    /\ j_setup.dry_run => j_marked = {}

(***************************************************************************)
(* A pass, unless it is a dry run, ends only when all that is in the       *)
(* mailbox at that moment carries the keyword, whatever arrived or left    *)
(* between its pages (process_pending: an empty page ends it).             *)
(***************************************************************************)
PassIsThorough ==
    [][J!query_email /\ j_pc' # "get" /\ ~ j_setup.dry_run => j_mailbox \subseteq j_marked]_(J!vars)

\* The message that is marked next has been run; and as nothing is skipped,
\* every query starts at the first message that is left.
JmapInv ==
    /\ j_mailbox \subseteq J!Email
    /\ KeywordMeansRun
    /\ j_pc = "mark" => J!Min(j_page) \in j_ran
    /\ ~ j_setup.dry_run => j_skip = {} /\ j_position = 0

LEMMA JmapInvStep ==
    ASSUME JmapInv, [J!Next]_(J!vars)
    PROVE  JmapInv'
<1>. USE DEF JmapInv, KeywordMeansRun
<1>1. CASE UNCHANGED J!vars
  BY <1>1 DEF J!vars
<1>2. CASE \E m \in J!Email : J!Arrive(m) \/ J!Leave(m)
  BY <1>2 DEF J!Arrive, J!Leave
<1>3. CASE J!Start \/ J!event_source \/ J!StateChange \/ J!Resync \/ J!Lose \/ J!Exit
  BY <1>3 DEF J!Start, J!event_source, J!StateChange, J!Resync, J!Lose, J!Exit, J!server
<1>4. CASE J!query_email \/ J!get_email \/ J!PageDone \/ J!SkipOver
  BY <1>4 DEF J!query_email, J!get_email, J!PageDone, J!SkipOver, J!server
<1>5. CASE J!run
  BY <1>5 DEF J!run, J!server
<1>6. CASE J!email_set_keyword \/ J!LeaveUnmarked
  BY <1>6 DEF J!email_set_keyword, J!LeaveUnmarked, J!server
<1>7. CASE J!Error
  BY <1>7 DEF J!Error
<1>. QED BY <1>1, <1>2, <1>3, <1>4, <1>5, <1>6, <1>7 DEF J!Next, J!Pass

\* The first page of what is left has the first message that is left.
LEMMA FirstPage ==
    ASSUME J!JmapAssumption, j_position = 0, NEW S, S \subseteq J!Email, S # {}
    PROVE  J!PageOf(S) # {}
<1>0. S \subseteq Nat
  BY DEF J!Email
<1>1. PICK x \in S : \A y \in S : x <= y
  BY <1>0, Smallest
<1>2. {k \in S : k < x} = {}
  <2>1. \A k \in S : ~ (k < x)
    BY <1>0, <1>1
  <2>. QED BY <2>1
<1>3. J!Cardinality({k \in S : k < x}) = 0
  BY <1>2, FS_EmptySet DEF J!Cardinality, Cardinality
<1>4. 0 >= 0 /\ 0 < 0 + PageSize
  BY DEF J!JmapAssumption
<1>5. x \in J!PageOf(S)
  BY <1>1, <1>3, <1>4 DEF J!PageOf
<1>. QED BY <1>5

(***************************************************************************)
(* The keyword stands for a run of the pipeline, and a pass leaves nothing *)
(* in the mailbox without it: for any number of messages, any pages, and   *)
(* any requests that fail.                                                 *)
(***************************************************************************)
THEOREM KeywordVouches ==
    ASSUME J!JmapAssumption
    PROVE  J!Spec => []KeywordMeansRun /\ PassIsThorough
<1>1. J!Init => JmapInv
  BY DEF J!Init, JmapInv, KeywordMeansRun
<1>2. JmapInv /\ [J!Next]_(J!vars) => JmapInv'
  BY JmapInvStep
<1>3. JmapInv => KeywordMeansRun
  BY DEF JmapInv
<1>4. JmapInv /\ J!query_email /\ j_pc' # "get" /\ ~ j_setup.dry_run => j_mailbox \subseteq j_marked
  <2>. SUFFICES ASSUME JmapInv, J!query_email, j_pc' # "get", ~ j_setup.dry_run,
                       J!Unmarked # {}
                PROVE  FALSE
    BY DEF J!Unmarked
  <2>1. j_page' = {} /\ j_page' = J!PageOf(J!Unmarked)
    BY DEF J!query_email
  <2>2. J!Unmarked \subseteq J!Email /\ j_position = 0
    BY DEF JmapInv, J!Unmarked
  <2>. QED BY <2>1, <2>2, FirstPage
<1>. QED BY <1>1, <1>2, <1>3, <1>4, PTL DEF J!Spec, PassIsThorough

-----------------------------------------------------------------------------
(***************************************************************************)
(* The front ends together                                                 *)
(***************************************************************************)

(***************************************************************************)
(* What has been proved of each of them holds where it is among the others: *)
(* no front end touches another's state.                                   *)
(***************************************************************************)
THEOREM FrontEndsHold ==
    ASSUME FrontEndsAssumption
    PROVE  FrontEndsSpec => []GivenWhole /\ []NothingOverlooked /\ []KeywordMeansRun /\ PassIsThorough
<1>1. MilterAssumption /\ D!MaildirAssumption /\ J!JmapAssumption
  BY DEF FrontEndsAssumption
<1>2. FrontEndsInit => Init /\ D!Init /\ J!Init
  BY DEF FrontEndsInit
<1>3. [FrontEndsNext]_frontends => [Next]_vars
  BY DEF FrontEndsNext, JmapWatchStep, MilterStep, MaildirScanStep, frontends
<1>4. [FrontEndsNext]_frontends => [D!Next]_(D!vars)
  BY DEF FrontEndsNext, JmapWatchStep, MilterStep, MaildirScanStep, frontends, dvars, D!vars
<1>5. [FrontEndsNext]_frontends => [J!Next]_(J!vars)
  BY DEF FrontEndsNext, JmapWatchStep, MilterStep, MaildirScanStep, frontends, jvars, J!vars
<1>6. FrontEndsSpec => Spec /\ D!Spec /\ J!Spec
  BY <1>2, <1>3, <1>4, <1>5, PTL DEF FrontEndsSpec, Spec, D!Spec, J!Spec
<1>7. Spec => []GivenWhole
  BY <1>1, MessagesStayWhole
<1>8. D!Spec => []NothingOverlooked
  BY <1>1, NoMessageOverlooked
<1>9. J!Spec => []KeywordMeansRun /\ PassIsThorough
  BY <1>1, KeywordVouches
<1>. QED BY <1>6, <1>7, <1>8, <1>9
=============================================================================
