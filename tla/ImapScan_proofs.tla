-------------------------- MODULE ImapScan_proofs --------------------------
(***************************************************************************)
(* What holds of imap-scan for every mailbox, every set of extractors and  *)
(* every chunk size: a message is only given up on when it is hopeless,    *)
(* and a saved position vouches for every message up to it.                *)
(*                                                                         *)
(* The second needs an invariant of the whole run.  While a run works in   *)
(* the mailbox it examined, every message up to `after` that one of its    *)
(* extractors wants was seen or is on the list (ProgressOK); a chunk is    *)
(* the beginning of the list, so that whatever is left when a position is  *)
(* saved lies past it; and a backfill, whose list is only for some of the  *)
(* extractors, leaves the position it started from alone until it is done  *)
(* (BackfillOK), when the two lists together cover all of them.            *)
(*                                                                         *)
(* That a fetch only asks for what is due rests on the list itself: what   *)
(* is on it was matched under the search of this run and lies past what    *)
(* the run has done (DueInv).                                              *)
(***************************************************************************)
EXTENDS ImapScan, FiniteSetTheorems, WellFoundedInduction, TLAPS

-----------------------------------------------------------------------------
(***************************************************************************)
(* Sets of UIDs: their smallest and largest members, and their beginnings. *)
(***************************************************************************)

\* < is well-founded, the form in which the library's lemma WFMin takes it.
LEMMA LessOnNat == IsWellFoundedOn({p \in Nat \X Nat : p[1] < p[2]}, Nat)
BY NatLessThanWellFounded DEF OpToRel

\* A set of numbers has a smallest member.
LEMMA Smallest ==
    ASSUME NEW S, S \subseteq Nat, S # {}
    PROVE  \E x \in S : \A y \in S : x <= y
<1>. DEFINE Less == {p \in Nat \X Nat : p[1] < p[2]}
<1>1. PICK x \in S : \A y \in S : <<y, x>> \notin Less
  <2>. IsWellFoundedOn(Less, Nat)
    BY LessOnNat
  <2>. HIDE DEF Less
  <2>. QED BY WFMin
<1>2. ASSUME NEW y \in S PROVE x <= y
  <2>1. ~ (y < x)
    <3>1. SUFFICES ASSUME y < x PROVE FALSE
      OBVIOUS
    <3>2. <<y, x>> \in Nat \X Nat /\ <<y, x>>[1] < <<y, x>>[2]
      BY <3>1
    <3>3. <<y, x>> \in Less
      BY <3>2
    <3>. QED BY <3>3, <1>1
  <2>2. x \in Nat /\ y \in Nat
    OBVIOUS
  <2>. HIDE DEF Less
  <2>. QED BY <2>1, <2>2
<1>. QED BY <1>2

\* What Min says of a set of UIDs.
LEMMA Mins ==
    ASSUME NEW S, S \subseteq Uid, S # {}
    PROVE  Min(S) \in S /\ \A u \in S : Min(S) <= u
<1>1. S \subseteq Nat
  BY ScanAssumption DEF Uid
<1>2. \E x \in S : \A y \in S : x =< y
  BY <1>1, Smallest
<1>. QED BY <1>2 DEF Min

\* What Max says of one, or of one and the saved position.
LEMMA Maxs ==
    ASSUME NEW S, S \subseteq 0 .. MaxUid, S # {}
    PROVE  Max(S) \in S /\ \A u \in S : u <= Max(S)
<1>. DEFINE T == {MaxUid - u : u \in S}
<1>1. T \subseteq Nat /\ T # {}
  <2>1. ASSUME NEW u \in S PROVE MaxUid - u \in Nat
    <3>1. u \in 0 .. MaxUid
      OBVIOUS
    <3>. QED BY <3>1, ScanAssumption
  <2>. QED BY <2>1
<1>2. PICK t \in T : \A y \in T : t <= y
  BY <1>1, Smallest
<1>3. PICK x \in S : t = MaxUid - x
  BY <1>2
<1>4. ASSUME NEW u \in S PROVE u <= x
  <2>1. MaxUid - u \in T
    OBVIOUS
  <2>2. t <= MaxUid - u
    BY <2>1, <1>2
  <2>. QED BY <2>2, <1>3, ScanAssumption
<1>5. \E m \in S : \A y \in S : m >= y
  <2>1. \A y \in S : x >= y
    BY <1>4, ScanAssumption
  <2>. QED BY <2>1
<1>. QED BY <1>5, ScanAssumption DEF Max

\* There are at most MaxUid UIDs in a set.
LEMMA Small ==
    ASSUME NEW S, S \subseteq Uid
    PROVE  IsFiniteSet(S) /\ Cardinality(S) \in Nat /\ Cardinality(S) <= MaxUid
<1>1. IsFiniteSet(Uid) /\ Cardinality(Uid) = MaxUid
  <2>1. MaxUid \in Nat
    BY ScanAssumption
  <2>2. Cardinality(Uid) = IF 1 > MaxUid THEN 0 ELSE MaxUid - 1 + 1
    BY <2>1, FS_Interval DEF Uid
  <2>. QED BY <2>1, <2>2, FS_Interval DEF Uid
<1>2. IsFiniteSet(S) /\ Cardinality(S) <= MaxUid
  BY <1>1, FS_Subset
<1>. QED BY <1>2, FS_CardinalityType

\* --limit of the whole mailbox limits nothing.
LEMMA FirstIsAll ==
    ASSUME NEW S, S \subseteq Uid
    PROVE  First(MaxUid, S) = S
<1>1. ASSUME NEW u \in S PROVE Cardinality({v \in S : v <= u}) <= MaxUid
  <2>1. {v \in S : v <= u} \subseteq Uid
    OBVIOUS
  <2>. QED BY <2>1, Small
<1>. QED BY <1>1 DEF First

\* What comes before a message of the beginning is part of it.
LEMMA FirstIsPrefix ==
    ASSUME NEW S, S \subseteq Uid, NEW n \in Nat \ {0},
           NEW u \in First(n, S), NEW v \in S, v <= u
    PROVE  v \in First(n, S)
<1>. DEFINE A == {w \in S : w <= v}
            B == {w \in S : w <= u}
<1>0. u \in Nat /\ v \in Nat /\ S \subseteq Nat
  BY ScanAssumption DEF First, Uid
<1>1. A \subseteq B /\ A \subseteq Uid /\ B \subseteq Uid
  <2>1. ASSUME NEW w \in S, w <= v PROVE w <= u
    <3>1. w \in Nat /\ v \in Nat /\ u \in Nat
      BY <1>0
    <3>. QED BY <2>1, <3>1
  <2>. QED BY <2>1
<1>2. Cardinality(A) <= Cardinality(B) /\ Cardinality(A) \in Nat /\ Cardinality(B) \in Nat
  BY <1>1, Small, FS_Subset
<1>3. Cardinality(B) <= n
  BY DEF First
<1>4. Cardinality(A) <= n
  <2>. HIDE DEF A, B
  <2>. QED BY <1>2, <1>3
<1>. QED BY <1>4 DEF First

\* A chunk is never empty.
LEMMA FirstHasMin ==
    ASSUME NEW S, S \subseteq Uid, S # {}, NEW n \in Nat \ {0}
    PROVE  Min(S) \in First(n, S)
<1>1. Min(S) \in S /\ \A u \in S : Min(S) <= u
  BY Mins
<1>2. S \subseteq Nat
  BY ScanAssumption DEF Uid
<1>3. {v \in S : v <= Min(S)} = {Min(S)}
  <2>1. ASSUME NEW v \in S, v <= Min(S) PROVE v = Min(S)
    <3>1. Min(S) <= v /\ v \in Nat /\ Min(S) \in Nat
      BY <1>1, <1>2
    <3>. QED BY <3>1, <2>1
  <2>2. Min(S) <= Min(S)
    BY <1>1
  <2>. QED BY <2>1, <2>2, <1>1
<1>4. Cardinality({Min(S)}) = 1
  BY FS_Singleton
<1>5. 1 <= n
  OBVIOUS
<1>. QED BY <1>1, <1>3, <1>4, <1>5 DEF First

-----------------------------------------------------------------------------
(***************************************************************************)
(* OnlyHopelessSkipped is inductive: whatever is skipped has failed to     *)
(* parse with its BODYSTRUCTURE left out.                                  *)
(***************************************************************************)

\* Starting a run takes nothing back.
LEMMA Start_KeepsHistory ==
    ASSUME NEW E, NEW again, Start(E, again)
    PROVE  processed' = processed /\ skipped' = skipped
BY DEF Start

\* Only Skip gives up on a message, and only on one that is beyond parsing.
THEOREM HopelessOnly == Spec => []OnlyHopelessSkipped
<1>1. Init => OnlyHopelessSkipped
  BY DEF Init, OnlyHopelessSkipped
<1>2. OnlyHopelessSkipped /\ [Next]_vars => OnlyHopelessSkipped'
  <2>. SUFFICES ASSUME OnlyHopelessSkipped, [Next]_vars
                PROVE  OnlyHopelessSkipped'
    OBVIOUS
  <2>1. CASE Skip
    <3>1. Min(pending) \in Hopeless
      BY <2>1 DEF Skip, Parses
    <3>. QED BY <2>1, <3>1 DEF Skip, OnlyHopelessSkipped
  <2>2. CASE Renumber
    BY <2>2 DEF Renumber, OnlyHopelessSkipped
  <2>3. ASSUME NEW E \in SUBSET Extractor, NEW again \in BOOLEAN, Start(E, again)
        PROVE  OnlyHopelessSkipped'
    BY <2>3, Start_KeepsHistory DEF OnlyHopelessSkipped
  <2>4. ASSUME UNCHANGED skipped PROVE OnlyHopelessSkipped'
    BY <2>4 DEF OnlyHopelessSkipped
  <2>5. CASE Arrive \/ Disconnect \/ Search \/ SearchFails
    BY <2>4, <2>5 DEF Arrive, Disconnect, Search, SearchFails
  <2>6. CASE FetchChunk \/ Isolate \/ DropStructure \/ FetchFails
    BY <2>4, <2>6 DEF FetchChunk, Isolate, DropStructure, FetchFails
  <2>7. CASE reconnect \/ checkpoint \/ ListDone \/ SaveBackfill
    BY <2>4, <2>7 DEF reconnect, checkpoint, ListDone, SaveBackfill
  <2>8. CASE watch_loop \/ Exit
    BY <2>4, <2>8 DEF watch_loop, Exit
  <2>9. CASE UNCHANGED vars
    BY <2>4, <2>9 DEF vars
  <2>. QED BY <2>1, <2>2, <2>3, <2>5, <2>6, <2>7, <2>8, <2>9 DEF Next, Answer
<1>. QED BY <1>1, <1>2, PTL DEF Spec

-----------------------------------------------------------------------------
(***************************************************************************)
(* The inductive invariant behind CursorMeansProcessed.                    *)
(***************************************************************************)

\* An extractor has seen a message, or the message was given up on.
Seen(u, e) == <<u, e>> \in processed \/ u \in skipped

\* Every message up to n that one of E wants was seen ...
DoneTo(E, n) == \A e \in E, u \in Uid : u \in Wants[e] /\ u <= n => Seen(u, e)

\* ... or is still on the list.
DoneOrPendingTo(E, n) ==
    \A e \in E, u \in Uid : u \in Wants[e] /\ u <= n => Seen(u, e) \/ u \in pending

\* The numbers are UIDs and UIDVALIDITYs.
Numbers ==
    /\ validity \in Nat /\ session \in Nat /\ session <= validity
    /\ top \in 0 .. MaxUid /\ after \in 0 .. MaxUid
    /\ pending \subseteq Uid
    /\ running \subseteq Extractor
    /\ pc = "save" => mark \in Uid

\* CursorMeansProcessed, with what the saved position is made of.
CursorOK ==
    cursor # NoCursor =>
        /\ KeepsPosition
        /\ cursor.validity \in Nat /\ cursor.validity <= validity
        /\ cursor.last \in Uid /\ cursor.extractors \subseteq Extractor
        /\ cursor.validity = validity =>
              cursor.last <= top /\ DoneTo(cursor.extractors, cursor.last)

\* A backfill works up to the saved position, which stays what it was.
BackfillOK ==
    /\ pc \in {"search", "save", "watch"} => stage # "backfill"
    /\ pc = "resave" => stage = "backfill" /\ pending = {}
    /\ stage = "backfill" /\ pc # "down" =>
          cursor # NoCursor /\ cursor.validity = session /\ cursor.last = after

\* How far a run that keeps its position has got, in the mailbox it examined.
ProgressOK ==
    pc # "down" /\ KeepsPosition /\ session = validity =>
        /\ after <= top
        /\ \A u \in pending : u <= after
        /\ pc \in {"search", "watch"} => DoneTo(running, after)
        /\ pc \in {"fetch", "save", "resave"} => DoneOrPendingTo(Current, after)
        /\ pc = "save" => mark <= after /\ \A u \in pending : u > mark

IInv == Numbers /\ CursorOK /\ BackfillOK /\ ProgressOK

-----------------------------------------------------------------------------
(***************************************************************************)
(* Every step preserves it.                                                *)
(***************************************************************************)

\* Messages are seen for good while the mailbox keeps its numbering.
LEMMA HistoryGrows ==
    ASSUME processed \subseteq processed', skipped \subseteq skipped'
    PROVE  \A u, e : Seen(u, e) => Seen(u, e)'
BY DEF Seen

\* The steps that only move control or the server leave the invariant alone.
LEMMA SmallSteps ==
    ASSUME IInv,
           Arrive \/ Disconnect \/ SearchFails \/ Isolate \/ DropStructure
              \/ reconnect \/ Exit \/ UNCHANGED vars
    PROVE  IInv'
<1>1. /\ UNCHANGED <<validity, cursor, stage, running, session, after, pending, mark,
                      processed, skipped>>
      /\ top' \in 0 .. MaxUid /\ top <= top'
      /\ pc' = pc \/ pc' = "down"
  BY ScanAssumption DEF IInv, Numbers, Arrive, Disconnect, SearchFails, Isolate,
         DropStructure, reconnect, Exit, Down, run, quarantine, vars, Uid
<1>2. /\ \A E, n : DoneTo(E, n)' = DoneTo(E, n)
      /\ DoneOrPendingTo(Current, after)' = DoneOrPendingTo(Current, after)
      /\ DoneTo(running, after)' = DoneTo(running, after)
  BY <1>1 DEF DoneTo, DoneOrPendingTo, Seen, Current, changed_since
<1>3. Numbers'
  BY <1>1 DEF IInv, Numbers
<1>4. CursorOK'
  <2>1. DoneTo(cursor.extractors, cursor.last)' = DoneTo(cursor.extractors, cursor.last)
    BY <1>1 DEF DoneTo, Seen
  <2>2. cursor # NoCursor => cursor.last \in Nat /\ top \in Nat /\ top' \in Nat
    BY <1>1, ScanAssumption DEF IInv, CursorOK, Numbers, Uid
  <2>. QED BY <1>1, <2>1, <2>2 DEF IInv, CursorOK
<1>5. BackfillOK'
  BY <1>1 DEF IInv, BackfillOK
<1>6. ProgressOK'
  <2>1. after \in Nat /\ top \in Nat /\ top' \in Nat
    BY <1>1, ScanAssumption DEF IInv, Numbers
  <2>. QED BY <1>1, <1>2, <2>1 DEF IInv, ProgressOK
<1>. QED BY <1>3, <1>4, <1>5, <1>6 DEF IInv

\* After a renumbering nothing that is saved or under way counts.
LEMMA RenumberKeeps ==
    ASSUME IInv, Renumber
    PROVE  IInv'
<1>1. validity' = validity + 1 /\ validity \in Nat /\ session \in Nat /\ session <= validity
  BY DEF IInv, Numbers, Renumber
<1>2. Numbers' /\ BackfillOK'
  BY <1>1 DEF IInv, Numbers, BackfillOK, Renumber, run
<1>3. session' # validity'
  BY <1>1 DEF Renumber, run
<1>4. cursor' = cursor
  BY DEF Renumber
<1>5. cursor # NoCursor => /\ cursor.validity \in Nat /\ cursor.validity <= validity'
                           /\ cursor.validity # validity'
  BY <1>1 DEF IInv, CursorOK
<1>6. CursorOK' /\ ProgressOK'
  BY <1>3, <1>4, <1>5 DEF IInv, CursorOK, ProgressOK
<1>. QED BY <1>2, <1>6 DEF IInv

\* The chunk is part of the list and has its first messages.
LEMMA Chunks ==
    ASSUME pending \subseteq Uid, pending # {}
    PROVE  /\ Chunk \subseteq pending /\ Min(pending) \in Chunk
           /\ Max(Chunk) \in Chunk
           /\ \A u \in pending \ Chunk : u > Max(Chunk)
           /\ \A u \in pending \ {Min(pending)} : u > Min(pending)
<1>1. Min(pending) \in pending /\ \A u \in pending : Min(pending) <= u
  BY Mins
<1>2. pending \subseteq Nat
  BY ScanAssumption DEF Uid
<1>. DEFINE least == Min(pending)
<1>3. ASSUME NEW u \in pending \ {least} PROVE u > least
  <2>1. u \in Nat /\ least \in Nat /\ least <= u /\ u # least
    BY <1>1, <1>2
  <2>. HIDE DEF least
  <2>. QED BY <2>1
<1>4. CASE least \in isolated
  <2>1. Chunk = {least}
    BY <1>4 DEF Chunk
  <2>2. least \in 0 .. MaxUid
    <3>. HIDE DEF least
    <3>1. least \in Uid
      BY <1>1 DEF least
    <3>. QED BY <3>1, ScanAssumption DEF Uid
  <2>3. Max(Chunk) = least
    <3>. HIDE DEF least
    <3>1. Chunk \subseteq 0 .. MaxUid /\ Chunk # {}
      BY <2>1, <2>2
    <3>2. Max(Chunk) \in Chunk
      BY <3>1, Maxs
    <3>. QED BY <2>1, <3>2
  <2>4. Chunk \subseteq pending /\ least \in Chunk /\ Max(Chunk) \in Chunk
    BY <1>1, <2>1, <2>3
  <2>5. \A u \in pending \ Chunk : u > Max(Chunk)
    BY <1>3, <2>1, <2>3
  <2>. QED BY <1>3, <2>4, <2>5
<1>5. CASE least \notin isolated
  <2>1. Chunk = First(Batch, pending)
    BY <1>5 DEF Chunk
  <2>2. Chunk \subseteq pending /\ Min(pending) \in Chunk
    BY <2>1, FirstHasMin, ScanAssumption DEF First
  <2>3. Max(Chunk) \in Chunk /\ \A u \in Chunk : u <= Max(Chunk)
    <3>1. Chunk \subseteq Uid /\ Uid \subseteq 0 .. MaxUid
      BY <2>2, ScanAssumption DEF Uid
    <3>. QED BY <2>2, <3>1, Maxs
  <2>4. ASSUME NEW u \in pending \ Chunk PROVE u > Max(Chunk)
    <3>1. ~ (u <= Max(Chunk))
      BY <2>1, <2>2, <2>3, FirstIsPrefix, ScanAssumption
    <3>2. u \in Nat /\ Max(Chunk) \in Nat
      BY <1>2, <2>2, <2>3
    <3>. QED BY <3>1, <3>2
  <2>. QED BY <1>3, <2>2, <2>3, <2>4
<1>. QED BY <1>4, <1>5

(***************************************************************************)
(* A step that takes `done` off the list, all of it seen now, and either   *)
(* goes on with a backfill or saves the last of it.                        *)
(***************************************************************************)
LEMMA TakenOffList ==
    ASSUME IInv, pc = "fetch", NEW STATE done, done \subseteq pending,
           mark' \in done,
           \A u \in pending \ done : u > mark',
           processed \subseteq processed', skipped \subseteq skipped',
           \A u \in done, e \in Current : u \in Wants[e] => Seen(u, e)',
           pending' = pending \ done,
           pc' = IF stage = "backfill" THEN "fetch" ELSE "save",
           UNCHANGED <<validity, top, cursor, run>>
    PROVE  IInv'
<1>. USE DEF run
<1>1. Numbers' /\ BackfillOK'
  BY DEF IInv, Numbers, BackfillOK
<1>2. \A u, e : Seen(u, e) => Seen(u, e)'
  BY HistoryGrows
<1>3. CursorOK'
  BY <1>2 DEF IInv, CursorOK, DoneTo
<1>4. Current' = Current
  BY DEF Current, changed_since
<1>5. DoneOrPendingTo(Current, after) => DoneOrPendingTo(Current, after)'
  <2>. SUFFICES ASSUME DoneOrPendingTo(Current, after),
                       NEW e \in Current, NEW u \in Uid, u \in Wants[e], u <= after
                PROVE  Seen(u, e)' \/ u \in pending'
    BY <1>4 DEF DoneOrPendingTo
  <2>1. Seen(u, e) \/ u \in pending
    BY DEF DoneOrPendingTo
  <2>. QED BY <2>1, <1>2
<1>6. ProgressOK'
  <2>. SUFFICES ASSUME KeepsPosition, session = validity
                PROVE  /\ after <= top
                       /\ \A u \in pending : u <= after
                       /\ DoneOrPendingTo(Current, after)'
                       /\ mark' <= after
    BY DEF ProgressOK
  <2>. QED BY <1>5 DEF IInv, ProgressOK, Numbers
<1>. QED BY <1>1, <1>3, <1>6 DEF IInv

\* The beginning of the list is fetched.
LEMMA FetchChunkKeeps ==
    ASSUME IInv, FetchChunk
    PROVE  IInv'
<1>1. pc = "fetch" /\ pending # {} /\ pending \subseteq Uid
  BY DEF FetchChunk, Fetching, IInv, Numbers
<1>2. /\ Chunk \subseteq pending /\ Max(Chunk) \in Chunk
      /\ \A u \in pending \ Chunk : u > Max(Chunk)
  BY <1>1, Chunks
<1>3. /\ processed' = processed \cup See(Chunk) /\ skipped' = skipped
      /\ pending' = pending \ Chunk /\ mark' = Max(Chunk)
      /\ pc' = IF stage = "backfill" THEN "fetch" ELSE "save"
      /\ UNCHANGED <<validity, top, cursor, run>>
  BY DEF FetchChunk
<1>4. \A u \in Chunk, e \in Current : u \in Wants[e] => Seen(u, e)'
  BY <1>3 DEF See, Seen
<1>. HIDE DEF Chunk
<1>. QED BY <1>1, <1>2, <1>3, <1>4, TakenOffList

\* The first message of the list is given up on.
LEMMA SkipKeeps ==
    ASSUME IInv, Skip
    PROVE  IInv'
<1>. DEFINE least == Min(pending)
<1>1. pc = "fetch" /\ pending # {} /\ pending \subseteq Uid
  BY DEF Skip, Fetching, IInv, Numbers
<1>2. {least} \subseteq pending /\ \A u \in pending \ {least} : u > least
  BY <1>1, Chunks
<1>3. /\ skipped' = skipped \cup {least} /\ processed' = processed
      /\ pending' = pending \ {least} /\ mark' = least
      /\ pc' = IF stage = "backfill" THEN "fetch" ELSE "save"
      /\ UNCHANGED <<validity, top, cursor, run>>
  BY DEF Skip
<1>4. \A u \in {least}, e \in Current : u \in Wants[e] => Seen(u, e)'
  BY <1>3 DEF Seen
<1>. HIDE DEF least
<1>. QED BY <1>1, <1>2, <1>3, <1>4, TakenOffList

\* A chunk fails half-way: what was seen of it stays on the list.
LEMMA FetchFailsKeeps ==
    ASSUME IInv, FetchFails
    PROVE  IInv'
<1>1. /\ processed \subseteq processed'
      /\ UNCHANGED <<validity, top, cursor, pc, run, pending, mark, skipped>>
  BY DEF FetchFails
<1>2. \A u, e : Seen(u, e) => Seen(u, e)'
  BY <1>1, HistoryGrows
<1>3. Numbers' /\ BackfillOK'
  BY <1>1 DEF IInv, Numbers, BackfillOK, run
<1>4. CursorOK'
  BY <1>1, <1>2 DEF IInv, CursorOK, DoneTo
<1>5. ProgressOK'
  <2>1. Current' = Current
    BY <1>1 DEF Current, changed_since, run
  <2>2. /\ DoneTo(running, after) => DoneTo(running, after)'
        /\ DoneOrPendingTo(Current, after) => DoneOrPendingTo(Current, after)'
    BY <1>1, <1>2, <2>1 DEF DoneTo, DoneOrPendingTo, run
  <2>. QED BY <1>1, <2>1, <2>2 DEF IInv, ProgressOK, run
<1>. QED BY <1>3, <1>4, <1>5 DEF IInv

\* The first search lists every wanted message past the saved position.
LEMMA SearchKeeps ==
    ASSUME IInv, Search
    PROVE  IInv'
<1>. DEFINE range == IF after = 0 THEN Present \cap Window
                                  ELSE {u \in Present : u > after}
<1>1. PICK narrowed \in BOOLEAN :
            /\ WorkThrough(First(Limit, Found(range, running, narrowed)))
            /\ after' = MaxOf(First(Limit, Found(range, running, narrowed)) \cup {after})
  BY DEF Search
<1>. DEFINE list == First(Limit, Found(range, running, narrowed))
<1>2. list \subseteq range /\ range \subseteq Present /\ Present \subseteq Uid
  BY ScanAssumption DEF First, Found, IInv, Numbers, Present, Uid
<1>3. /\ pc = "search" /\ pc' = "fetch" /\ stage # "backfill"
      /\ UNCHANGED <<validity, top, cursor, stage, running, session, processed, skipped>>
      /\ pending' = list /\ after' = MaxOf(list \cup {after})
  BY <1>1 DEF Search, WorkThrough, IInv, BackfillOK
<1>4. list \cup {after} \subseteq 0 .. MaxUid /\ list \cup {after} # {}
  <2>1. list \subseteq Uid /\ after \in 0 .. MaxUid
    BY <1>2 DEF IInv, Numbers
  <2>. HIDE DEF list
  <2>. QED BY <2>1, ScanAssumption DEF Uid
<1>5. after' \in list \cup {after} /\ \A u \in list \cup {after} : u <= after'
  <2>. HIDE DEF list
  <2>. QED BY <1>3, <1>4, Maxs DEF MaxOf
<1>6. Numbers'
  BY <1>2, <1>3, <1>4, <1>5, ScanAssumption DEF IInv, Numbers
<1>7. CursorOK'
  BY <1>3 DEF IInv, CursorOK, DoneTo, Seen
<1>8. BackfillOK'
  BY <1>3 DEF IInv, BackfillOK
<1>9. ProgressOK'
  <2>. SUFFICES ASSUME KeepsPosition, session = validity
                PROVE  /\ after' <= top
                       /\ \A u \in list : u <= after'
                       /\ DoneOrPendingTo(Current, after)'
    BY <1>3 DEF ProgressOK
  <2>1. after <= top /\ DoneTo(running, after)
    BY <1>3 DEF IInv, ProgressOK
  <2>2. after' <= top
    <3>1. \A u \in list \cup {after} : u <= top
      BY <1>2, <2>1 DEF Present
    <3>. QED BY <3>1, <1>5
  <2>3. list = Found(range, running, narrowed)
    <3>1. Limit = MaxUid /\ Found(range, running, narrowed) \subseteq Uid
      BY <1>2, ScanAssumption DEF Found
    <3>. QED BY <3>1, FirstIsAll
  <2>4. ASSUME NEW e \in running, NEW u \in Uid, u \in Wants[e], u <= after'
        PROVE  Seen(u, e) \/ u \in list
    <3>1. CASE u <= after
      BY <2>1, <2>4, <3>1 DEF DoneTo
    <3>2. CASE ~ (u <= after)
      <4>1. u \in Nat /\ after \in Nat /\ after' \in Nat /\ top \in Nat /\ u >= 1
        BY <1>6, ScanAssumption DEF IInv, Numbers, Uid
      <4>2. u \in Present
        BY <4>1, <2>2, <2>4 DEF Present
      <4>3. u \in Window
        BY ScanAssumption
      <4>4. u \in range
        BY <3>2, <4>1, <4>2, <4>3
      <4>5. u \in Found(range, running, narrowed)
        BY <4>4, <2>4 DEF Found
      <4>. QED BY <4>5, <2>3
    <3>. QED BY <3>1, <3>2
  <2>5. Current' = running
    BY <1>3 DEF Current
  <2>6. DoneOrPendingTo(Current, after)'
    <3>1. \A u, e : Seen(u, e)' <=> Seen(u, e)
      BY <1>3 DEF Seen
    <3>. HIDE DEF list
    <3>. QED BY <3>1, <2>4, <2>5, <1>3 DEF DoneOrPendingTo
  <2>. QED BY <2>2, <2>6, <1>5
<1>. QED BY <1>6, <1>7, <1>8, <1>9 DEF IInv

\* A saved position: everything up to `last` was seen by the run's extractors.
LEMMA Saved ==
    ASSUME IInv, KeepsPosition, NEW STATE last, last \in Uid,
           session = validity => last <= top /\ DoneTo(running, last),
           cursor' = Position(last),
           UNCHANGED <<validity, top, processed, skipped>>
    PROVE  CursorOK'
<1>1. /\ cursor'.validity = session /\ cursor'.last = last /\ cursor'.extractors = running
  BY DEF Position
<1>2. \A u, e : Seen(u, e)' <=> Seen(u, e)
  BY DEF Seen
<1>3. DoneTo(running, last) => \A e \in running, u \in Uid :
                                  u \in Wants[e] /\ u <= last => Seen(u, e)'
  BY <1>2 DEF DoneTo
<1>. QED BY <1>1, <1>3 DEF IInv, Numbers, CursorOK, DoneTo

\* What is left on the list lies past the UID that is saved.
LEMMA checkpointKeeps ==
    ASSUME IInv, checkpoint
    PROVE  IInv'
<1>1. /\ pc = "save" /\ pc' = "fetch" /\ stage # "backfill"
      /\ UNCHANGED <<validity, top, stage, running, session, after, pending, mark,
                     processed, skipped>>
  BY DEF checkpoint, run, IInv, BackfillOK
<1>2. CursorOK'
  <2>1. CASE cursor' = cursor
    BY <1>1, <2>1 DEF IInv, CursorOK, DoneTo, Seen
  <2>2. CASE KeepsPosition /\ cursor' = Position(mark)
    <3>1. mark \in Uid
      BY <1>1 DEF IInv, Numbers
    <3>2. ASSUME session = validity PROVE mark <= top /\ DoneTo(running, mark)
      <4>1. /\ after <= top /\ mark <= after /\ \A u \in pending : u > mark
            /\ DoneOrPendingTo(running, after)
        BY <1>1, <2>2, <3>2 DEF IInv, ProgressOK, Current
      <4>2. after \in Nat /\ top \in Nat /\ mark \in Nat /\ Uid \subseteq Nat
        BY <3>1, ScanAssumption DEF IInv, Numbers, Uid
      <4>3. ASSUME NEW e \in running, NEW u \in Uid, u \in Wants[e], u <= mark
            PROVE  Seen(u, e)
        <5>1. u <= after /\ ~ (u > mark)
          BY <4>1, <4>2, <4>3
        <5>. QED BY <4>1, <4>3, <5>1 DEF DoneOrPendingTo
      <4>. QED BY <4>1, <4>2, <4>3 DEF DoneTo
    <3>. QED BY <1>1, <2>2, <3>1, <3>2, Saved
  <2>. QED BY <2>1, <2>2 DEF checkpoint
<1>3. Numbers' /\ BackfillOK'
  BY <1>1 DEF IInv, Numbers, BackfillOK
<1>4. ProgressOK'
  BY <1>1 DEF IInv, ProgressOK, Current, DoneOrPendingTo, Seen
<1>. QED BY <1>2, <1>3, <1>4 DEF IInv

\* With the list empty, all of it was seen.
LEMMA ListDoneKeeps ==
    ASSUME IInv, ListDone
    PROVE  IInv'
<1>1. /\ pc = "fetch" /\ pending = {}
      /\ pc' = IF stage = "backfill" THEN "resave" ELSE "watch"
      /\ UNCHANGED <<validity, top, cursor, stage, running, session, after, pending,
                     mark, processed, skipped>>
  BY DEF ListDone, run
<1>2. Numbers' /\ CursorOK' /\ BackfillOK'
  BY <1>1 DEF IInv, Numbers, CursorOK, BackfillOK, DoneTo, Seen
<1>3. ProgressOK'
  <2>1. DoneOrPendingTo(Current, after) =>
           DoneTo(Current, after)' /\ DoneOrPendingTo(Current, after)'
    BY <1>1 DEF DoneTo, DoneOrPendingTo, Seen, Current, changed_since
  <2>2. stage # "backfill" => Current' = running'
    BY <1>1 DEF Current
  <2>. QED BY <1>1, <2>1, <2>2 DEF IInv, ProgressOK
<1>. QED BY <1>2, <1>3 DEF IInv

\* The old extractors had seen it all, the new ones have now.
LEMMA SaveBackfillKeeps ==
    ASSUME IInv, SaveBackfill
    PROVE  IInv'
<1>1. /\ pc = "resave" /\ pc' = "search" /\ stage' = "initial"
      /\ stage = "backfill" /\ pending = {}
      /\ UNCHANGED <<validity, top, running, session, after, pending, mark,
                     processed, skipped>>
      /\ cursor' = cursor \/ cursor' = Position(after)
  BY DEF SaveBackfill, IInv, BackfillOK
<1>2. /\ cursor # NoCursor /\ cursor.validity = session /\ cursor.last = after
      /\ KeepsPosition /\ after \in Uid
  BY <1>1 DEF IInv, BackfillOK, CursorOK
<1>3. ASSUME session = validity PROVE after <= top /\ DoneTo(running, after)
  <2>1. after <= top /\ DoneTo(cursor.extractors, after)
    BY <1>2, <1>3 DEF IInv, CursorOK
  <2>2. DoneOrPendingTo(running \ cursor.extractors, after)
    BY <1>1, <1>2, <1>3 DEF IInv, ProgressOK, Current, changed_since
  <2>. QED BY <1>1, <2>1, <2>2 DEF DoneTo, DoneOrPendingTo
<1>4. CursorOK'
  <2>1. CASE cursor' = cursor
    BY <1>1, <2>1 DEF IInv, CursorOK, DoneTo, Seen
  <2>2. CASE cursor' = Position(after)
    BY <1>1, <1>2, <1>3, <2>2, Saved
  <2>. QED BY <1>1, <2>1, <2>2
<1>5. Numbers' /\ BackfillOK'
  BY <1>1 DEF IInv, Numbers, BackfillOK
<1>6. ProgressOK'
  BY <1>1, <1>3 DEF ProgressOK, DoneTo, Seen
<1>. QED BY <1>4, <1>5, <1>6 DEF IInv

\* The search after IDLE lists every wanted message past the cursor.
LEMMA watch_loopKeeps ==
    ASSUME IInv, watch_loop
    PROVE  IInv'
<1>1. PICK narrowed \in BOOLEAN :
         LET new_uids == Found({u \in Present : u > after}, running, narrowed)
         IN new_uids # {} /\ WorkThrough(new_uids) /\ after' = Max(new_uids)
  BY DEF watch_loop
<1>. DEFINE new_uids == Found({u \in Present : u > after}, running, narrowed)
<1>2. new_uids \subseteq {u \in Present : u > after} /\ Present \subseteq Uid
  BY ScanAssumption DEF Found, IInv, Numbers, Present, Uid
<1>3. /\ pc = "watch" /\ pc' = "fetch" /\ stage # "backfill" /\ stage' = "watching"
      /\ UNCHANGED <<validity, top, cursor, running, session, processed, skipped>>
      /\ pending' = new_uids /\ after' = Max(new_uids) /\ new_uids # {}
  BY <1>1 DEF watch_loop, WorkThrough, IInv, BackfillOK
<1>4. after' \in new_uids /\ \A u \in new_uids : u <= after'
  <2>1. Uid \subseteq 0 .. MaxUid
    BY ScanAssumption DEF Uid
  <2>. HIDE DEF new_uids
  <2>2. new_uids \subseteq 0 .. MaxUid
    BY <1>2, <2>1
  <2>. QED BY <1>3, <2>2, Maxs
<1>5. after' \in Uid /\ after' \in Present /\ pending' \subseteq Uid
  <2>. HIDE DEF new_uids
  <2>. QED BY <1>2, <1>3, <1>4
<1>6. Numbers' /\ BackfillOK'
  BY <1>3, <1>5, ScanAssumption DEF IInv, Numbers, BackfillOK, Uid
<1>7. CursorOK'
  BY <1>3 DEF IInv, CursorOK, DoneTo, Seen
<1>8. ProgressOK'
  <2>. SUFFICES ASSUME KeepsPosition, session = validity
                PROVE  DoneOrPendingTo(Current, after)'
    BY <1>3, <1>4, <1>5 DEF ProgressOK, Present
  <2>1. DoneTo(running, after)
    BY <1>3 DEF IInv, ProgressOK
  <2>2. ASSUME NEW e \in running, NEW u \in Uid, u \in Wants[e], u <= after'
        PROVE  Seen(u, e) \/ u \in new_uids
    <3>1. CASE u <= after
      BY <2>1, <2>2, <3>1 DEF DoneTo
    <3>2. CASE ~ (u <= after)
      <4>1. u \in Nat /\ u >= 1 /\ after \in Nat /\ after' \in Nat /\ after' <= top
            /\ top \in Nat
        BY <1>5, ScanAssumption DEF IInv, Numbers, Uid, Present
      <4>2. u \in Present /\ u > after
        BY <4>1, <2>2, <3>2 DEF Present
      <4>. QED BY <4>2, <2>2 DEF Found
    <3>. QED BY <3>1, <3>2
  <2>3. Current' = running /\ \A u, e : Seen(u, e)' <=> Seen(u, e)
    BY <1>3 DEF Current, Seen
  <2>. HIDE DEF new_uids
  <2>. QED BY <2>2, <2>3, <1>3 DEF DoneOrPendingTo
<1>. QED BY <1>6, <1>7, <1>8 DEF IInv

\* A run resumes where every extractor has been, or starts over.
LEMMA StartKeeps ==
    ASSUME IInv, NEW E \in SUBSET Extractor, NEW again \in BOOLEAN, Start(E, again)
    PROVE  IInv'
<1>. DEFINE resumes == /\ KeepsPosition /\ ~ again /\ cursor # NoCursor
                       /\ cursor.validity = validity
            changed == changed_since(E)
<1>1. /\ UNCHANGED <<validity, top, cursor, processed, skipped>>
      /\ running' = E /\ session' = validity
      /\ after' = IF resumes THEN cursor.last ELSE 0
  BY DEF Start
<1>2. /\ \A u, e : Seen(u, e)' <=> Seen(u, e)
      /\ CursorOK'
  BY <1>1 DEF IInv, CursorOK, DoneTo, Seen
<1>3. resumes => /\ cursor.last \in Uid /\ cursor.last <= top
                 /\ DoneTo(cursor.extractors, cursor.last)
  BY DEF IInv, CursorOK
<1>4. after' \in 0 .. MaxUid /\ (KeepsPosition => after' <= top)
  BY <1>1, <1>3, ScanAssumption DEF IInv, Numbers, Uid
<1>5. CASE resumes /\ changed # {}
  <2>1. PICK narrowed \in BOOLEAN :
           /\ stage' = "backfill" /\ pc' = "fetch"
           /\ pending' = Found(Present \cap 1 .. after', changed, narrowed)
    BY <1>1, <1>5 DEF Start, WorkThrough
  <2>2. pending' \subseteq Present \cap 1 .. after' /\ Present \subseteq Uid
    BY <2>1, ScanAssumption DEF Found, Present, IInv, Numbers, Uid
  <2>3. Numbers' /\ BackfillOK'
    BY <1>1, <1>4, <1>5, <2>1, <2>2 DEF IInv, Numbers, BackfillOK
  <2>4. Current' = changed
    BY <1>1, <2>1 DEF Current, changed_since
  <2>5. ASSUME NEW e \in changed, NEW u \in Uid, u \in Wants[e], u <= after'
        PROVE  u \in pending'
    <3>1. u \in Nat /\ u >= 1 /\ after' \in Nat /\ top \in Nat /\ after' <= top
      BY <1>4, <1>5, ScanAssumption DEF IInv, Numbers, Uid
    <3>2. u \in Present \cap 1 .. after'
      BY <2>5, <3>1 DEF Present
    <3>. QED BY <2>1, <2>5, <3>2 DEF Found
  <2>6. DoneOrPendingTo(Current, after)'
    <3>. HIDE DEF changed
    <3>. QED BY <2>4, <2>5 DEF DoneOrPendingTo
  <2>7. ProgressOK'
    <3>1. \A u \in pending' : u <= after'
      <4>1. \A u \in 1 .. after' : u <= after'
        BY <1>4
      <4>. QED BY <2>2, <4>1
    <3>. QED BY <1>1, <1>4, <2>1, <2>6, <3>1 DEF ProgressOK
  <2>. QED BY <1>2, <2>3, <2>7 DEF IInv
<1>6. CASE ~ (resumes /\ changed # {})
  <2>1. stage' = "initial" /\ pc' = "search" /\ pending' = {}
    BY <1>6 DEF Start, WorkThrough
  <2>2. Numbers' /\ BackfillOK'
    BY <1>1, <1>4, <2>1 DEF IInv, Numbers, BackfillOK
  <2>3. ASSUME NEW e \in E, NEW u \in Uid, u \in Wants[e], u <= after'
        PROVE  Seen(u, e)
    <3>1. u \in Nat /\ u >= 1
      BY ScanAssumption DEF Uid
    <3>2. resumes
      BY <1>1, <2>3, <3>1
    <3>3. e \in cursor.extractors /\ after' = cursor.last
      BY <1>1, <1>6, <3>2 DEF changed_since
    <3>. QED BY <1>3, <2>3, <3>2, <3>3 DEF DoneTo
  <2>4. DoneTo(running, after)'
    BY <1>1, <1>2, <2>3 DEF DoneTo
  <2>5. ProgressOK'
    BY <1>1, <1>4, <2>1, <2>4 DEF ProgressOK
  <2>. QED BY <1>2, <2>2, <2>5 DEF IInv
<1>. QED BY <1>5, <1>6

\* One step per action.
LEMMA Inductive == IInv /\ [Next]_vars => IInv'
<1>. SUFFICES ASSUME IInv, [Next]_vars
              PROVE  IInv'
  OBVIOUS
<1>1. CASE Renumber
  BY <1>1, RenumberKeeps
<1>2. ASSUME NEW E \in SUBSET Extractor \ {{}}, NEW again \in BOOLEAN, Start(E, again)
      PROVE  IInv'
  BY <1>2, StartKeeps
<1>3. CASE Search
  BY <1>3, SearchKeeps
<1>4. CASE FetchChunk
  BY <1>4, FetchChunkKeeps
<1>5. CASE Skip
  BY <1>5, SkipKeeps
<1>6. CASE FetchFails
  BY <1>6, FetchFailsKeeps
<1>7. CASE checkpoint
  BY <1>7, checkpointKeeps
<1>8. CASE ListDone
  BY <1>8, ListDoneKeeps
<1>9. CASE SaveBackfill
  BY <1>9, SaveBackfillKeeps
<1>10. CASE watch_loop
  BY <1>10, watch_loopKeeps
<1>11. CASE Arrive \/ Disconnect \/ SearchFails \/ Isolate \/ DropStructure
               \/ reconnect \/ Exit \/ UNCHANGED vars
  BY <1>11, SmallSteps
<1>. QED BY <1>1, <1>2, <1>3, <1>4, <1>5, <1>6, <1>7, <1>8, <1>9, <1>10, <1>11
         DEF Next, Answer

(***************************************************************************)
(* A saved position vouches for every message up to it, for any mailbox,   *)
(* any set of extractors and any chunk size.                               *)
(***************************************************************************)
THEOREM PositionVouches == Spec => []CursorMeansProcessed
<1>1. Init => IInv
  BY ScanAssumption DEF Init, IInv, Numbers, CursorOK, BackfillOK, ProgressOK
<1>2. IInv => CursorMeansProcessed
  <2>. SUFFICES ASSUME IInv, cursor # NoCursor, cursor.validity = validity,
                       NEW e \in cursor.extractors, NEW u \in Wants[e],
                       u <= cursor.last
                PROVE  Seen(u, e)
    BY DEF CursorMeansProcessed, Seen
  <2>1. DoneTo(cursor.extractors, cursor.last) /\ e \in Extractor
    BY DEF IInv, CursorOK
  <2>2. u \in Uid
    BY <2>1, ScanAssumption
  <2>. QED BY <2>1, <2>2 DEF DoneTo
<1>. QED BY <1>1, <1>2, Inductive, PTL DEF Spec

-----------------------------------------------------------------------------
(***************************************************************************)
(* What is fetched is due: the invariant behind FetchesAreDue, beside IInv *)
(***************************************************************************)

\* A usable session is one with the mailbox this run examined.
OnlineIsCurrent == online => session = validity

\* The list reaches up to `after`, and past what is about to be saved.
ListWithinRange ==
    /\ \A u \in pending : u <= after
    /\ pc = "save" => mark <= after /\ \A u \in pending : u > mark

\* Nothing on the list is covered by the saved position, unless it is there
\* for other extractors.
ListIsNew ==
    /\ pc # "down" /\ ~ rescan /\ stage # "backfill"
    /\ cursor # NoCursor /\ cursor.validity = session
    => cursor.last <= after /\ \A u \in pending : u > cursor.last

DueInv == OnlineIsCurrent /\ ListWithinRange /\ ListIsNew

\* Steps that leave the list and the saved position alone.
LEMMA DueSmallSteps ==
    ASSUME IInv, DueInv,
           \/ Arrive \/ Disconnect \/ SearchFails \/ Isolate \/ DropStructure
           \/ FetchFails \/ reconnect \/ Exit \/ Renumber \/ ListDone \/ UNCHANGED vars
    PROVE  DueInv'
<1>1. /\ UNCHANGED <<cursor, running, rescan, session, after, pending, mark, stage>>
      /\ online' => online \/ session = validity
      /\ online' => validity' = validity
      /\ pc' # "down" => pc # "down"
      /\ pc' = "save" => pc = "save"
  BY DEF Arrive, Disconnect, SearchFails, Isolate, DropStructure, FetchFails, reconnect,
         Exit, Renumber, ListDone, Down, run, quarantine, vars, Fetching
<1>. QED BY <1>1 DEF DueInv, OnlineIsCurrent, ListWithinRange, ListIsNew

\* A step that takes the beginning of the list off it.
LEMMA DueTakenOff ==
    ASSUME IInv, DueInv, pc = "fetch", NEW STATE done, done \subseteq pending, mark' \in done,
           \A u \in pending \ done : u > mark', pending' = pending \ done,
           online' => online,
           UNCHANGED <<validity, cursor, run>>
    PROVE  DueInv'
BY DEF DueInv, OnlineIsCurrent, ListWithinRange, ListIsNew, run

LEMMA DueFetchChunk ==
    ASSUME IInv, DueInv, FetchChunk
    PROVE  DueInv'
<1>1. pc = "fetch" /\ pending # {} /\ pending \subseteq Uid
  BY DEF FetchChunk, Fetching, IInv, Numbers
<1>2. /\ Chunk \subseteq pending /\ Max(Chunk) \in Chunk
      /\ \A u \in pending \ Chunk : u > Max(Chunk)
  BY <1>1, Chunks
<1>3. /\ pending' = pending \ Chunk /\ mark' = Max(Chunk)
      /\ UNCHANGED <<validity, cursor, online, run>>
  BY DEF FetchChunk
<1>. HIDE DEF Chunk
<1>. QED BY <1>1, <1>2, <1>3, DueTakenOff

LEMMA DueSkip ==
    ASSUME IInv, DueInv, Skip
    PROVE  DueInv'
<1>. DEFINE least == Min(pending)
<1>1. pc = "fetch" /\ pending # {} /\ pending \subseteq Uid
  BY DEF Skip, Fetching, IInv, Numbers
<1>2. {least} \subseteq pending /\ \A u \in pending \ {least} : u > least
  BY <1>1, Chunks
<1>3. /\ pending' = pending \ {least} /\ mark' = least /\ ~ online'
      /\ UNCHANGED <<validity, cursor, run>>
  BY DEF Skip
<1>. HIDE DEF least
<1>. QED BY <1>1, <1>2, <1>3, DueTakenOff

\* A search only finds what lies past `after`.
LEMMA DueSearch ==
    ASSUME IInv, DueInv, NEW STATE list, list \subseteq Uid, \A u \in list : u > after,
           pending' = list, after' \in list \cup {after}, \A u \in list \cup {after} : u <= after',
           pc # "down", stage # "backfill", pc' = "fetch", online' = online,
           UNCHANGED <<validity, cursor, running, rescan, session>>
    PROVE  DueInv'
<1>1. OnlineIsCurrent' /\ ListWithinRange'
  BY DEF DueInv, OnlineIsCurrent, ListWithinRange
<1>2. ListIsNew'
  <2>. SUFFICES ASSUME ~ rescan, cursor # NoCursor, cursor.validity = session
                PROVE  cursor.last <= after' /\ \A u \in list : u > cursor.last
    BY DEF ListIsNew
  <2>1. cursor.last <= after
    BY DEF DueInv, ListIsNew
  <2>2. cursor.last \in Nat /\ after \in Nat /\ after' \in Nat /\ list \subseteq Nat
    BY ScanAssumption DEF IInv, CursorOK, Numbers, Uid
  <2>. QED BY <2>1, <2>2
<1>. QED BY <1>1, <1>2 DEF DueInv

LEMMA DueFirstSearch ==
    ASSUME IInv, DueInv, Search
    PROVE  DueInv'
<1>. DEFINE range == IF after = 0 THEN Present \cap Window
                                  ELSE {u \in Present : u > after}
<1>1. PICK narrowed \in BOOLEAN :
            /\ WorkThrough(First(Limit, Found(range, running, narrowed)))
            /\ after' = MaxOf(First(Limit, Found(range, running, narrowed)) \cup {after})
  BY DEF Search
<1>. DEFINE list == First(Limit, Found(range, running, narrowed))
<1>2. list \subseteq range /\ range \subseteq Present /\ Present \subseteq Uid
  BY ScanAssumption DEF First, Found, IInv, Numbers, Present, Uid
<1>3. /\ pc = "search" /\ pc' = "fetch" /\ stage # "backfill"
      /\ UNCHANGED <<validity, cursor, online, running, rescan, session>>
      /\ pending' = list /\ after' = MaxOf(list \cup {after})
  BY <1>1 DEF Search, WorkThrough, IInv, BackfillOK
<1>4. \A u \in list : u > after
  <2>1. \A u \in Uid : u > 0
    BY ScanAssumption DEF Uid
  <2>2. \A u \in range : u > after
    BY <1>2, <2>1
  <2>. QED BY <1>2, <2>2
<1>5. list \cup {after} \subseteq 0 .. MaxUid /\ list \cup {after} # {}
  <2>1. list \subseteq Uid /\ after \in 0 .. MaxUid
    BY <1>2 DEF IInv, Numbers
  <2>. HIDE DEF list
  <2>. QED BY <2>1, ScanAssumption DEF Uid
<1>6. after' \in list \cup {after} /\ \A u \in list \cup {after} : u <= after'
  <2>. HIDE DEF list
  <2>. QED BY <1>3, <1>5, Maxs DEF MaxOf
<1>. HIDE DEF list
<1>. QED BY <1>2, <1>3, <1>4, <1>6, DueSearch

LEMMA Duewatch_loop ==
    ASSUME IInv, DueInv, watch_loop
    PROVE  DueInv'
<1>1. PICK narrowed \in BOOLEAN :
         LET new_uids == Found({u \in Present : u > after}, running, narrowed)
         IN new_uids # {} /\ WorkThrough(new_uids) /\ after' = Max(new_uids)
  BY DEF watch_loop
<1>. DEFINE new_uids == Found({u \in Present : u > after}, running, narrowed)
<1>2. new_uids \subseteq {u \in Present : u > after} /\ Present \subseteq Uid
  BY ScanAssumption DEF Found, IInv, Numbers, Present, Uid
<1>3. /\ pc = "watch" /\ pc' = "fetch" /\ stage # "backfill" /\ stage' = "watching"
      /\ UNCHANGED <<validity, cursor, online, running, rescan, session>>
      /\ pending' = new_uids /\ after' = Max(new_uids) /\ new_uids # {}
  BY <1>1 DEF watch_loop, WorkThrough, IInv, BackfillOK
<1>. HIDE DEF new_uids
<1>4. after' \in new_uids /\ \A u \in new_uids : u <= after'
  <2>1. Uid \subseteq 0 .. MaxUid
    BY ScanAssumption DEF Uid
  <2>2. new_uids \subseteq 0 .. MaxUid
    BY <1>2, <2>1
  <2>. QED BY <1>3, <2>2, Maxs
<1>5. after <= after'
  <2>1. after' \in Uid /\ after' > after
    BY <1>2, <1>4
  <2>. QED BY <2>1, ScanAssumption DEF IInv, Numbers, Uid
<1>6. new_uids \subseteq Uid /\ \A u \in new_uids : u > after
  BY <1>2
<1>. QED BY <1>3, <1>4, <1>5, <1>6, DueSearch

\* A position is saved that the rest of the list lies past.
LEMMA Duecheckpoint ==
    ASSUME IInv, DueInv, checkpoint
    PROVE  DueInv'
<1>1. /\ pc = "save" /\ pc' = "fetch" /\ (cursor' = cursor \/ cursor' = Position(mark))
      /\ UNCHANGED <<validity, online, stage, running, rescan, session, after, pending, mark>>
  BY DEF checkpoint, run
<1>2. cursor' = Position(mark) => cursor'.last = mark
  BY DEF Position
<1>. QED BY <1>1, <1>2 DEF DueInv, OnlineIsCurrent, ListWithinRange, ListIsNew

\* After a backfill the position is what it was, and the list is empty.
LEMMA DueSaveBackfill ==
    ASSUME IInv, DueInv, SaveBackfill
    PROVE  DueInv'
<1>1. /\ pc = "resave" /\ pc' = "search" /\ pending = {} /\ cursor.last = after
      /\ UNCHANGED <<validity, online, running, rescan, session, after, pending, mark>>
      /\ cursor' = cursor \/ cursor' = Position(after)
  BY DEF SaveBackfill, IInv, BackfillOK
<1>2. cursor' = Position(after) => cursor'.last = after
  BY DEF Position
<1>3. after <= after
  BY ScanAssumption DEF IInv, Numbers
<1>. QED BY <1>1, <1>2, <1>3 DEF DueInv, OnlineIsCurrent, ListWithinRange, ListIsNew

\* A run without --rescan begins where the position says, or has none to heed.
LEMMA DueStart ==
    ASSUME IInv, DueInv, NEW E \in SUBSET Extractor, NEW again \in BOOLEAN, Start(E, again)
    PROVE  DueInv'
<1>. DEFINE resumes == /\ KeepsPosition /\ ~ again /\ cursor # NoCursor
                       /\ cursor.validity = validity
            changed == changed_since(E)
<1>1. /\ UNCHANGED <<validity, cursor>>
      /\ session' = validity /\ rescan' = again
      /\ after' = IF resumes THEN cursor.last ELSE 0
  BY DEF Start
<1>2. OnlineIsCurrent'
  BY <1>1 DEF OnlineIsCurrent
<1>3. resumes => cursor.last \in Uid
  BY DEF IInv, CursorOK
<1>4. after' \in Nat
  BY <1>1, <1>3, ScanAssumption DEF Uid
<1>5. CASE resumes /\ changed # {}
  <2>1. PICK narrowed \in BOOLEAN :
           /\ stage' = "backfill" /\ pc' = "fetch"
           /\ pending' = Found(Present \cap 1 .. after', changed, narrowed)
    BY <1>1, <1>5 DEF Start, WorkThrough
  <2>2. \A u \in pending' : u <= after'
    <3>1. pending' \subseteq 1 .. after'
      BY <2>1 DEF Found
    <3>2. \A u \in 1 .. after' : u <= after'
      BY <1>4
    <3>. QED BY <3>1, <3>2
  <2>. QED BY <1>2, <2>1, <2>2 DEF DueInv, ListWithinRange, ListIsNew
<1>6. CASE ~ (resumes /\ changed # {})
  <2>1. stage' = "initial" /\ pc' = "search" /\ pending' = {}
    BY <1>6 DEF Start, WorkThrough
  <2>2. ListWithinRange'
    BY <2>1 DEF ListWithinRange
  <2>3. ListIsNew'
    <3>. SUFFICES ASSUME ~ again, cursor # NoCursor, cursor.validity = validity
                  PROVE  cursor.last <= after'
      BY <1>1, <2>1 DEF ListIsNew
    <3>1. resumes
      BY DEF IInv, CursorOK
    <3>. QED BY <1>1, <1>4, <3>1
  <2>. QED BY <1>2, <2>2, <2>3 DEF DueInv
<1>. QED BY <1>5, <1>6

\* One step per action again.
LEMMA DueInductive == IInv /\ DueInv /\ [Next]_vars => DueInv'
<1>. SUFFICES ASSUME IInv, DueInv, [Next]_vars
              PROVE  DueInv'
  OBVIOUS
<1>1. ASSUME NEW E \in SUBSET Extractor \ {{}}, NEW again \in BOOLEAN, Start(E, again)
      PROVE  DueInv'
  BY <1>1, DueStart
<1>2. CASE Search
  BY <1>2, DueFirstSearch
<1>3. CASE FetchChunk
  BY <1>3, DueFetchChunk
<1>4. CASE Skip
  BY <1>4, DueSkip
<1>5. CASE checkpoint
  BY <1>5, Duecheckpoint
<1>6. CASE SaveBackfill
  BY <1>6, DueSaveBackfill
<1>7. CASE watch_loop
  BY <1>7, Duewatch_loop
<1>8. CASE \/ Arrive \/ Disconnect \/ SearchFails \/ Isolate \/ DropStructure
           \/ FetchFails \/ reconnect \/ Exit \/ Renumber \/ ListDone \/ UNCHANGED vars
  BY <1>8, DueSmallSteps
<1>. QED BY <1>1, <1>2, <1>3, <1>4, <1>5, <1>6, <1>7, <1>8 DEF Next, Answer

\* Outside a backfill the list is past the position, and a backfill is only
\* for extractors that the position does not cover.
LEMMA NotCovered ==
    ASSUME IInv, DueInv, FetchChunk, ~ rescan, NEW u \in Chunk, NEW e \in Current,
           cursor # NoCursor, cursor.validity = session
    PROVE  u > cursor.last \/ e \notin cursor.extractors
<1>1. pc = "fetch" /\ u \in pending
  BY Chunks DEF FetchChunk, Fetching, IInv, Numbers
<1>2. CASE stage = "backfill"
  BY <1>2 DEF Current, changed_since
<1>3. CASE stage # "backfill"
  BY <1>1, <1>3 DEF DueInv, ListIsNew
<1>. QED BY <1>2, <1>3

\* Messages are only seen over a usable session.
LEMMA SeenOnline ==
    ASSUME DueInv, [Next]_vars, session # validity
    PROVE  processed' \subseteq processed
<1>1. ~ online
  BY DEF DueInv, OnlineIsCurrent
<1>2. CASE FetchChunk \/ FetchFails
  BY <1>1, <1>2 DEF FetchChunk, FetchFails, Fetching
<1>3. CASE Arrive \/ Disconnect \/ Search \/ SearchFails \/ Isolate \/ DropStructure \/ Skip
  BY <1>3 DEF Arrive, Disconnect, Search, SearchFails, Isolate, DropStructure, Skip
<1>4. CASE reconnect \/ checkpoint \/ ListDone \/ SaveBackfill \/ watch_loop \/ Exit
  BY <1>4 DEF reconnect, checkpoint, ListDone, SaveBackfill, watch_loop, Exit
<1>5. CASE Renumber
  BY <1>5 DEF Renumber
<1>6. ASSUME NEW E, NEW again, Start(E, again)
      PROVE  processed' = processed
  BY <1>6 DEF Start
<1>7. CASE UNCHANGED vars
  BY <1>7 DEF vars
<1>. QED BY <1>2, <1>3, <1>4, <1>5, <1>6, <1>7 DEF Next, Answer

(***************************************************************************)
(* Nothing is fetched that the saved position covers, nor anything in a    *)
(* mailbox that was renumbered under the run (imap_scan.rs run, reselect). *)
(***************************************************************************)
THEOREM OnlyDueIsFetched == Spec => FetchesAreDue
<1>1. Init => IInv /\ DueInv
  BY ScanAssumption DEF Init, IInv, Numbers, CursorOK, BackfillOK, ProgressOK, DueInv,
     OnlineIsCurrent, ListWithinRange, ListIsNew
<1>2. IInv /\ DueInv /\ [Next]_vars =>
          [FetchChunk /\ ~ rescan =>
              \A u \in Chunk, e \in Current :
                  \/ cursor = NoCursor
                  \/ cursor.validity # session
                  \/ u > cursor.last
                  \/ e \notin cursor.extractors]_vars
  BY NotCovered
<1>3. IInv /\ DueInv /\ [Next]_vars =>
          [session # validity => processed' \subseteq processed]_vars
  BY SeenOnline
<1>. QED
  BY <1>1, <1>2, <1>3, Inductive, DueInductive, PTL
     DEF Spec, FetchesAreDue, NoRework, RefusesRenumbered
=============================================================================
