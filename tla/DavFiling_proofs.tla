--------------------------- MODULE DavFiling_proofs ---------------------------
(***************************************************************************)
(* On a server with strong entity tags, for any number of workers, events  *)
(* and resources, however often PUTs are repeated and however late they    *)
(* land: no newer take is overwritten, and seen.db vouches only for what   *)
(* is there.  The first rests on what a PUT carries with it: the content   *)
(* that was compared, and that the tag still stands for.                   *)
(***************************************************************************)
EXTENDS DavFiling, TLAPS

TypeInv ==
    /\ res \in [Url -> Event \cup {Absent}]
    /\ seen \in [Uid -> Event \cup {Absent}]
    /\ wire \subseteq Put
    /\ pc \in [Worker -> Control]
    /\ ev \in [Worker -> Event \cup {Absent}]
    /\ found \in [Worker -> Event \cup {Absent}]
    /\ deleted \in BOOLEAN

\* A worker that is under way has an event.
BusyHasEvent == \A w \in Worker : pc[w] # "idle" => ev[w] \in Event

\* A resource holds an event of its own.
InPlace == \A u \in Url : res[u] # Absent => UrlOf[res[u]] = u

\* What e would replace was looked at, and is not newer.
Compared(e, was) == Unconditional(e) \/ ~ event_is_newer(was, e)

\* Every PUT that may still land was compared with what it is conditional on.
PutsCompared ==
    /\ \A w \in Worker : pc[w] = "put" => Compared(ev[w], found[w])
    /\ \A m \in wire : Compared(m.event, m.found)

\* An event is covered from its PUT to its mark, and for as long as seen.db
\* knows it.
Vouched(e) == AllDated(UrlOf[e]) => Covers(UrlOf[e], e)

FiledIsCovered ==
    ~ deleted => \A w \in Worker : pc[w] = "filed" => Vouched(ev[w])

DavInv ==
    TypeInv /\ BusyHasEvent /\ InPlace /\ PutsCompared /\ FiledIsCovered /\ SeenIsFiled

-----------------------------------------------------------------------------

\* What may become of a resource in one step, whoever takes it.
Successor(u) ==
    \/ res'[u] = res[u]
    \/ res'[u] = Absent /\ deleted'
    \/ \E e \in Event :
          /\ UrlOf[e] = u
          /\ res'[u] = e
          /\ AllDated(u) => ~ event_is_newer(res[u], e)

\* A PUT whose condition holds leaves nothing newer behind: the tag is strong,
\* so what was compared is what is there.
LEMMA LandingIsFair ==
    ASSUME StrongTags, NEW e \in Event, NEW was, Compared(e, was),
           unless_changed(e, was), AllDated(UrlOf[e])
    PROVE  ~ event_is_newer(res[UrlOf[e]], e)
BY DEF Compared, unless_changed, AllDated, Unconditional

LEMMA ResourceStep ==
    ASSUME StrongTags, DavInv, [Next]_vars
    PROVE  \A u \in Url : Successor(u)
<1>. SUFFICES ASSUME NEW u \in Url PROVE Successor(u)
  OBVIOUS
<1>. USE DavAssumption DEF DavInv, TypeInv
<1>1. ASSUME NEW w \in Worker, PutLands(w) \/ PutRetried(w)
      PROVE  Successor(u)
  <2>1. ev[w] \in Event /\ Compared(ev[w], found[w])
    BY <1>1 DEF PutLands, PutRetried, BusyHasEvent, PutsCompared
  <2>2. \/ res' = res
        \/ /\ unless_changed(ev[w], found[w])
           /\ res' = [res EXCEPT ![UrlOf[ev[w]]] = ev[w]]
    BY <1>1 DEF PutLands, PutRetried
  <2>. QED BY <2>1, <2>2, LandingIsFair DEF Successor
<1>2. ASSUME NEW m \in wire, LandLate(m)
      PROVE  Successor(u)
  <2>1. m.event \in Event /\ Compared(m.event, m.found)
    BY DEF Put, PutsCompared
  <2>2. \/ res' = res
        \/ /\ unless_changed(m.event, m.found)
           /\ res' = [res EXCEPT ![UrlOf[m.event]] = m.event]
    BY <1>2 DEF LandLate
  <2>. QED BY <2>1, <2>2, LandingIsFair DEF Successor
<1>3. ASSUME NEW e \in Event, UserSave(e)
      PROVE  Successor(u)
  BY <1>3 DEF UserSave, Successor
<1>4. ASSUME NEW v \in Url, UserDelete(v)
      PROVE  Successor(u)
  BY <1>4 DEF UserDelete, Successor
<1>5. CASE UNCHANGED res
  BY <1>5 DEF Successor
<1>6. ASSUME NEW w \in Worker,
             \/ SkipSeen(w) \/ NotSeen(w) \/ get_if_exists(w) \/ log_kept(w)
             \/ Replace(w) \/ PutRefused(w) \/ mark(w)
             \/ Fail(w) \/ Abandon(w) \/ Crash(w)
      PROVE  UNCHANGED res
  BY <1>6 DEF SkipSeen, NotSeen, get_if_exists, log_kept, Replace, PutRefused, mark,
              Fail, Abandon, Crash
<1>7. ASSUME NEW w \in Worker, NEW e \in Event, Begin(w, e)
      PROVE  UNCHANGED res
  BY <1>7 DEF Begin
<1>8. CASE UNCHANGED vars
  BY <1>8, <1>5 DEF vars
<1>. QED
  BY <1>1, <1>2, <1>3, <1>4, <1>5, <1>6, <1>7, <1>8 DEF Next, Filing, Step

\* Once covered, an event stays covered until the user deletes something.
LEMMA StaysCovered ==
    ASSUME StrongTags, DavInv, [Next]_vars, ~ deleted',
           NEW e \in Event, Vouched(e)
    PROVE  Vouched(e)'
<1>. SUFFICES ASSUME AllDated(UrlOf[e]) PROVE Covers(UrlOf[e], e)'
  BY DEF Vouched, AllDated, Dated
<1>. DEFINE u == UrlOf[e]
<1>1. u \in Url
  BY DavAssumption
<1>2. Covers(u, e) /\ res[u] \in Event /\ UrlOf[res[u]] = u
  BY <1>1 DEF Vouched, Covers, DavInv, TypeInv, InPlace
<1>3. Dated(e) /\ Dated(res[u]) /\ DateOf[res[u]] >= DateOf[e]
  BY <1>2 DEF Covers, AllDated
<1>4. CASE res'[u] = res[u]
  BY <1>4, <1>2 DEF Covers, Dated
<1>5. ASSUME NEW f \in Event, UrlOf[f] = u, res'[u] = f, ~ event_is_newer(res[u], f)
      PROVE  Covers(u, e)'
  <2>1. Dated(f)
    BY <1>5 DEF AllDated
  <2>2. DateOf[f] \in Nat /\ DateOf[res[u]] \in Nat /\ DateOf[e] \in Nat
    BY <2>1, <1>2, <1>3, DavAssumption DEF Dated
  <2>3. DateOf[f] >= DateOf[res[u]]
    BY <1>5, <2>1, <2>2, <1>2, <1>3, DavAssumption DEF event_is_newer
  <2>. QED BY <2>1, <2>2, <2>3, <1>3, <1>5, DavAssumption DEF Covers, Dated
<1>. QED
  BY <1>1, <1>4, <1>5, ResourceStep DEF Successor

-----------------------------------------------------------------------------

\* What was deleted stays remembered.
LEMMA DeletionIsRemembered ==
    ASSUME [Next]_vars, ~ deleted'
    PROVE  ~ deleted
BY DEF Next, Filing, UserDelete, vars

LEMMA TypeInvStep ==
    ASSUME DavInv, [Next]_vars
    PROVE  TypeInv'
<1>. USE DavAssumption DEF DavInv, TypeInv, Control
<1>1. ASSUME NEW w \in Worker, NEW e \in Event, Begin(w, e), UNCHANGED deleted
      PROVE  TypeInv'
  BY <1>1 DEF Begin, Start
<1>2. ASSUME NEW w \in Worker, UNCHANGED deleted,
             SkipSeen(w) \/ NotSeen(w) \/ get_if_exists(w) \/ log_kept(w) \/ Replace(w)
      PROVE  TypeInv'
  BY <1>2 DEF SkipSeen, NotSeen, get_if_exists, log_kept, Replace, Return, Start, BusyHasEvent
<1>3. ASSUME NEW w \in Worker, UNCHANGED deleted,
             PutLands(w) \/ PutRetried(w) \/ PutRefused(w) \/ mark(w)
      PROVE  TypeInv'
  BY <1>3 DEF PutLands, PutRetried, PutRefused, mark, Return, BusyHasEvent
<1>4. ASSUME NEW w \in Worker, UNCHANGED deleted, Fail(w) \/ Abandon(w) \/ Crash(w)
      PROVE  TypeInv'
  BY <1>4 DEF Fail, Abandon, Crash, Return, BusyHasEvent, Put
<1>5. ASSUME NEW m \in wire, UNCHANGED deleted, LandLate(m)
      PROVE  TypeInv'
  BY <1>5 DEF LandLate, Put
<1>6. ASSUME NEW e \in Event, UNCHANGED deleted, UserSave(e)
      PROVE  TypeInv'
  BY <1>6 DEF UserSave
<1>7. ASSUME NEW u \in Url, UserDelete(u)
      PROVE  TypeInv'
  BY <1>7 DEF UserDelete
<1>8. CASE UNCHANGED vars
  BY <1>8 DEF vars
<1>. QED
  BY <1>1, <1>2, <1>3, <1>4, <1>5, <1>6, <1>7, <1>8 DEF Next, Filing, Step

\* The three parts that follow a single worker's way through a filing.
LEMMA WorkerStep ==
    ASSUME StrongTags, DavInv, [Next]_vars
    PROVE  BusyHasEvent' /\ PutsCompared' /\ FiledIsCovered'
<1>. USE DavAssumption DEF DavInv, TypeInv
<1>. DEFINE Kept == /\ BusyHasEvent' /\ PutsCompared'
                    /\ \A w \in Worker : pc'[w] = "filed" =>
                          \/ pc[w] = "filed" /\ ev'[w] = ev[w]
                          \/ Covers(UrlOf[ev[w]], ev[w])' /\ ev'[w] = ev[w]
<1>1. ASSUME NEW w \in Worker, NEW e \in Event, Begin(w, e), UNCHANGED sink
      PROVE  Kept
  BY <1>1 DEF Begin, Start, BusyHasEvent, PutsCompared, Compared, Unconditional, Gated,
              event_is_newer, Dated
<1>2. ASSUME NEW w \in Worker, NotSeen(w), UNCHANGED sink
      PROVE  Kept
  BY <1>2 DEF NotSeen, Start, BusyHasEvent, PutsCompared, Compared, Unconditional, Gated,
              event_is_newer, Dated
<1>3. ASSUME NEW w \in Worker, get_if_exists(w) \/ Replace(w), UNCHANGED sink
      PROVE  Kept
  BY <1>3 DEF get_if_exists, Replace, BusyHasEvent, PutsCompared, Compared, Unconditional,
              Gated, event_is_newer, Dated
<1>4. ASSUME NEW w \in Worker, PutLands(w), UNCHANGED sink
      PROVE  Kept
  <2>1. BusyHasEvent' /\ PutsCompared'
    BY <1>4 DEF PutLands, BusyHasEvent, PutsCompared, Compared, Unconditional,
                Gated, event_is_newer, Dated
  <2>2. Covers(UrlOf[ev[w]], ev[w])'
    BY <1>4 DEF PutLands, BusyHasEvent, Covers, Dated
  <2>. QED BY <1>4, <2>1, <2>2 DEF PutLands
<1>5. ASSUME NEW w \in Worker, PutRetried(w) \/ PutRefused(w), UNCHANGED sink
      PROVE  Kept
  BY <1>5 DEF PutRetried, PutRefused, Return, BusyHasEvent, PutsCompared, Compared,
              Unconditional, Gated, event_is_newer, Dated
<1>6. ASSUME NEW w \in Worker, UNCHANGED sink,
             SkipSeen(w) \/ log_kept(w) \/ mark(w) \/ Fail(w) \/ Crash(w)
      PROVE  Kept
  BY <1>6 DEF SkipSeen, log_kept, mark, Fail, Crash, Return, BusyHasEvent, PutsCompared,
              Compared, Unconditional, Gated, event_is_newer, Dated
<1>7. ASSUME NEW w \in Worker, Abandon(w), UNCHANGED sink
      PROVE  Kept
  BY <1>7 DEF Abandon, Return, BusyHasEvent, PutsCompared, Compared, Unconditional, Gated,
              event_is_newer, Dated
<1>8. ASSUME UNCHANGED <<pc, ev, found, sink>>, wire' \subseteq wire
      PROVE  Kept
  BY <1>8 DEF BusyHasEvent, PutsCompared, Compared, Unconditional, Gated, event_is_newer,
              Dated
<1>9. ASSUME NEW m \in wire, LandLate(m), UNCHANGED sink
      PROVE  Kept
  BY <1>8, <1>9 DEF LandLate
<1>10. ASSUME NEW e \in Event, UserSave(e), UNCHANGED sink
       PROVE  Kept
  BY <1>8, <1>10 DEF UserSave
<1>11. ASSUME NEW u \in Url, UserDelete(u), UNCHANGED sink
       PROVE  Kept
  BY <1>8, <1>11 DEF UserDelete
<1>12. ASSUME UNCHANGED vars
       PROVE  Kept
  BY <1>8, <1>12 DEF vars
<1>13. Kept
  <2>. HIDE DEF Kept
  <2>. QED
    BY <1>1, <1>2, <1>3, <1>4, <1>5, <1>6, <1>7, <1>8, <1>9, <1>10, <1>11, <1>12
    DEF Next, Filing, Step
<1>14. FiledIsCovered'
  <2>. SUFFICES ASSUME ~ deleted', NEW w \in Worker, pc'[w] = "filed"
                PROVE  Vouched(ev[w])'
    BY DEF FiledIsCovered
  <2>1. CASE pc[w] = "filed" /\ ev'[w] = ev[w]
    <3>1. ~ deleted /\ ev[w] \in Event /\ Vouched(ev[w])
      BY <2>1, DeletionIsRemembered DEF FiledIsCovered, BusyHasEvent
    <3>2. PICK e \in Event : e = ev[w]
      BY <3>1
    <3>. QED BY <2>1, <3>1, <3>2, StaysCovered DEF Vouched
  <2>2. CASE Covers(UrlOf[ev[w]], ev[w])' /\ ev'[w] = ev[w]
    BY <2>2 DEF Vouched
  <2>. QED BY <1>13, <2>1, <2>2
<1>. QED BY <1>13, <1>14

\* The collection, and what seen.db knows of it.
LEMMA ServerStep ==
    ASSUME StrongTags, DavInv, [Next]_vars
    PROVE  InPlace' /\ SeenIsFiled'
<1>. USE DavAssumption DEF DavInv, TypeInv
<1>1. InPlace'
  <2>. SUFFICES ASSUME NEW u \in Url, res'[u] # Absent PROVE UrlOf[res'[u]] = u
    BY DEF InPlace
  <2>. QED BY ResourceStep DEF Successor, InPlace
\* What seen.db learns is what a worker has just filed.
<1>2. ASSUME NEW k \in Uid
      PROVE  \/ seen'[k] = seen[k]
             \/ \E w \in Worker : pc[w] = "filed" /\ seen'[k] = ev[w]
  <2>1. ASSUME NEW w \in Worker, mark(w)
        PROVE  seen'[k] = seen[k] \/ (pc[w] = "filed" /\ seen'[k] = ev[w])
    BY <2>1 DEF mark
  <2>2. ASSUME NEW w \in Worker,
               \/ SkipSeen(w) \/ NotSeen(w) \/ get_if_exists(w) \/ log_kept(w)
               \/ Replace(w) \/ PutLands(w) \/ PutRetried(w) \/ PutRefused(w)
               \/ Fail(w) \/ Abandon(w) \/ Crash(w)
        PROVE  UNCHANGED seen
    BY <2>2 DEF SkipSeen, NotSeen, get_if_exists, log_kept, Replace, PutLands, PutRetried,
                PutRefused, Fail, Abandon, Crash
  <2>3. ASSUME NEW w \in Worker, NEW e \in Event, Begin(w, e)
        PROVE  UNCHANGED seen
    BY <2>3 DEF Begin
  <2>4. ASSUME NEW m \in wire, LandLate(m)
        PROVE  UNCHANGED seen
    BY <2>4 DEF LandLate
  <2>5. ASSUME NEW e \in Event, UserSave(e)
        PROVE  UNCHANGED seen
    BY <2>5 DEF UserSave
  <2>6. ASSUME NEW u \in Url, UserDelete(u)
        PROVE  UNCHANGED seen
    BY <2>6 DEF UserDelete
  <2>7. ASSUME UNCHANGED vars
        PROVE  UNCHANGED seen
    BY <2>7 DEF vars
  <2>. QED
    BY <2>1, <2>2, <2>3, <2>4, <2>5, <2>6, <2>7 DEF Next, Filing, Step
<1>3. SeenIsFiled'
  <2>. SUFFICES ASSUME ~ deleted', NEW k \in Uid, seen'[k] # Absent
                PROVE  Vouched(seen[k])'
    BY DEF SeenIsFiled, Vouched
  <2>1. ~ deleted
    BY DeletionIsRemembered
  <2>2. CASE seen'[k] = seen[k]
    <3>1. PICK e \in Event : e = seen[k]
      BY <2>2
    <3>2. Vouched(e)
      BY <2>1, <2>2, <3>1 DEF SeenIsFiled, Vouched
    <3>3. Vouched(e)'
      BY <3>2, StaysCovered
    <3>. QED BY <2>2, <3>1, <3>3 DEF Vouched
  <2>3. ASSUME NEW w \in Worker, pc[w] = "filed", seen'[k] = ev[w]
        PROVE  Vouched(seen[k])'
    <3>1. PICK e \in Event : e = ev[w]
      BY <2>3 DEF BusyHasEvent
    <3>2. Vouched(e)
      BY <2>1, <2>3, <3>1 DEF FiledIsCovered
    <3>3. Vouched(e)'
      BY <3>2, StaysCovered
    <3>. QED BY <2>3, <3>1, <3>3 DEF Vouched
  <2>. QED BY <1>2, <2>2, <2>3
<1>. QED BY <1>1, <1>3

LEMMA DavInvStep ==
    ASSUME StrongTags, DavInv, [Next]_vars
    PROVE  DavInv'
BY TypeInvStep, WorkerStep, ServerStep DEF DavInv

LEMMA DavInvInit == Init => DavInv
BY DavAssumption
DEF Init, DavInv, TypeInv, Control, BusyHasEvent, InPlace, PutsCompared, FiledIsCovered,
    SeenIsFiled

-----------------------------------------------------------------------------

(***************************************************************************)
(* As long as the user deletes nothing, seen.db vouches only for what is   *)
(* on the calendar, as filed or in a newer take (SeenIsFiled), on every    *)
(* server that gives strong tags.                                          *)
(***************************************************************************)
THEOREM SeenVouchesRightly ==
    ASSUME StrongTags
    PROVE  Spec => []SeenIsFiled
<1>1. DavInv /\ [Next]_vars => DavInv'
  BY DavInvStep
<1>2. DavInv => SeenIsFiled
  BY DEF DavInv
<1>. QED
  BY DavInvInit, <1>1, <1>2, PTL DEF Spec

(***************************************************************************)
(* No PUT replaces a newer take, wherever it was written from and however  *)
(* late it lands (NeverOverwritesNewer), on every server that gives strong *)
(* tags.                                                                   *)
(***************************************************************************)
THEOREM NewerTakesStand ==
    ASSUME StrongTags
    PROVE  Spec => NeverOverwritesNewer
<1>1. DavInv /\ [Next]_vars => DavInv'
  BY DavInvStep
<1>2. DavInv /\ [Next]_vars
      => [\A u \in Url :
             AllDated(u) /\ res'[u] # Absent => ~ event_is_newer(res[u], res'[u])]_vars
  <2>. SUFFICES ASSUME DavInv, [Next]_vars, NEW u \in Url, AllDated(u), res'[u] # Absent
                PROVE  ~ event_is_newer(res[u], res'[u])
    OBVIOUS
  <2>1. CASE res'[u] = res[u]
    BY <2>1, DavAssumption DEF event_is_newer, Dated, DavInv, TypeInv
  <2>. QED BY <2>1, ResourceStep DEF Successor
<1>. QED
  BY DavInvInit, <1>1, <1>2, PTL DEF Spec, NeverOverwritesNewer
=============================================================================
