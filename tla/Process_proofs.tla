--------------------------- MODULE Process_proofs ---------------------------
(***************************************************************************)
(* What some of the parts around the filing promise, for all values of the *)
(* constants.                                                              *)
(*                                                                         *)
(* Pipeline: a sink is called only for an extractor that has been run, and *)
(* that only for a message somebody vouched for (VouchedBeforeRun).        *)
(* What an extractor produced is called for pass by pass: what has been    *)
(* called comes before what has not, and nothing is called twice           *)
(* (CallsInv).                                                             *)
(*                                                                         *)
(* OAuth2: the margin before a token's expiry is wide enough, whatever     *)
(* lifetimes the provider gives and however long, up to the timeouts, its  *)
(* reply and the server's login take.  The token's two clocks are tied     *)
(* together: a host that counts from the arrival of the reply is ahead of  *)
(* the server by no more than the reply took.                              *)
(*                                                                         *)
(* ExtractorRun: the helper threads stay at the pipes while somebody may   *)
(* write to them (ReadersStay), so that a child that is blocked for good   *)
(* blocks itself.                                                          *)
(*                                                                         *)
(* Stats: what is recorded and not overtaken is in the log, and in the     *)
(* hands of everybody who is about to replace it (PrunesKeep).             *)
(*                                                                         *)
(* Discovery: what has been found is the first place of each name among    *)
(* those the command has come past, and what lint has come past it has     *)
(* complained of (FirstsFound, Reported).                                  *)
(*                                                                         *)
(* StatsSummary: a fold over a set of numbers does not depend on the order *)
(* in which the members are chosen (SumPeels), nor on other lines          *)
(* (SumAgrees).                                                            *)
(*                                                                         *)
(* Startup: each phase leaves behind that what it needed was there, so    *)
(* that the one that fails is the one to blame (Progress).                 *)
(*                                                                         *)
(* The proofs about the dashboard are in Dashboard_proofs.                 *)
(***************************************************************************)
EXTENDS Process, Dashboard_proofs, FiniteSetTheorems, SequenceTheorems,
        WellFoundedInduction, TLAPS

-----------------------------------------------------------------------------
(***************************************************************************)
(* OAuth2                                                                  *)
(***************************************************************************)

TypeInv ==
    /\ session \in {"starting", "refreshing", "login", "connected", "lost", "exited"}
    /\ spent \in Nat
    /\ cached \in Nat
    /\ valid \in Nat
    /\ losses \in Nat

\* No request and no login is waited for longer than its timeout.
WithinTimeouts ==
    /\ session = "refreshing" => spent <= MaxTrip
    /\ session = "login" => spent <= MaxLogin

\* How far the host's idea of the token's life may exceed the server's.
ClocksAgree == losses = 0 => cached <= valid + MaxTrip

\* What is left of the token outlasts what is left of the login.
LoginFits == session = "login" /\ losses = 0 => valid + spent > MaxLogin

TokenInv == TypeInv /\ WithinTimeouts /\ ClocksAgree /\ LoginFits

-----------------------------------------------------------------------------

\* Every step keeps the invariant.
LEMMA TokenInvStep ==
    ASSUME OAuth2Assumption, TokenInv, [Next]_vars
    PROVE  TokenInv'
<1>. USE DEF OAuth2Assumption, TokenInv, TypeInv
<1>1. CASE connect_and_authenticate
  \* A token that is reused has more than the margin left by this host's clock,
  \* and so more than MaxLogin by the server's.
  <2>1. TypeInv' /\ ClocksAgree'
    BY <1>1 DEF connect_and_authenticate, Goto, ClocksAgree
  <2>2. WithinTimeouts'
    BY <1>1 DEF connect_and_authenticate, Goto, WithinTimeouts
  <2>3. LoginFits'
    <3>1. CASE Reusable
      BY <1>1, <3>1 DEF connect_and_authenticate, Goto, Reusable, ClocksAgree, LoginFits
    <3>2. CASE ~ Reusable
      BY <1>1, <3>2 DEF connect_and_authenticate, Goto, LoginFits
    <3>. QED BY <3>1, <3>2
  <2>. QED BY <2>1, <2>2, <2>3
<1>2. ASSUME NEW lifetime \in Lifetime, Minted(lifetime)
      PROVE  TokenInv'
  <2>1. lifetime \in Nat /\ lifetime > MaxTrip + MaxLogin /\ spent <= MaxTrip
    BY <1>2 DEF Minted, WithinTimeouts
  <2>2. TypeInv'
    BY <1>2, <2>1 DEF Minted, Goto
  <2>3. WithinTimeouts' /\ ClocksAgree' /\ LoginFits'
    BY <1>2, <2>1 DEF Minted, Goto, WithinTimeouts, ClocksAgree, LoginFits
  <2>. QED BY <2>2, <2>3
<1>3. CASE Tick
  <2>1. TypeInv'
    BY <1>3 DEF Tick, Less
  <2>2. WithinTimeouts'
    BY <1>3 DEF Tick, WithinTimeouts
  <2>3. ClocksAgree'
    BY <1>3 DEF Tick, Less, ClocksAgree
  <2>4. LoginFits'
    \* While time is left for the login, time is left on the token.
    BY <1>3 DEF Tick, Less, LoginFits
  <2>. QED BY <2>1, <2>2, <2>3, <2>4
<1>4. CASE Loses
  BY <1>4 DEF Loses, WithinTimeouts, ClocksAgree, LoginFits
<1>5. CASE TransientError \/ PermanentRefreshError \/ Rejected
  BY <1>5 DEF TransientError, PermanentRefreshError, Rejected, Goto, Failed,
              WithinTimeouts, ClocksAgree, LoginFits
<1>6. CASE Accepted \/ Disconnected
  BY <1>6 DEF Accepted, Disconnected, Goto, WithinTimeouts, ClocksAgree, LoginFits
<1>7. ASSUME NEW a, Redirected(a)
      PROVE  TokenInv'
  BY <1>7 DEF Redirected, WithinTimeouts, ClocksAgree, LoginFits
<1>8. CASE exchange_code \/ Withdrawn
  BY <1>8 DEF exchange_code, Withdrawn, WithinTimeouts, ClocksAgree, LoginFits
<1>9. CASE Over \/ UNCHANGED vars
  BY <1>9 DEF Over, vars, WithinTimeouts, ClocksAgree, LoginFits
<1>. QED
  BY <1>1, <1>2, <1>3, <1>4, <1>5, <1>6, <1>7, <1>8, <1>9 DEF Next

(***************************************************************************)
(* Unless a token became useless before its time, the server honours it    *)
(* all the while it is presented (NeverPresentsExpired), for any margin    *)
(* that covers one reply and one login.                                    *)
(***************************************************************************)
THEOREM MarginSuffices ==
    ASSUME OAuth2Assumption
    PROVE  Spec => []NeverPresentsExpired
<1>1. Init => TokenInv
  BY DEF Init, OAuth2Assumption, TokenInv, TypeInv, WithinTimeouts, ClocksAgree, LoginFits
<1>2. TokenInv /\ [Next]_vars => TokenInv'
  BY TokenInvStep
<1>3. TokenInv => NeverPresentsExpired
  BY DEF OAuth2Assumption, TokenInv, TypeInv, WithinTimeouts, LoginFits, NeverPresentsExpired
<1>. QED
  BY <1>1, <1>2, <1>3, PTL DEF Spec


-----------------------------------------------------------------------------
(***************************************************************************)
(* Pipeline                                                                *)
(***************************************************************************)

\* Somebody vouches for this message as far as the extractor e is concerned.
VouchedFor(e) ==
    LET m == Extractor[e] IN
    m.require_dkim # {} /\ l_config.enforce /\ ~ l_mail.trusted =>
        \/ L!satisfies(m.require_dkim, l_mail.signed, l_mail.message.from)
        \/ L!received_before(l_mail.received_at, m.unsigned_before)

VouchedBeforeRun ==
    /\ l_mail \in Mail
    /\ l_stage = "file" => VouchedFor(l_ex)
    /\ l_tried \in Seq({l_tried[i] : i \in DOMAIN l_tried})

PipelineInv == VouchedBeforeRun /\ OnlyAuthenticatedFiled

\* A sequence is one of its own elements.
LEMMA OnItsOwnRange ==
    ASSUME NEW all, NEW u \in Seq(all)
    PROVE  u \in [1 .. Len(u) -> {u[i] : i \in DOMAIN u}] /\ Len(u) \in Nat
<1>1. DOMAIN u = 1 .. Len(u) /\ u = [i \in 1 .. Len(u) |-> u[i]] /\ Len(u) \in Nat
  OBVIOUS
<1>2. \A i \in 1 .. Len(u) : u[i] \in {u[j] : j \in DOMAIN u}
  BY <1>1
<1>. QED BY <1>1, <1>2

\* What one more call does to the sequence of calls.
LEMMA OneMore ==
    ASSUME NEW t, NEW x, t \in Seq({t[i] : i \in DOMAIN t}), NEW u, u = Append(t, x)
    PROVE  /\ u \in Seq({u[i] : i \in DOMAIN u})
           /\ DOMAIN t = 1 .. Len(t) /\ DOMAIN u = 1 .. Len(t) + 1 /\ Len(t) \in Nat
           /\ \A i \in DOMAIN t : u[i] = t[i]
           /\ u[Len(t) + 1] = x
<1>. DEFINE all == {t[i] : i \in DOMAIN t} \cup {x}
<1>1. t \in Seq(all)
  <2>1. t \in [1 .. Len(t) -> {t[i] : i \in DOMAIN t}] /\ Len(t) \in Nat
    OBVIOUS
  <2>2. t \in [1 .. Len(t) -> all]
    BY <2>1
  <2>. QED BY <2>1, <2>2
<1>2. /\ u \in Seq(all) /\ Len(u) = Len(t) + 1 /\ Len(t) \in Nat
      /\ \A i \in 1 .. Len(t) : u[i] = t[i]
      /\ u[Len(t) + 1] = x
  BY <1>1, AppendProperties
<1>3. DOMAIN u = 1 .. Len(t) + 1 /\ DOMAIN t = 1 .. Len(t)
  BY <1>1, <1>2
<1>4. u \in [1 .. Len(u) -> {u[i] : i \in DOMAIN u}] /\ Len(u) \in Nat
  BY <1>2, OnItsOwnRange
<1>. QED BY <1>2, <1>3, <1>4

\* What is believed was verified.
LEMMA BelievedIsVerified ==
    ASSUME L!PipelineAssumption, NEW m \in Mail
    PROVE  L!passing_dkim_domains(m.message) \subseteq m.signed
BY DEF L!PipelineAssumption, L!OurMtaIsHonest, L!passing_dkim_domains, L!SigningDomain

\* An extractor that is run has been vouched for.
LEMMA RunsIfVouched ==
    ASSUME L!PipelineAssumption, l_mail \in Mail, L!Runs
    PROVE  VouchedFor(l_ex)
<1>. SUFFICES ASSUME Extractor[l_ex].require_dkim # {}, l_config.enforce, ~ l_mail.trusted
              PROVE  \/ L!satisfies(Extractor[l_ex].require_dkim, l_mail.signed, l_mail.message.from)
                     \/ L!received_before(l_mail.received_at, Extractor[l_ex].unsigned_before)
  BY DEF VouchedFor
<1>1. L!Unwrapped = NoMessage
  BY DEF L!Unwrapped, L!try_unwrap_forwarded
<1>2. L!Message = l_mail.message
  BY <1>1 DEF L!Message
<1>3. CASE L!satisfies(Extractor[l_ex].require_dkim,
                       L!passing_dkim_domains(l_mail.message), l_mail.message.from)
  BY <1>3, BelievedIsVerified DEF L!satisfies
<1>4. CASE L!received_before(l_mail.received_at, Extractor[l_ex].unsigned_before)
  BY <1>4
<1>. QED BY <1>1, <1>2, <1>3, <1>4 DEF L!Runs, L!SignedWell, L!Manifest

LEMMA PipelineInvStep ==
    ASSUME L!PipelineAssumption, PipelineInv, [L!Next]_(L!vars)
    PROVE  PipelineInv'
<1>. USE DEF PipelineInv, VouchedBeforeRun, OnlyAuthenticatedFiled, L!OnlyAuthenticatedFiled
<1>0. UNCHANGED <<l_mail, l_config>>
  BY DEF L!Next, L!Start, L!Skip, L!Failed, L!Produced, L!Filed, L!DryRun, L!Orphan,
         L!CallReturns, L!CallFails, L!Call, L!Done, L!vars
\* Steps that call nothing.
<1>1. ASSUME UNCHANGED l_tried, l_stage' = "file" => VouchedFor(l_ex')
      PROVE  PipelineInv'
  BY <1>0, <1>1 DEF VouchedFor
<1>2. CASE L!Start \/ L!Skip \/ L!Failed \/ L!Filed
  <2>1. l_stage' # "file" /\ UNCHANGED l_tried
    BY <1>2 DEF L!Start, L!Skip, L!Failed, L!Filed, L!Advance
  <2>. QED BY <1>1, <2>1
<1>3. ASSUME NEW out \in Output, L!Produced(out) PROVE PipelineInv'
  <2>1. VouchedFor(l_ex) /\ UNCHANGED <<l_ex, l_tried>>
    BY <1>3, RunsIfVouched DEF L!Produced
  <2>. QED BY <1>1, <2>1
<1>4. CASE L!DryRun \/ L!Orphan \/ L!Done \/ UNCHANGED L!vars
  <2>1. UNCHANGED <<l_ex, l_tried, l_stage>>
    BY <1>4 DEF L!DryRun, L!Orphan, L!Done, L!vars
  <2>. QED BY <1>1, <2>1
<1>5. CASE L!CallReturns \/ L!CallFails
  <2>. DEFINE call == L!Current
  <2>1. /\ l_tried' = Append(l_tried, call) /\ call.ex = l_ex
        /\ l_stage = "file" /\ UNCHANGED <<l_ex, l_stage>>
    BY <1>5 DEF L!CallReturns, L!CallFails, L!Call, L!Current
  <2>. HIDE DEF call
  <2>2. /\ l_tried' \in Seq({l_tried'[i] : i \in DOMAIN l_tried'})
        /\ \A i \in DOMAIN l_tried' :
              l_tried'[i] = call \/ (i \in DOMAIN l_tried /\ l_tried'[i] = l_tried[i])
    <3>1. /\ l_tried' \in Seq({l_tried'[i] : i \in DOMAIN l_tried'})
          /\ DOMAIN l_tried = 1 .. Len(l_tried) /\ DOMAIN l_tried' = 1 .. Len(l_tried) + 1
          /\ Len(l_tried) \in Nat
          /\ \A i \in DOMAIN l_tried : l_tried'[i] = l_tried[i]
          /\ l_tried'[Len(l_tried) + 1] = call
      BY <2>1, OneMore
    <3>2. \A i \in DOMAIN l_tried' : i \in DOMAIN l_tried \/ i = Len(l_tried) + 1
      BY <3>1
    <3>. QED BY <3>1, <3>2
  <2>3. ASSUME NEW i \in DOMAIN l_tried' PROVE VouchedFor(l_tried'[i].ex)
    <3>1. CASE l_tried'[i] = call
      BY <2>1, <3>1
    <3>2. CASE i \in DOMAIN l_tried /\ l_tried'[i] = l_tried[i]
      BY <3>2 DEF VouchedFor
    <3>. QED BY <2>2, <3>1, <3>2
  <2>. QED BY <1>0, <2>1, <2>2, <2>3 DEF VouchedFor
<1>. QED BY <1>2, <1>3, <1>4, <1>5 DEF L!Next

(***************************************************************************)
(* Whatever the sender wrote, nothing an extractor makes of a message is   *)
(* filed unless somebody it trusts vouches for it (pipeline/mod.rs run,    *)
(* dkim.rs passing_dkim_domains).                                          *)
(***************************************************************************)
THEOREM FiledIsAuthenticated ==
    ASSUME L!PipelineAssumption
    PROVE  L!Spec => []OnlyAuthenticatedFiled
<1>1. L!Init => PipelineInv
  <2>. SUFFICES ASSUME L!Init PROVE PipelineInv
    OBVIOUS
  <2>1. l_tried = <<>> /\ DOMAIN l_tried = {} /\ l_tried \in Seq({l_tried[i] : i \in DOMAIN l_tried})
    BY DEF L!Init
  <2>. QED
    BY <2>1 DEF L!Init, PipelineInv, VouchedBeforeRun, OnlyAuthenticatedFiled, L!OnlyAuthenticatedFiled
<1>2. PipelineInv /\ [L!Next]_(L!vars) => PipelineInv'
  BY PipelineInvStep
<1>3. PipelineInv => OnlyAuthenticatedFiled
  BY DEF PipelineInv
<1>. QED BY <1>1, <1>2, <1>3, PTL DEF L!Spec

-----------------------------------------------------------------------------
(***************************************************************************)
(* Pipeline: nothing is forgotten                                          *)
(***************************************************************************)

\* A file among an extractor's output.
Artifact == [kind : L!Kind, slug : STRING, ext : STRING]

\* The passes one by one.
LEMMA EachPass ==
    /\ DOMAIN L!Passes = 1 .. 11
    /\ L!Passes[1] = [kind |-> "event", call |-> "event"]
    /\ L!Passes[2] = [kind |-> "reservation", call |-> "event"]
    /\ L!Passes[3] = [kind |-> "reservation", call |-> "archive"]
    /\ L!Passes[4] = [kind |-> "reservation", call |-> "cancel"]
    /\ L!Passes[5] = [kind |-> "bill", call |-> "record"]
    /\ L!Passes[6] = [kind |-> "bill", call |-> "blob"]
    /\ L!Passes[7] = [kind |-> "parcel", call |-> "record"]
    /\ L!Passes[8] = [kind |-> "subscription", call |-> "record"]
    /\ L!Passes[9] = [kind |-> "receipt", call |-> "record"]
    /\ L!Passes[10] = [kind |-> "receipt", call |-> "blob"]
    /\ L!Passes[11] = [kind |-> "ticket", call |-> "ticket"]
BY DEF L!Passes

\* No two passes make the same call of the same kind, and a document's comes
\* behind its record's, a cancellation's behind that of the archive.
LEMMA PassesDiffer ==
    ASSUME NEW p \in DOMAIN L!Passes, NEW q \in DOMAIN L!Passes
    PROVE  /\ L!Passes[p].kind = L!Passes[q].kind /\ L!Passes[p].call = L!Passes[q].call => p = q
           /\ L!Passes[p].kind = L!Passes[q].kind
                 /\ L!Passes[p].call = "record" /\ L!Passes[q].call = "blob" => p < q
           /\ L!Passes[p].call = "archive" /\ L!Passes[q].call = "cancel" => p < q
<1>1. p \in 1 .. 11 /\ q \in 1 .. 11
  BY EachPass
<1>2. /\ p = 1 \/ p = 2 \/ p = 3 \/ p = 4 \/ p = 5 \/ p = 6 \/ p = 7 \/ p = 8 \/ p = 9
           \/ p = 10 \/ p = 11
      /\ q = 1 \/ q = 2 \/ q = 3 \/ q = 4 \/ q = 5 \/ q = 6 \/ q = 7 \/ q = 8 \/ q = 9
           \/ q = 10 \/ q = 11
  BY <1>1
<1>. QED BY <1>2, EachPass

\* The call whose turn it is comes before all others that are still needed.
LEMMA TurnIsFirst ==
    ASSUME NEW out, out \in Seq(Artifact), l_queue \subseteq L!Calls(out), l_queue # {}
    PROVE  /\ L!Turn \in l_queue
           /\ \A r \in l_queue : L!Turn = r \/ L!Before(L!Turn, r)
<1>1. l_queue \subseteq Nat \X Nat
  <2>1. DOMAIN L!Passes \subseteq Nat /\ DOMAIN out \subseteq Nat
    BY EachPass
  <2>. QED BY <2>1 DEF L!Calls
<1>2. PICK q \in l_queue : \A r \in l_queue : ~ L!Before(r, q)
  <2>. DEFINE Rel == LexPairOrdering(OpToRel(<, Nat), OpToRel(<, Nat), Nat, Nat)
  <2>1. IsWellFoundedOn(Rel, Nat \X Nat)
    BY LessOnNat, WFLexPairOrdering
  <2>2. PICK q \in l_queue : \A r \in l_queue : <<r, q>> \notin Rel
    <3>. HIDE DEF Rel
    <3>. QED BY <1>1, <2>1, WFMin
  <2>3. \A r \in l_queue : L!Before(r, q) => <<r, q>> \in Rel
    BY <1>1 DEF LexPairOrdering, OpToRel, L!Before
  <2>. QED BY <2>2, <2>3
<1>3. \A r \in l_queue : q = r \/ L!Before(q, r)
  BY <1>1, <1>2 DEF L!Before
<1>. QED BY <1>3 DEF L!Turn

-----------------------------------------------------------------------------

Outcome == {"headers", "body", "dkim", "failed", "produced", "empty"}

\* Every extractor up to the one that is considered has an outcome, and none
\* behind it has produced anything.
OutcomesInOrder ==
    /\ l_ex \in Nat \ {0}
    /\ l_stage \in {"new", "match", "file", "done"}
    /\ l_made \in [1 .. Len(Extractor) -> Output \cup {<<>>}]
    /\ l_explain \in Seq(Outcome)
    /\ l_log \in Seq([who : Nat, outcome : Outcome])
    /\ l_stage \in {"match", "file"} => l_ex \in 1 .. Len(Extractor)
    /\ l_stage = "new" => l_explain = <<>> /\ l_ex = 1
    /\ l_stage = "match" => Len(l_explain) = l_ex - 1
    /\ l_stage = "file" => Len(l_explain) = l_ex
    /\ l_stage = "done" =>
          \/ l_mail.oversized /\ l_explain = <<>>
          \/ Len(l_explain) = Len(Extractor)
    /\ \A e \in DOMAIN l_made : e > Len(l_explain) => l_made[e] = <<>>

\* The statistics have each outcome once, but for that of a header.
LoggedOnce ==
    /\ \A i, k \in DOMAIN l_log : l_log[i].who = l_log[k].who /\ l_log[i].who # 0 => i = k
    /\ \A i \in DOMAIN l_log : l_log[i].who # 0 =>
          l_log[i].who \in DOMAIN l_explain /\ l_explain[l_log[i].who] # "headers"
    /\ \A e \in DOMAIN l_explain : l_explain[e] # "headers" =>
          \E i \in DOMAIN l_log : l_log[i].who = e

\* That the call t is the one of the pass and the artifact q.
IsFor(t, q) ==
    /\ t.ex \in DOMAIN l_made /\ q \in L!Calls(l_made[t.ex])
    /\ t.call = L!Passes[q[1]].call
    /\ t.art = l_made[t.ex][q[2]]

\* The record beside a document among what the extractor e made.
Sibling(e, art) ==
    \E i \in DOMAIN l_made[e] :
        l_made[e][i].kind = art.kind /\ l_made[e][i].ext = "json" /\ l_made[e][i].slug = art.slug

\* What of the output of the extractor e is still to be called.
Pending(e) == IF l_stage = "file" /\ e = l_ex THEN l_queue ELSE {}

\* Whether the call of q for what the extractor e made is made at all.
IsMade(e, q) ==
    /\ ~ l_config.dry_run
    /\ L!Passes[q[1]].call = "blob" => Sibling(e, l_made[e][q[2]])

\* What has been called of this output comes before what has not.
QueueInOrder ==
    l_stage = "file" =>
        /\ l_queue \subseteq L!Calls(l_made[l_ex])
        /\ \A q \in L!Calls(l_made[l_ex]) \ l_queue, r \in l_queue : L!Before(q, r)

\* Each call that was made was one to make, and is over.
CalledAsDue ==
    \A i \in DOMAIN l_tried :
        /\ l_tried[i].ex \in DOMAIN l_explain
        /\ \E q \in L!Calls(l_made[l_tried[i].ex]) :
              IsFor(l_tried[i], q) /\ q \notin Pending(l_tried[i].ex) /\ IsMade(l_tried[i].ex, q)

\* The calls of an extractor's output were made in the order of the passes.
CalledInOrder ==
    \A i, k \in DOMAIN l_tried : i < k /\ l_tried[i].ex = l_tried[k].ex =>
        \A q, r \in L!Calls(l_made[l_tried[i].ex]) :
            IsFor(l_tried[i], q) /\ IsFor(l_tried[k], r) => L!Before(q, r)

\* Each call whose turn has been was made, if it is made at all.
AllCalled ==
    \A e \in DOMAIN l_made : \A q \in L!Calls(l_made[e]) :
        IsMade(e, q) /\ q \notin Pending(e) =>
            \E i \in DOMAIN l_tried : l_tried[i].ex = e /\ IsFor(l_tried[i], q)

CallsInv == QueueInOrder /\ CalledAsDue /\ CalledInOrder /\ AllCalled

NothingForgottenInv == PipelineInv /\ OutcomesInOrder /\ LoggedOnce /\ CallsInv

\* The extractors and their output.
LEMMA PipelineTypes ==
    ASSUME L!PipelineAssumption
    PROVE  /\ Len(Extractor) \in Nat /\ (Extractor # <<>> => Len(Extractor) > 0)
           /\ \A out \in Output \cup {<<>>} :
                 /\ out \in Seq(Artifact)
                 /\ \A i, k \in DOMAIN out : out[i] = out[k] => i = k
<1>1. Extractor \in Seq({Extractor[e] : e \in DOMAIN Extractor})
  BY DEF L!PipelineAssumption
<1>2. Len(Extractor) \in Nat /\ (Extractor # <<>> => Len(Extractor) > 0)
  <2>1. Extractor # <<>> => Len(Extractor) # 0
    BY <1>1, EmptySeq
  <2>2. Len(Extractor) \in Nat
    BY <1>1, LenProperties
  <2>. QED BY <2>1, <2>2
<1>3. \A out \in Output :
          out \in Seq(Artifact) /\ \A i, k \in DOMAIN out : out[i] = out[k] => i = k
  BY DEF L!PipelineAssumption, Artifact
<1>4. <<>> \in Seq(Artifact) /\ DOMAIN <<>> = {}
  OBVIOUS
<1>5. \A out : out = <<>> =>
          out \in Seq(Artifact) /\ \A i, k \in DOMAIN out : out[i] = out[k] => i = k
  BY <1>4
<1>. QED BY <1>2, <1>3, <1>5

\* A call is made in one pass, for one artifact.
LEMMA OneCallEach ==
    ASSUME L!PipelineAssumption, NEW out \in Output \cup {<<>>},
           NEW q \in L!Calls(out), NEW r \in L!Calls(out),
           L!Passes[q[1]].call = L!Passes[r[1]].call, out[q[2]] = out[r[2]]
    PROVE  q = r
<1>1. /\ q \in (DOMAIN L!Passes) \X (DOMAIN out) /\ r \in (DOMAIN L!Passes) \X (DOMAIN out)
      /\ L!Passes[q[1]].kind = out[q[2]].kind /\ L!Passes[r[1]].kind = out[r[2]].kind
  BY DEF L!Calls
<1>2. q[2] = r[2]
  BY <1>1, PipelineTypes
<1>3. q[1] = r[1]
  BY <1>1, PassesDiffer
<1>. QED BY <1>1, <1>2, <1>3

-----------------------------------------------------------------------------

\* The outcome of the extractor that is considered is its first.
LEMMA OneMoreOutcome ==
    ASSUME OutcomesInOrder, LoggedOnce, l_stage = "match",
           NEW o \in Outcome, l_explain' = Append(l_explain, o),
           \/ o = "headers" /\ UNCHANGED l_log
           \/ o # "headers" /\ \E w \in Outcome : l_log' = Append(l_log, [who |-> l_ex, outcome |-> w])
    PROVE  /\ l_explain' \in Seq(Outcome) /\ Len(l_explain') = l_ex
           /\ l_log' \in Seq([who : Nat, outcome : Outcome])
           /\ LoggedOnce'
<1>1. /\ l_explain \in Seq(Outcome) /\ Len(l_explain) = l_ex - 1 /\ l_ex \in Nat \ {0}
      /\ l_log \in Seq([who : Nat, outcome : Outcome])
  BY DEF OutcomesInOrder
<1>2. /\ l_explain' \in Seq(Outcome) /\ Len(l_explain') = l_ex
      /\ DOMAIN l_explain' = 1 .. l_ex /\ DOMAIN l_explain = 1 .. l_ex - 1
      /\ \A e \in DOMAIN l_explain : e \in DOMAIN l_explain' /\ l_explain'[e] = l_explain[e]
      /\ l_explain'[l_ex] = o
  BY <1>1
<1>3. CASE o = "headers" /\ UNCHANGED l_log
  <2>1. \A i \in DOMAIN l_log : l_log[i].who # 0 =>
            l_log[i].who \in DOMAIN l_explain' /\ l_explain'[l_log[i].who] # "headers"
    BY <1>2 DEF LoggedOnce
  <2>2. \A e \in DOMAIN l_explain' : l_explain'[e] # "headers" =>
            \E i \in DOMAIN l_log : l_log[i].who = e
    BY <1>1, <1>2, <1>3 DEF LoggedOnce
  <2>. QED BY <1>1, <1>2, <1>3, <2>1, <2>2 DEF LoggedOnce
<1>4. ASSUME o # "headers", NEW w \in Outcome, l_log' = Append(l_log, [who |-> l_ex, outcome |-> w])
      PROVE  l_log' \in Seq([who : Nat, outcome : Outcome]) /\ LoggedOnce'
  <2>1. /\ l_log' \in Seq([who : Nat, outcome : Outcome])
        /\ DOMAIN l_log = 1 .. Len(l_log) /\ DOMAIN l_log' = 1 .. Len(l_log) + 1 /\ Len(l_log) \in Nat
        /\ \A i \in DOMAIN l_log : l_log'[i] = l_log[i]
        /\ l_log'[Len(l_log) + 1].who = l_ex
    BY <1>1, <1>4
  <2>2. \A i \in DOMAIN l_log : l_log[i].who # l_ex
    BY <1>1, <1>2 DEF LoggedOnce
  <2>3. \A i, k \in DOMAIN l_log' : l_log'[i].who = l_log'[k].who /\ l_log'[i].who # 0 => i = k
    <3>. SUFFICES ASSUME NEW i \in DOMAIN l_log', NEW k \in DOMAIN l_log',
                         l_log'[i].who = l_log'[k].who, l_log'[i].who # 0
                  PROVE  i = k
      OBVIOUS
    <3>1. CASE i \in DOMAIN l_log /\ k \in DOMAIN l_log
      BY <2>1, <3>1 DEF LoggedOnce
    <3>2. CASE i \notin DOMAIN l_log \/ k \notin DOMAIN l_log
      BY <2>1, <2>2, <3>2
    <3>. QED BY <3>1, <3>2
  <2>4. \A i \in DOMAIN l_log' : l_log'[i].who # 0 =>
            l_log'[i].who \in DOMAIN l_explain' /\ l_explain'[l_log'[i].who] # "headers"
    <3>. SUFFICES ASSUME NEW i \in DOMAIN l_log', l_log'[i].who # 0
                  PROVE  l_log'[i].who \in DOMAIN l_explain' /\ l_explain'[l_log'[i].who] # "headers"
      OBVIOUS
    <3>1. CASE i \in DOMAIN l_log
      <4>1. l_log[i].who \in DOMAIN l_explain /\ l_explain[l_log[i].who] # "headers"
        BY <2>1, <3>1 DEF LoggedOnce
      <4>. QED BY <1>2, <2>1, <3>1, <4>1
    <3>2. CASE i = Len(l_log) + 1
      <4>1. l_log'[i].who = l_ex
        BY <2>1, <3>2
      <4>2. l_ex \in DOMAIN l_explain'
        BY <1>1, <1>2
      <4>. QED BY <1>2, <1>4, <4>1, <4>2
    <3>. QED BY <2>1, <3>1, <3>2
  <2>5. \A e \in DOMAIN l_explain' : l_explain'[e] # "headers" =>
            \E i \in DOMAIN l_log' : l_log'[i].who = e
    <3>. SUFFICES ASSUME NEW e \in DOMAIN l_explain', l_explain'[e] # "headers"
                  PROVE  \E i \in DOMAIN l_log' : l_log'[i].who = e
      OBVIOUS
    <3>1. CASE e = l_ex
      <4>1. Len(l_log) + 1 \in DOMAIN l_log'
        BY <2>1
      <4>. QED BY <2>1, <3>1, <4>1
    <3>2. CASE e \in DOMAIN l_explain
      <4>1. l_explain[e] # "headers"
        BY <1>2, <3>2
      <4>2. PICK i \in DOMAIN l_log : l_log[i].who = e
        BY <3>2, <4>1 DEF LoggedOnce
      <4>3. i \in DOMAIN l_log' /\ l_log'[i].who = e
        BY <2>1, <4>2
      <4>. QED BY <4>3
    <3>. QED BY <1>1, <1>2, <3>1, <3>2
  <2>. QED BY <2>1, <2>3, <2>4, <2>5 DEF LoggedOnce
<1>. QED BY <1>1, <1>2, <1>3, <1>4

\* That a forward failed is no outcome of an extractor.
LEMMA ForwardLogged ==
    ASSUME OutcomesInOrder, LoggedOnce, UNCHANGED l_explain,
           l_log' = Append(l_log, [who |-> L!ForwardSink, outcome |-> "failed"])
    PROVE  l_log' \in Seq([who : Nat, outcome : Outcome]) /\ LoggedOnce'
<1>1. /\ l_log' \in Seq([who : Nat, outcome : Outcome])
      /\ DOMAIN l_log = 1 .. Len(l_log) /\ DOMAIN l_log' = 1 .. Len(l_log) + 1 /\ Len(l_log) \in Nat
      /\ \A i \in DOMAIN l_log : l_log'[i] = l_log[i]
      /\ l_log'[Len(l_log) + 1].who = 0
  BY DEF OutcomesInOrder, L!ForwardSink, Outcome
<1>2. \A i, k \in DOMAIN l_log' : l_log'[i].who = l_log'[k].who /\ l_log'[i].who # 0 => i = k
  BY <1>1 DEF LoggedOnce
<1>3. \A i \in DOMAIN l_log' : l_log'[i].who # 0 =>
          l_log'[i].who \in DOMAIN l_explain /\ l_explain[l_log'[i].who] # "headers"
  BY <1>1 DEF LoggedOnce
<1>4. \A e \in DOMAIN l_explain : l_explain[e] # "headers" =>
          \E i \in DOMAIN l_log' : l_log'[i].who = e
  BY <1>1 DEF LoggedOnce
<1>. QED BY <1>1, <1>2, <1>3, <1>4 DEF LoggedOnce

-----------------------------------------------------------------------------

\* On to the next extractor, when the present one has its outcome.
LEMMA Advanced ==
    ASSUME L!PipelineAssumption, OutcomesInOrder, l_stage \in {"match", "file"},
           l_explain' \in Seq(Outcome), Len(l_explain') = l_ex,
           l_log' \in Seq([who : Nat, outcome : Outcome]),
           L!Advance, UNCHANGED <<l_mail, l_made>>
    PROVE  OutcomesInOrder' /\ l_stage' # "file"
<1>1. /\ Len(Extractor) \in Nat /\ l_ex \in 1 .. Len(Extractor)
      /\ Len(l_explain) <= l_ex /\ Len(l_explain) \in Nat
  BY PipelineTypes DEF OutcomesInOrder
<1>2. CASE l_ex < Len(Extractor)
  <2>1. l_ex' = l_ex + 1 /\ l_stage' = "match"
    BY <1>2 DEF L!Advance
  <2>2. \A e \in DOMAIN l_made' : e > Len(l_explain') => l_made'[e] = <<>>
    BY <1>1 DEF OutcomesInOrder
  <2>. QED BY <1>1, <1>2, <2>1, <2>2 DEF OutcomesInOrder
<1>3. CASE ~ (l_ex < Len(Extractor))
  <2>1. l_ex' = l_ex /\ l_stage' = "done" /\ l_ex = Len(Extractor)
    BY <1>1, <1>3 DEF L!Advance
  <2>2. \A e \in DOMAIN l_made' : e > Len(l_explain') => l_made'[e] = <<>>
    BY <1>1 DEF OutcomesInOrder
  <2>. QED BY <1>1, <2>1, <2>2 DEF OutcomesInOrder
<1>. QED BY <1>2, <1>3

LEMMA OutcomesStep ==
    ASSUME L!PipelineAssumption, OutcomesInOrder, LoggedOnce, [L!Next]_(L!vars)
    PROVE  OutcomesInOrder' /\ LoggedOnce'
<1>1. CASE L!Start
  <2>1. /\ UNCHANGED <<l_mail, l_ex, l_made, l_explain, l_log>>
        /\ l_explain = <<>> /\ l_ex = 1
        /\ l_stage' = IF l_mail.oversized \/ Extractor = <<>> THEN "done" ELSE "match"
    BY <1>1 DEF L!Start, OutcomesInOrder
  <2>2. LoggedOnce'
    BY <2>1 DEF LoggedOnce
  <2>3. Len(l_explain') = 0 /\ l_ex' = 1 /\ Len(l_explain') = l_ex' - 1 /\ l_ex' \in Nat \ {0}
    BY <2>1
  <2>4. /\ l_made' \in [1 .. Len(Extractor) -> Output \cup {<<>>}]
        /\ l_explain' \in Seq(Outcome) /\ l_explain' = <<>>
        /\ l_log' \in Seq([who : Nat, outcome : Outcome])
        /\ \A e \in DOMAIN l_made' : e > Len(l_explain') => l_made'[e] = <<>>
    BY <2>1 DEF OutcomesInOrder
  <2>5. CASE l_mail.oversized
    <3>1. l_stage' = "done" /\ l_mail'.oversized
      BY <2>1, <2>5
    <3>. QED BY <2>2, <2>3, <2>4, <3>1 DEF OutcomesInOrder
  <2>6. CASE ~ l_mail.oversized /\ Extractor = <<>>
    <3>1. l_stage' = "done" /\ Len(l_explain') = Len(Extractor)
      BY <2>1, <2>3, <2>6
    <3>. QED BY <2>2, <2>3, <2>4, <3>1 DEF OutcomesInOrder
  <2>7. CASE ~ l_mail.oversized /\ Extractor # <<>>
    <3>1. l_stage' = "match" /\ l_ex' \in 1 .. Len(Extractor)
      BY <2>1, <2>7, PipelineTypes
    <3>. QED BY <2>2, <2>3, <2>4, <3>1 DEF OutcomesInOrder
  <2>. QED BY <2>5, <2>6, <2>7
<1>2. CASE L!Skip
  <2>1. PICK o \in {"headers", "body", "dkim"} : L!record_skip(o)
    BY <1>2 DEF L!Skip
  <2>2. /\ l_stage = "match" /\ L!Advance /\ UNCHANGED <<l_mail, l_made>>
        /\ o \in Outcome /\ l_explain' = Append(l_explain, o)
        /\ \/ o = "headers" /\ UNCHANGED l_log
           \/ o # "headers" /\ l_log' = Append(l_log, [who |-> l_ex, outcome |-> o])
    BY <1>2, <2>1 DEF L!Skip, L!record_skip, L!Recorded, Outcome
  <2>3. /\ l_explain' \in Seq(Outcome) /\ Len(l_explain') = l_ex
        /\ l_log' \in Seq([who : Nat, outcome : Outcome])
        /\ LoggedOnce'
    BY <2>2, OneMoreOutcome
  <2>. QED BY <2>2, <2>3, Advanced
<1>3. CASE L!Failed
  <2>1. /\ l_stage = "match" /\ L!Advance /\ UNCHANGED <<l_mail, l_made>>
        /\ "failed" \in Outcome /\ l_explain' = Append(l_explain, "failed")
        /\ l_log' = Append(l_log, [who |-> l_ex, outcome |-> "failed"])
    BY <1>3 DEF L!Failed, L!Runs, L!Recorded, Outcome
  <2>2. /\ l_explain' \in Seq(Outcome) /\ Len(l_explain') = l_ex
        /\ l_log' \in Seq([who : Nat, outcome : Outcome])
        /\ LoggedOnce'
    BY <2>1, OneMoreOutcome
  <2>. QED BY <2>1, <2>2, Advanced
<1>4. ASSUME NEW out \in Output, L!Produced(out)
      PROVE  OutcomesInOrder' /\ LoggedOnce'
  <2>. DEFINE w == IF out = <<>> THEN "empty" ELSE "produced"
  <2>1. /\ l_stage = "match" /\ l_stage' = "file" /\ UNCHANGED <<l_mail, l_ex>>
        /\ "produced" \in Outcome /\ l_explain' = Append(l_explain, "produced")
        /\ w \in Outcome /\ l_log' = Append(l_log, [who |-> l_ex, outcome |-> w])
        /\ l_made' = [l_made EXCEPT ![l_ex] = out]
    BY <1>4 DEF L!Produced, L!Runs, L!Recorded, Outcome
  <2>. HIDE DEF w
  <2>2. /\ l_explain' \in Seq(Outcome) /\ Len(l_explain') = l_ex
        /\ l_log' \in Seq([who : Nat, outcome : Outcome])
        /\ LoggedOnce'
    BY <2>1, OneMoreOutcome
  <2>3. /\ l_ex \in 1 .. Len(Extractor) /\ Len(Extractor) \in Nat
        /\ Len(l_explain) = l_ex - 1
    BY <2>1, PipelineTypes DEF OutcomesInOrder
  <2>4. l_made' \in [1 .. Len(Extractor) -> Output \cup {<<>>}]
    BY <1>4, <2>1 DEF OutcomesInOrder
  <2>5. \A e \in DOMAIN l_made' : e > Len(l_explain') => l_made'[e] = <<>>
    BY <2>1, <2>2, <2>3 DEF OutcomesInOrder
  <2>. QED BY <2>1, <2>2, <2>3, <2>4, <2>5 DEF OutcomesInOrder
<1>5. CASE L!Filed
  <2>1. /\ l_stage = "file" /\ L!Advance /\ UNCHANGED <<l_mail, l_made, l_explain, l_log>>
        /\ l_explain \in Seq(Outcome) /\ Len(l_explain) = l_ex
        /\ l_log \in Seq([who : Nat, outcome : Outcome])
    BY <1>5 DEF L!Filed, OutcomesInOrder
  <2>2. LoggedOnce'
    BY <2>1 DEF LoggedOnce
  <2>. QED BY <2>1, <2>2, Advanced
<1>6. CASE L!DryRun \/ L!Orphan \/ L!CallReturns \/ L!Done \/ UNCHANGED L!vars
  <2>1. UNCHANGED <<l_mail, l_ex, l_stage, l_made, l_explain, l_log>>
    BY <1>6 DEF L!DryRun, L!Orphan, L!CallReturns, L!Call, L!Done, L!vars
  <2>. QED BY <2>1 DEF OutcomesInOrder, LoggedOnce
<1>7. CASE L!CallFails
  <2>1. /\ UNCHANGED <<l_mail, l_ex, l_stage, l_made, l_explain>>
        /\ \/ UNCHANGED l_log
           \/ l_log' = Append(l_log, [who |-> L!ForwardSink, outcome |-> "failed"])
    BY <1>7 DEF L!CallFails, L!Call
  <2>2. l_log' \in Seq([who : Nat, outcome : Outcome]) /\ LoggedOnce'
    <3>1. CASE UNCHANGED l_log
      BY <2>1, <3>1 DEF OutcomesInOrder, LoggedOnce
    <3>2. CASE l_log' = Append(l_log, [who |-> L!ForwardSink, outcome |-> "failed"])
      BY <2>1, <3>2, ForwardLogged
    <3>. QED BY <2>1, <3>1, <3>2
  <2>. QED BY <2>1, <2>2 DEF OutcomesInOrder
<1>. QED BY <1>1, <1>2, <1>3, <1>4, <1>5, <1>6, <1>7 DEF L!Next

-----------------------------------------------------------------------------

\* A step that calls nothing, while nothing is left to call.
LEMMA NothingCalled ==
    ASSUME CallsInv, \A e \in DOMAIN l_made : Pending(e) = {},
           UNCHANGED <<l_config, l_made, l_tried>>, l_stage' # "file",
           DOMAIN l_explain \subseteq DOMAIN l_explain'
    PROVE  CallsInv'
<1>1. \A out : L!Calls(out)' = L!Calls(out)
  BY DEF L!Calls
<1>2. \A t, q : IsFor(t, q)' <=> IsFor(t, q)
  BY <1>1 DEF IsFor
<1>3. \A e, q : IsMade(e, q)' <=> IsMade(e, q)
  BY DEF IsMade, Sibling
<1>4. \A e : Pending(e)' = {}
  BY DEF Pending
<1>5. QueueInOrder'
  BY DEF QueueInOrder
<1>6. CalledAsDue'
  BY <1>1, <1>2, <1>3, <1>4 DEF CallsInv, CalledAsDue
<1>7. CalledInOrder'
  BY <1>1, <1>2 DEF CallsInv, CalledInOrder
<1>8. AllCalled'
  BY <1>1, <1>2, <1>3 DEF CallsInv, AllCalled
<1>. QED BY <1>5, <1>6, <1>7, <1>8 DEF CallsInv

\* The extractor that is considered has not been called for.
LEMMA FreshOutput ==
    ASSUME L!PipelineAssumption, OutcomesInOrder, CallsInv, NEW out \in Output, L!Produced(out),
           DOMAIN l_explain \subseteq DOMAIN l_explain'
    PROVE  CallsInv'
<1>1. /\ l_stage = "match" /\ l_stage' = "file" /\ l_queue' = L!Calls(out)
      /\ UNCHANGED <<l_config, l_ex, l_tried>>
      /\ l_made' = [l_made EXCEPT ![l_ex] = out]
  BY DEF L!Produced, L!Runs
<1>2. /\ l_ex \in DOMAIN l_made /\ DOMAIN l_made' = DOMAIN l_made /\ l_made'[l_ex] = out
      /\ \A e \in DOMAIN l_made : e # l_ex => l_made'[e] = l_made[e]
      /\ l_ex \notin DOMAIN l_explain
  <2>1. l_ex \in 1 .. Len(Extractor) /\ Len(l_explain) = l_ex - 1 /\ DOMAIN l_made = 1 .. Len(Extractor)
        /\ Len(Extractor) \in Nat
    BY <1>1, PipelineTypes DEF OutcomesInOrder
  <2>2. DOMAIN l_explain = 1 .. l_ex - 1
    BY <2>1 DEF OutcomesInOrder
  <2>. QED BY <1>1, <2>1, <2>2
<1>3. \A u : L!Calls(u)' = L!Calls(u)
  BY <1>1 DEF L!Calls
<1>4. \A e : Pending(e) = {} /\ (e # l_ex => Pending(e)' = {})
  BY <1>1 DEF Pending
<1>5. \A e : e = l_ex => Pending(e)' = L!Calls(out)
  BY <1>1 DEF Pending
<1>6. \A i \in DOMAIN l_tried : l_tried[i].ex \in DOMAIN l_made /\ l_tried[i].ex # l_ex
  BY <1>2 DEF CallsInv, CalledAsDue, IsFor
<1>7. \A t, q : t.ex # l_ex => (IsFor(t, q)' <=> IsFor(t, q))
  BY <1>2, <1>3 DEF IsFor
<1>8. \A e \in DOMAIN l_made : e # l_ex => \A q : IsMade(e, q)' <=> IsMade(e, q)
  BY <1>1, <1>2 DEF IsMade, Sibling
<1>9. QueueInOrder'
  BY <1>1, <1>2, <1>3 DEF QueueInOrder
<1>10. CalledAsDue'
  <2>. SUFFICES ASSUME NEW i \in DOMAIN l_tried, NEW t, t = l_tried[i]
                PROVE  /\ t.ex \in DOMAIN l_explain'
                       /\ \E q \in L!Calls(l_made'[t.ex]) :
                             IsFor(t, q)' /\ q \notin Pending(t.ex)' /\ IsMade(t.ex, q)'
    BY <1>1, <1>3 DEF CalledAsDue
  <2>1. PICK q \in L!Calls(l_made[t.ex]) : IsFor(t, q) /\ IsMade(t.ex, q)
    BY DEF CallsInv, CalledAsDue
  <2>2. t.ex # l_ex /\ t.ex \in DOMAIN l_made /\ l_made'[t.ex] = l_made[t.ex]
    BY <1>2, <1>6
  <2>3. IsFor(t, q)' /\ q \notin Pending(t.ex)' /\ IsMade(t.ex, q)'
    BY <1>4, <1>7, <1>8, <2>1, <2>2
  <2>4. t.ex \in DOMAIN l_explain
    BY DEF CallsInv, CalledAsDue
  <2>. QED BY <2>1, <2>2, <2>3, <2>4
<1>11. CalledInOrder'
  <2>. SUFFICES ASSUME NEW i \in DOMAIN l_tried, NEW k \in DOMAIN l_tried,
                       NEW t, t = l_tried[i], NEW u, u = l_tried[k], i < k, t.ex = u.ex,
                       NEW q \in L!Calls(l_made'[t.ex]), NEW r \in L!Calls(l_made'[t.ex]),
                       IsFor(t, q)', IsFor(u, r)'
                PROVE  L!Before(q, r)
    BY <1>1, <1>3 DEF CalledInOrder, L!Before
  <2>1. t.ex # l_ex /\ u.ex # l_ex /\ l_made'[t.ex] = l_made[t.ex]
    BY <1>2, <1>6
  <2>2. IsFor(t, q) /\ IsFor(u, r)
    BY <1>7, <2>1
  <2>. QED BY <2>1, <2>2 DEF CallsInv, CalledInOrder
<1>12. AllCalled'
  <2>. SUFFICES ASSUME NEW e \in DOMAIN l_made, NEW q \in L!Calls(l_made'[e]),
                       IsMade(e, q)', q \notin Pending(e)'
                PROVE  \E i \in DOMAIN l_tried : \E t : t = l_tried[i] /\ t.ex = e /\ IsFor(t, q)'
    BY <1>1, <1>2, <1>3 DEF AllCalled
  <2>1. e # l_ex
    BY <1>2, <1>5
  <2>2. l_made'[e] = l_made[e] /\ IsMade(e, q)
    BY <1>2, <1>8, <2>1
  <2>3. PICK i \in DOMAIN l_tried : l_tried[i].ex = e /\ IsFor(l_tried[i], q)
    BY <1>4, <2>2 DEF CallsInv, AllCalled
  <2>4. PICK t : t = l_tried[i]
    OBVIOUS
  <2>. QED BY <1>7, <2>1, <2>3, <2>4
<1>. QED BY <1>9, <1>10, <1>11, <1>12 DEF CallsInv

\* What it takes for the turn to pass on.
LEMMA TurnPasses ==
    ASSUME L!PipelineAssumption, OutcomesInOrder, QueueInOrder, l_stage = "file", l_queue # {},
           l_queue' = l_queue \ {L!Turn}, UNCHANGED <<l_config, l_ex, l_stage, l_made>>
    PROVE  /\ l_ex \in DOMAIN l_made /\ l_made[l_ex] \in Output \cup {<<>>}
           /\ L!Turn \in l_queue /\ L!Turn \in L!Calls(l_made[l_ex])
           /\ QueueInOrder'
           /\ \A e : Pending(e)' = IF e = l_ex THEN Pending(e) \ {L!Turn} ELSE Pending(e)
           /\ \A out : L!Calls(out)' = L!Calls(out)
           /\ \A t, q : IsFor(t, q)' <=> IsFor(t, q)
           /\ \A e, q : IsMade(e, q)' <=> IsMade(e, q)
<1>1. l_ex \in DOMAIN l_made /\ l_made[l_ex] \in Output \cup {<<>>}
  BY DEF OutcomesInOrder
<1>2. /\ L!Turn \in l_queue
      /\ \A r \in l_queue : L!Turn = r \/ L!Before(L!Turn, r)
  <2>1. l_made[l_ex] \in Seq(Artifact)
    BY <1>1, PipelineTypes
  <2>2. l_queue \subseteq L!Calls(l_made[l_ex])
    BY DEF QueueInOrder
  <2>. QED BY <2>1, <2>2, TurnIsFirst
<1>3. \A out : L!Calls(out)' = L!Calls(out)
  BY DEF L!Calls
<1>4. QueueInOrder'
  <2>. DEFINE now == L!Turn
  <2>1. now \in l_queue /\ \A r \in l_queue : now = r \/ L!Before(now, r)
    BY <1>2
  <2>2. l_queue' = l_queue \ {now}
    OBVIOUS
  <2>. HIDE DEF now
  <2>3. \A q, r : L!Before(q, r)' <=> L!Before(q, r)
    BY DEF L!Before
  <2>. QED BY <1>3, <2>1, <2>2, <2>3 DEF QueueInOrder
<1>5. \A e : Pending(e)' = IF e = l_ex THEN Pending(e) \ {L!Turn} ELSE Pending(e)
  BY DEF Pending
<1>6. \A t, q : IsFor(t, q)' <=> IsFor(t, q)
  BY <1>3 DEF IsFor
<1>7. \A e, q : IsMade(e, q)' <=> IsMade(e, q)
  BY DEF IsMade, Sibling
<1>8. L!Turn \in L!Calls(l_made[l_ex])
  BY <1>2 DEF QueueInOrder
<1>. QED BY <1>1, <1>2, <1>3, <1>4, <1>5, <1>6, <1>7, <1>8

\* The turn passes on without a call.
LEMMA PassedOn ==
    ASSUME L!PipelineAssumption, OutcomesInOrder, CallsInv, l_stage = "file", l_queue # {},
           l_queue' = l_queue \ {L!Turn}, ~ IsMade(l_ex, L!Turn),
           UNCHANGED <<l_config, l_ex, l_stage, l_made, l_explain, l_tried>>
    PROVE  CallsInv'
<1>. DEFINE now == L!Turn
<1>1. /\ QueueInOrder'
      /\ \A e : Pending(e)' = IF e = l_ex THEN Pending(e) \ {now} ELSE Pending(e)
      /\ \A out : L!Calls(out)' = L!Calls(out)
      /\ \A t, q : IsFor(t, q)' <=> IsFor(t, q)
      /\ \A e, q : IsMade(e, q)' <=> IsMade(e, q)
      /\ ~ IsMade(l_ex, now)
  BY TurnPasses DEF CallsInv
<1>. HIDE DEF now
<1>2. CalledAsDue'
  BY <1>1 DEF CallsInv, CalledAsDue
<1>3. CalledInOrder'
  <2>1. \A q, r : L!Before(q, r)' <=> L!Before(q, r)
    BY DEF L!Before
  <2>. QED BY <1>1, <2>1 DEF CallsInv, CalledInOrder
<1>4. AllCalled'
  <2>1. \A e, q : IsMade(e, q) /\ q \notin Pending(e)' => q \notin Pending(e)
    BY <1>1
  <2>. QED BY <1>1, <2>1 DEF CallsInv, AllCalled
<1>. QED BY <1>1, <1>2, <1>3, <1>4 DEF CallsInv

\* The call whose turn it is is made.
LEMMA Called ==
    ASSUME L!PipelineAssumption, VouchedBeforeRun, OutcomesInOrder, CallsInv, L!Call,
           l_queue' = l_queue \ {L!Turn}
    PROVE  CallsInv'
<1>. DEFINE now == L!Turn
            call == L!Current
            n == Len(l_tried) + 1
<1>1. /\ l_stage = "file" /\ l_queue # {} /\ l_tried' = Append(l_tried, call)
      /\ UNCHANGED <<l_config, l_ex, l_stage, l_made, l_explain>>
  BY DEF L!Call
<1>2. /\ l_ex \in DOMAIN l_made /\ l_made[l_ex] \in Output \cup {<<>>}
      /\ now \in l_queue /\ now \in L!Calls(l_made[l_ex])
      /\ QueueInOrder'
      /\ \A e : Pending(e)' = IF e = l_ex THEN Pending(e) \ {now} ELSE Pending(e)
      /\ \A out : L!Calls(out)' = L!Calls(out)
      /\ \A t, q : IsFor(t, q)' <=> IsFor(t, q)
      /\ \A e, q : IsMade(e, q)' <=> IsMade(e, q)
  BY <1>1, TurnPasses DEF CallsInv
<1>3. /\ call.ex = l_ex /\ call.call = L!Passes[now[1]].call /\ call.art = l_made[l_ex][now[2]]
      /\ IsFor(call, now)
  BY <1>2 DEF L!Current, IsFor
<1>4. IsMade(l_ex, now)
  BY DEF L!Call, L!Current, L!HasSibling, IsMade, Sibling
<1>6. l_ex \in DOMAIN l_explain
  BY <1>1 DEF OutcomesInOrder
<1>. HIDE DEF now, call
<1>5. \A q : IsFor(call, q) => q = now
  <2>. SUFFICES ASSUME NEW q, IsFor(call, q) PROVE q = now
    OBVIOUS
  <2>1. /\ q \in L!Calls(l_made[l_ex]) /\ L!Passes[q[1]].call = L!Passes[now[1]].call
        /\ l_made[l_ex][q[2]] = l_made[l_ex][now[2]]
    BY <1>3 DEF IsFor
  <2>. QED BY <1>2, <2>1, OneCallEach
<1>7. /\ DOMAIN l_tried = 1 .. Len(l_tried) /\ Len(l_tried) \in Nat
      /\ DOMAIN l_tried' = 1 .. n /\ l_tried'[n] = call
      /\ \A i \in DOMAIN l_tried : l_tried'[i] = l_tried[i]
  BY <1>1, OneMore DEF VouchedBeforeRun
<1>8. \A i \in DOMAIN l_tried' : i \in DOMAIN l_tried \/ i = n
  BY <1>7
<1>. HIDE DEF n
<1>9. CalledAsDue'
  <2>. SUFFICES ASSUME NEW i \in DOMAIN l_tried', NEW t, t = l_tried'[i]
                PROVE  /\ t.ex \in DOMAIN l_explain
                       /\ \E q \in L!Calls(l_made[t.ex]) :
                             IsFor(t, q) /\ q \notin Pending(t.ex)' /\ IsMade(t.ex, q)
    BY <1>1, <1>2 DEF CalledAsDue
  <2>1. CASE i \in DOMAIN l_tried
    <3>1. PICK q \in L!Calls(l_made[t.ex]) :
              IsFor(t, q) /\ q \notin Pending(t.ex) /\ IsMade(t.ex, q)
      BY <1>7, <2>1 DEF CallsInv, CalledAsDue
    <3>2. q \notin Pending(t.ex)'
      BY <1>2, <3>1
    <3>3. t.ex \in DOMAIN l_explain
      BY <1>7, <2>1 DEF CallsInv, CalledAsDue
    <3>. QED BY <3>1, <3>2, <3>3
  <2>2. CASE i = n
    <3>1. t = call
      BY <1>7, <2>2
    <3>2. now \notin Pending(t.ex)'
      BY <1>2, <1>3, <3>1
    <3>. QED BY <1>2, <1>3, <1>4, <1>6, <3>1, <3>2
  <2>. QED BY <1>8, <2>1, <2>2
<1>10. CalledInOrder'
  <2>. SUFFICES ASSUME NEW i \in DOMAIN l_tried', NEW k \in DOMAIN l_tried',
                       NEW t, t = l_tried'[i], NEW u, u = l_tried'[k], i < k, t.ex = u.ex,
                       NEW q \in L!Calls(l_made[t.ex]), NEW r \in L!Calls(l_made[t.ex]),
                       IsFor(t, q), IsFor(u, r)
                PROVE  L!Before(q, r)
    BY <1>1, <1>2 DEF CalledInOrder, L!Before
  <2>1. i \in DOMAIN l_tried
    BY <1>7, <1>8 DEF n
  <2>2. CASE k \in DOMAIN l_tried
    BY <1>7, <2>1, <2>2 DEF CallsInv, CalledInOrder
  <2>3. CASE k = n
    <3>1. u = call /\ t = l_tried[i]
      BY <1>7, <2>1, <2>3
    <3>2. r = now /\ t.ex = l_ex
      BY <1>3, <1>5, <3>1
    <3>3. PICK p \in L!Calls(l_made[l_ex]) : IsFor(t, p) /\ p \notin Pending(l_ex)
      BY <2>1, <3>1, <3>2 DEF CallsInv, CalledAsDue
    <3>4. p = q
      <4>1. /\ q \in L!Calls(l_made[l_ex]) /\ L!Passes[p[1]].call = L!Passes[q[1]].call
            /\ l_made[l_ex][p[2]] = l_made[l_ex][q[2]]
        BY <3>2, <3>3 DEF IsFor
      <4>. QED BY <1>2, <3>3, <4>1, OneCallEach
    <3>5. q \notin l_queue
      BY <1>1, <3>3, <3>4 DEF Pending
    <3>. QED BY <1>1, <1>2, <3>2, <3>5 DEF CallsInv, QueueInOrder
  <2>. QED BY <1>8, <2>2, <2>3
<1>11. AllCalled'
  <2>. SUFFICES ASSUME NEW e \in DOMAIN l_made, NEW q \in L!Calls(l_made[e]),
                       IsMade(e, q), q \notin Pending(e)'
                PROVE  \E i \in DOMAIN l_tried' : l_tried'[i].ex = e /\ IsFor(l_tried'[i], q)
    BY <1>1, <1>2 DEF AllCalled
  <2>1. CASE e = l_ex /\ q = now
    <3>1. n \in DOMAIN l_tried'
      BY <1>7 DEF n
    <3>. QED BY <1>3, <1>7, <2>1, <3>1
  <2>2. CASE ~ (e = l_ex /\ q = now)
    <3>1. q \notin Pending(e)
      BY <1>2, <2>2
    <3>2. PICK i \in DOMAIN l_tried : l_tried[i].ex = e /\ IsFor(l_tried[i], q)
      BY <3>1 DEF CallsInv, AllCalled
    <3>3. i \in DOMAIN l_tried' /\ l_tried'[i] = l_tried[i]
      BY <1>7, <3>2 DEF n
    <3>. QED BY <3>2, <3>3
  <2>. QED BY <2>1, <2>2
<1>. QED BY <1>2, <1>9, <1>10, <1>11 DEF CallsInv

LEMMA CallsStep ==
    ASSUME L!PipelineAssumption, VouchedBeforeRun, OutcomesInOrder, CallsInv, [L!Next]_(L!vars),
           OutcomesInOrder'
    PROVE  CallsInv'
<1>1. CASE L!Start \/ L!Skip \/ L!Failed \/ L!Filed
  <2>1. /\ UNCHANGED <<l_config, l_made, l_tried>> /\ l_stage' # "file"
        /\ \A e : Pending(e) = {}
    BY <1>1 DEF L!Start, L!Skip, L!Failed, L!Filed, L!Advance, L!Runs, Pending
  <2>2. DOMAIN l_explain \subseteq DOMAIN l_explain'
    <3>1. CASE UNCHANGED l_explain
      BY <3>1
    <3>2. CASE \E o : l_explain' = Append(l_explain, o) /\ o \in Outcome
      BY <3>2 DEF OutcomesInOrder
    <3>. QED BY <1>1, <3>1, <3>2 DEF L!Start, L!Skip, L!record_skip, L!Failed, L!Filed, Outcome
  <2>. QED BY <2>1, <2>2, NothingCalled
<1>2. ASSUME NEW out \in Output, L!Produced(out) PROVE CallsInv'
  <2>1. l_explain' = Append(l_explain, "produced") /\ "produced" \in Outcome
    BY <1>2 DEF L!Produced, Outcome
  <2>2. DOMAIN l_explain \subseteq DOMAIN l_explain'
    BY <2>1 DEF OutcomesInOrder
  <2>. QED BY <1>2, <2>2, FreshOutput
<1>3. CASE L!DryRun
  <2>1. ~ IsMade(l_ex, L!Turn)
    BY <1>3 DEF L!DryRun, IsMade
  <2>. QED BY <1>3, <2>1, PassedOn DEF L!DryRun
<1>4. CASE L!Orphan
  <2>1. ~ IsMade(l_ex, L!Turn)
    BY <1>4 DEF L!Orphan, L!Current, L!HasSibling, IsMade, Sibling
  <2>. QED BY <1>4, <2>1, PassedOn DEF L!Orphan
<1>5. CASE L!CallReturns \/ L!CallFails
  BY <1>5, Called DEF L!CallReturns, L!CallFails
<1>6. CASE L!Done \/ UNCHANGED L!vars
  <2>1. UNCHANGED <<l_config, l_ex, l_stage, l_queue, l_made, l_explain, l_tried>>
    BY <1>6 DEF L!Done, L!vars
  <2>2. /\ \A out : L!Calls(out)' = L!Calls(out)
        /\ \A e : Pending(e)' = Pending(e)
        /\ \A e, q : IsMade(e, q)' <=> IsMade(e, q)
    BY <2>1 DEF L!Calls, Pending, IsMade, Sibling
  <2>3. \A t, q : IsFor(t, q)' <=> IsFor(t, q)
    BY <2>1, <2>2 DEF IsFor
  <2>4. QueueInOrder'
    BY <2>1, <2>2 DEF CallsInv, QueueInOrder, L!Before
  <2>5. CalledAsDue'
    BY <2>1, <2>2, <2>3 DEF CallsInv, CalledAsDue
  <2>6. CalledInOrder'
    BY <2>1, <2>2, <2>3 DEF CallsInv, CalledInOrder, L!Before
  <2>7. AllCalled'
    BY <2>1, <2>2, <2>3 DEF CallsInv, AllCalled
  <2>. QED BY <2>4, <2>5, <2>6, <2>7 DEF CallsInv
<1>. QED BY <1>1, <1>2, <1>3, <1>4, <1>5, <1>6 DEF L!Next

-----------------------------------------------------------------------------

\* What is due is what is called for.
LEMMA DueIsCalled ==
    ASSUME L!PipelineAssumption, NEW e \in DOMAIN l_made, l_made[e] \in Seq(Artifact),
           NEW k \in DOMAIN l_made[e]
    PROVE  \A c : c \in L!Due(e, l_made[e][k]) <=>
               \E p \in DOMAIN L!Passes :
                   /\ <<p, k>> \in L!Calls(l_made[e]) /\ IsMade(e, <<p, k>>)
                   /\ L!Passes[p].call = c
<1>. DEFINE art == l_made[e][k]
<1>1. art.kind \in L!Kind
  <2>1. art \in Artifact
    OBVIOUS
  <2>. QED BY <2>1 DEF Artifact
<1>2. \A p \in DOMAIN L!Passes :
          <<p, k>> \in L!Calls(l_made[e]) <=>
              /\ art.kind = L!Passes[p].kind
              /\ art.kind \in {"bill", "receipt"} => (L!Passes[p].call = "record" <=> art.ext = "json")
              /\ L!Passes[p].call = "event" \/ L!Passes[p].kind \in l_config.targets
  BY DEF L!Calls
<1>3. \A p \in DOMAIN L!Passes :
          IsMade(e, <<p, k>>) <=> ~ l_config.dry_run /\ (L!Passes[p].call = "blob" => Sibling(e, art))
  BY DEF IsMade
<1>4. \A c : c \in L!Due(e, art) <=>
          /\ ~ l_config.dry_run
          /\ \/ art.kind \in {"event", "reservation"} /\ c = "event"
             \/ /\ art.kind \in l_config.targets
                /\ \/ art.kind = "reservation" /\ c \in {"archive", "cancel"}
                   \/ art.kind = "ticket" /\ c = "ticket"
                   \/ art.kind \in {"parcel", "subscription"} /\ c = "record"
                   \/ art.kind \in {"bill", "receipt"} /\ art.ext = "json" /\ c = "record"
                   \/ /\ art.kind \in {"bill", "receipt"} /\ art.ext # "json"
                      /\ Sibling(e, art) /\ c = "blob"
  <2>. HIDE DEF art
  <2>1. art.kind \in {"event", "reservation", "bill", "parcel", "subscription", "receipt", "ticket"}
    BY <1>1 DEF L!Kind
  <2>2. CASE art.kind = "event"
    <3>1. L!Due(e, art) = IF l_config.dry_run THEN {} ELSE {"event"}
      BY <2>2 DEF L!Due
    <3>. QED BY <2>2, <3>1
  <2>3. CASE art.kind = "reservation"
    <3>1. L!Due(e, art) = IF l_config.dry_run THEN {}
                          ELSE IF "reservation" \in l_config.targets THEN {"event", "archive", "cancel"}
                          ELSE {"event"}
      BY <2>3 DEF L!Due
    <3>. QED BY <2>3, <3>1
  <2>4. CASE art.kind = "ticket"
    <3>1. L!Due(e, art) = IF ~ l_config.dry_run /\ "ticket" \in l_config.targets
                            THEN {"ticket"} ELSE {}
      BY <2>4 DEF L!Due
    <3>. QED BY <2>4, <3>1
  <2>5. CASE art.kind \in {"parcel", "subscription"}
    BY <2>5 DEF L!Due
  <2>6. CASE art.kind \in {"bill", "receipt"} /\ art.ext = "json"
    BY <2>6 DEF L!Due
  <2>7. CASE art.kind \in {"bill", "receipt"} /\ art.ext # "json"
    BY <2>7 DEF L!Due, Sibling
  <2>. QED BY <2>1, <2>2, <2>3, <2>4, <2>5, <2>6, <2>7
<1>. DEFINE due(p, c) == /\ <<p, k>> \in L!Calls(l_made[e]) /\ IsMade(e, <<p, k>>)
                         /\ L!Passes[p].call = c
<1>. HIDE DEF art
<1>. SUFFICES ASSUME NEW c
              PROVE  c \in L!Due(e, art) <=> \E p \in DOMAIN L!Passes : due(p, c)
  BY DEF art
<1>5. ASSUME NEW p \in DOMAIN L!Passes, due(p, c)
      PROVE  c \in L!Due(e, art)
  <2>1. \/ p = 1 \/ p = 2 \/ p = 3 \/ p = 4 \/ p = 5 \/ p = 6 \/ p = 7 \/ p = 8 \/ p = 9
        \/ p = 10 \/ p = 11
    <3>1. p \in 1 .. 11
      BY EachPass
    <3>. QED BY <3>1
  <2>2. /\ ~ l_config.dry_run /\ (L!Passes[p].call = "blob" => Sibling(e, art))
        /\ art.kind = L!Passes[p].kind
        /\ art.kind \in {"bill", "receipt"} => (L!Passes[p].call = "record" <=> art.ext = "json")
        /\ L!Passes[p].call = "event" \/ L!Passes[p].kind \in l_config.targets
        /\ c = L!Passes[p].call
    BY <1>2, <1>3, <1>5
  <2>. HIDE DEF due
  <2>3. CASE p = 1 \/ p = 2
    BY <1>4, <2>2, <2>3, EachPass
  <2>4. CASE p = 3 \/ p = 4
    BY <1>4, <2>2, <2>4, EachPass
  <2>5. CASE p = 5 \/ p = 9
    BY <1>4, <2>2, <2>5, EachPass
  <2>6. CASE p = 6 \/ p = 10
    BY <1>4, <2>2, <2>6, EachPass
  <2>7. CASE p = 7 \/ p = 8
    BY <1>4, <2>2, <2>7, EachPass
  <2>8. CASE p = 11
    BY <1>4, <2>2, <2>8, EachPass
  <2>. QED BY <2>1, <2>3, <2>4, <2>5, <2>6, <2>7, <2>8
<1>6. ASSUME c \in L!Due(e, art)
      PROVE  \E p \in DOMAIN L!Passes : due(p, c)
  <2>. DEFINE P == L!Passes
  <2>1. \A p \in 1 .. 11 :
            /\ p \in DOMAIN P
            /\ /\ art.kind = P[p].kind /\ P[p].call = c
               /\ art.kind \in {"bill", "receipt"} => (c = "record" <=> art.ext = "json")
               /\ c = "event" \/ art.kind \in l_config.targets
               /\ ~ l_config.dry_run /\ (c = "blob" => Sibling(e, art))
               => due(p, c)
    BY <1>2, <1>3, EachPass
  <2>. HIDE DEF due
  <2>2. \E p \in 1 .. 11 :
            /\ art.kind = P[p].kind /\ P[p].call = c
            /\ art.kind \in {"bill", "receipt"} => (c = "record" <=> art.ext = "json")
            /\ c = "event" \/ art.kind \in l_config.targets
            /\ ~ l_config.dry_run /\ (c = "blob" => Sibling(e, art))
    <3>1. CASE c = "event"
      BY <1>4, <1>6, <3>1, EachPass
    <3>2. CASE c \in {"archive", "cancel"}
      BY <1>4, <1>6, <3>2, EachPass
    <3>3. CASE c = "record" /\ art.kind = "bill"
      BY <1>4, <1>6, <3>3, EachPass
    <3>4. CASE c = "record" /\ art.kind = "receipt"
      BY <1>4, <1>6, <3>4, EachPass
    <3>5. CASE c = "record" /\ art.kind \in {"parcel", "subscription"}
      BY <1>4, <1>6, <3>5, EachPass
    <3>6. CASE c = "blob"
      BY <1>4, <1>6, <3>6, EachPass
    <3>7. CASE c = "ticket"
      BY <1>4, <1>6, <3>7, EachPass
    <3>. QED BY <1>4, <1>6, <3>1, <3>2, <3>3, <3>4, <3>5, <3>6, <3>7
  <2>. QED BY <2>1, <2>2
<1>. QED BY <1>5, <1>6

\* One line of statistics for an outcome that is recorded.
LEMMA OutcomesCounted ==
    ASSUME OutcomesInOrder, LoggedOnce
    PROVE  L!OneOutcomeEach
<1>1. ASSUME NEW e \in DOMAIN l_explain
      PROVE  L!Cardinality({i \in DOMAIN l_log : l_log[i].who = e}) =
                 IF l_explain[e] = "headers" THEN 0 ELSE 1
  <2>. DEFINE lines == {i \in DOMAIN l_log : l_log[i].who = e}
  <2>1. L!Cardinality(lines) = Cardinality(lines)
    BY DEF L!Cardinality, Cardinality
  <2>2. e # 0
    BY DEF OutcomesInOrder
  <2>3. CASE l_explain[e] = "headers"
    <3>1. lines = {}
      BY <2>2, <2>3 DEF LoggedOnce
    <3>. QED BY <2>1, <2>3, <3>1, FS_EmptySet
  <2>4. CASE l_explain[e] # "headers"
    <3>1. PICK i \in DOMAIN l_log : l_log[i].who = e
      BY <2>4 DEF LoggedOnce
    <3>2. lines = {i}
      BY <2>2, <3>1 DEF LoggedOnce
    <3>. QED BY <2>1, <2>4, <3>2, FS_Singleton
  <2>. QED BY <2>3, <2>4
<1>2. /\ l_stage = "match" => Len(l_explain) = l_ex - 1
      /\ l_stage = "done" /\ ~ l_mail.oversized => Len(l_explain) = Len(Extractor)
  BY DEF OutcomesInOrder
<1>. QED BY <1>1, <1>2 DEF L!OneOutcomeEach

LEMMA CallsComplete ==
    ASSUME L!PipelineAssumption, NothingForgottenInv
    PROVE  NothingForgotten
<1>. USE DEF NothingForgottenInv, PipelineInv, CallsInv
<1>1. L!OneOutcomeEach
  BY OutcomesCounted
<1>2. ASSUME l_stage = "done", NEW e \in DOMAIN l_made, NEW k \in DOMAIN l_made[e]
      PROVE  LET art == l_made[e][k]
                 made_calls == {i \in DOMAIN l_tried : l_tried[i].ex = e /\ l_tried[i].art = art}
             IN  /\ {l_tried[i].call : i \in made_calls} = L!Due(e, art)
                 /\ L!Cardinality(made_calls) = L!Cardinality(L!Due(e, art))
  <2>. DEFINE art == l_made[e][k]
              calls == {i \in DOMAIN l_tried : l_tried[i].ex = e /\ l_tried[i].art = art}
              due == L!Due(e, art)
              call == [i \in calls |-> l_tried[i].call]
  <2>1. /\ l_made[e] \in Output \cup {<<>>} /\ l_made[e] \in Seq(Artifact)
        /\ \A i \in DOMAIN l_made[e] : l_made[e][i] = art => i = k
    <3>1. l_made[e] \in Output \cup {<<>>}
      BY DEF OutcomesInOrder
    <3>. QED BY <3>1, PipelineTypes
  <2>2. \A c : c \in due <=>
            \E p \in DOMAIN L!Passes :
                /\ <<p, k>> \in L!Calls(l_made[e]) /\ IsMade(e, <<p, k>>)
                /\ L!Passes[p].call = c
    BY <2>1, DueIsCalled
  <2>3. ASSUME NEW i \in calls
        PROVE  \E p \in DOMAIN L!Passes :
                   /\ <<p, k>> \in L!Calls(l_made[e]) /\ IsMade(e, <<p, k>>)
                   /\ IsFor(l_tried[i], <<p, k>>) /\ L!Passes[p].call = l_tried[i].call
    <3>1. PICK q \in L!Calls(l_made[e]) : IsFor(l_tried[i], q) /\ IsMade(e, q)
      BY <2>3 DEF CalledAsDue
    <3>2. q \in (DOMAIN L!Passes) \X (DOMAIN l_made[e])
      BY DEF L!Calls
    <3>3. q[2] = k /\ l_tried[i].call = L!Passes[q[1]].call
      BY <2>1, <2>3, <3>1, <3>2 DEF IsFor
    <3>4. q = <<q[1], k>> /\ q[1] \in DOMAIN L!Passes
      BY <3>2, <3>3
    <3>. QED BY <3>1, <3>3, <3>4
  <2>4. ASSUME NEW c \in due PROVE \E i \in calls : l_tried[i].call = c
    <3>1. PICK p \in DOMAIN L!Passes :
              <<p, k>> \in L!Calls(l_made[e]) /\ IsMade(e, <<p, k>>) /\ L!Passes[p].call = c
      BY <2>2
    <3>2. PICK i \in DOMAIN l_tried : l_tried[i].ex = e /\ IsFor(l_tried[i], <<p, k>>)
      BY <1>2, <3>1 DEF AllCalled, Pending
    <3>3. l_tried[i].art = art /\ l_tried[i].call = c
      BY <3>1, <3>2 DEF IsFor
    <3>. QED BY <3>2, <3>3
  <2>5. ASSUME NEW i \in calls, NEW j \in calls, l_tried[i].call = l_tried[j].call
        PROVE  i = j
    <3>1. PICK p \in DOMAIN L!Passes :
              /\ <<p, k>> \in L!Calls(l_made[e]) /\ IsFor(l_tried[i], <<p, k>>)
              /\ L!Passes[p].call = l_tried[i].call
      BY <2>3
    <3>2. PICK r \in DOMAIN L!Passes :
              /\ <<r, k>> \in L!Calls(l_made[e]) /\ IsFor(l_tried[j], <<r, k>>)
              /\ L!Passes[r].call = l_tried[j].call
      BY <2>3
    <3>3. <<p, k>> = <<r, k>>
      <4>1. L!Passes[p].kind = art.kind /\ L!Passes[r].kind = art.kind
        BY <3>1, <3>2 DEF L!Calls
      <4>2. p = r
        BY <2>5, <3>1, <3>2, <4>1, PassesDiffer
      <4>. QED BY <4>2
    <3>4. ~ L!Before(<<p, k>>, <<p, k>>)
      <4>1. p \in Nat /\ k \in Nat
        BY <2>1, EachPass
      <4>. QED BY <4>1 DEF L!Before
    <3>5. ~ (i < j) /\ ~ (j < i)
      BY <3>1, <3>2, <3>3, <3>4 DEF CalledInOrder
    <3>6. i \in Nat /\ j \in Nat
      BY DEF VouchedBeforeRun
    <3>. QED BY <3>5, <3>6
  <2>6. IsFiniteSet(calls)
    <3>1. Len(l_tried) \in Nat /\ DOMAIN l_tried = 1 .. Len(l_tried)
      BY DEF VouchedBeforeRun
    <3>2. IsFiniteSet(1 .. Len(l_tried))
      BY <3>1, FS_Interval
    <3>. QED BY <3>1, <3>2, FS_Subset
  <2>7. \A i \in calls : l_tried[i].call \in due
    BY <2>2, <2>3
  <2>8. {l_tried[i].call : i \in calls} = due
    <3>. HIDE DEF calls, due
    <3>. QED BY <2>4, <2>7
  <2>9. ExistsBijection(calls, due)
    <3>. HIDE DEF calls, due
    <3>1. call \in Injection(calls, due)
      BY <2>5, <2>7 DEF Injection, IsInjective
    <3>2. call \in Surjection(calls, due)
      BY <2>4, <2>7 DEF Surjection
    <3>. QED BY <3>1, <3>2 DEF ExistsBijection, Bijection
  <2>10. Cardinality(calls) = Cardinality(due)
    <3>. HIDE DEF calls, due
    <3>. QED BY <2>6, <2>9, FS_Bijection
  <2>11. /\ L!Cardinality(calls) = Cardinality(calls)
         /\ L!Cardinality(due) = Cardinality(due)
    <3>. HIDE DEF calls, due
    <3>. QED BY DEF L!Cardinality, Cardinality
  <2>. QED BY <2>8, <2>10, <2>11
<1>3. ASSUME NEW i \in DOMAIN l_tried, NEW j \in DOMAIN l_tried,
             l_tried[i].ex = l_tried[j].ex,
             \/ l_tried[i].call = "blob" /\ l_tried[j].call = "record"
                   /\ l_tried[i].art.kind = l_tried[j].art.kind
             \/ l_tried[i].call = "cancel" /\ l_tried[j].call = "archive"
      PROVE  j < i
  <2>1. PICK q \in L!Calls(l_made[l_tried[i].ex]) : IsFor(l_tried[i], q)
    BY DEF CalledAsDue
  <2>2. PICK r \in L!Calls(l_made[l_tried[i].ex]) : IsFor(l_tried[j], r)
    BY <1>3 DEF CalledAsDue
  <2>3. /\ q[1] \in DOMAIN L!Passes /\ L!Passes[q[1]].call = l_tried[i].call
        /\ L!Passes[q[1]].kind = l_tried[i].art.kind
        /\ r[1] \in DOMAIN L!Passes /\ L!Passes[r[1]].call = l_tried[j].call
        /\ L!Passes[r[1]].kind = l_tried[j].art.kind
    BY <1>3, <2>1, <2>2 DEF IsFor, L!Calls
  <2>4. r[1] < q[1]
    BY <1>3, <2>3, PassesDiffer
  <2>5. ~ L!Before(q, r)
    <3>1. q[1] \in Nat /\ r[1] \in Nat
      BY <2>3, EachPass
    <3>. QED BY <2>4, <3>1 DEF L!Before
  <2>6. ~ (i < j) /\ i # j
    BY <1>3, <2>1, <2>2, <2>5 DEF CalledInOrder
  <2>7. i \in Nat /\ j \in Nat
    BY DEF VouchedBeforeRun
  <2>. QED BY <2>6, <2>7
<1>. QED BY <1>1, <1>2, <1>3 DEF NothingForgotten, L!NothingForgotten

(***************************************************************************)
(* However the sinks and the other extractors fare, by the end of a        *)
(* message each artifact has been given once to each sink that is due it,  *)
(* in the order of the passes, and each extractor has one outcome          *)
(* (pipeline/mod.rs run, pipeline/router.rs).                              *)
(***************************************************************************)
THEOREM EverythingIsFiled ==
    ASSUME L!PipelineAssumption
    PROVE  L!Spec => []NothingForgotten
<1>1. L!Init => NothingForgottenInv
  <2>. SUFFICES ASSUME L!Init PROVE NothingForgottenInv
    OBVIOUS
  <2>1. /\ l_tried = <<>> /\ DOMAIN l_tried = {} /\ l_tried \in Seq({l_tried[i] : i \in DOMAIN l_tried})
        /\ l_explain = <<>> /\ DOMAIN l_explain = {} /\ l_explain \in Seq(Outcome)
        /\ l_log = <<>> /\ DOMAIN l_log = {} /\ l_log \in Seq([who : Nat, outcome : Outcome])
    BY DEF L!Init
  <2>2. PipelineInv
    BY <2>1 DEF L!Init, PipelineInv, VouchedBeforeRun, OnlyAuthenticatedFiled, L!OnlyAuthenticatedFiled
  <2>3. OutcomesInOrder
    BY <2>1 DEF L!Init, OutcomesInOrder
  <2>4. LoggedOnce
    BY <2>1 DEF LoggedOnce
  <2>5. CallsInv
    <3>1. QueueInOrder /\ CalledAsDue /\ CalledInOrder
      BY <2>1 DEF L!Init, QueueInOrder, CalledAsDue, CalledInOrder
    <3>2. \A e \in DOMAIN l_made : L!Calls(l_made[e]) = {}
      BY DEF L!Init, L!Calls
    <3>3. AllCalled
      BY <3>2 DEF AllCalled
    <3>. QED BY <3>1, <3>3 DEF CallsInv
  <2>. QED BY <2>2, <2>3, <2>4, <2>5 DEF NothingForgottenInv
<1>2. NothingForgottenInv /\ [L!Next]_(L!vars) => NothingForgottenInv'
  <2>. SUFFICES ASSUME NothingForgottenInv, [L!Next]_(L!vars) PROVE NothingForgottenInv'
    OBVIOUS
  <2>1. OutcomesInOrder' /\ LoggedOnce'
    BY OutcomesStep DEF NothingForgottenInv
  <2>2. CallsInv'
    BY <2>1, CallsStep DEF NothingForgottenInv, PipelineInv
  <2>3. PipelineInv'
    BY PipelineInvStep DEF NothingForgottenInv
  <2>. QED BY <2>1, <2>2, <2>3 DEF NothingForgottenInv
<1>3. NothingForgottenInv => NothingForgotten
  BY CallsComplete
<1>. QED BY <1>1, <1>2, <1>3, PTL DEF L!Spec

-----------------------------------------------------------------------------
(***************************************************************************)
(* ExtractorRun                                                            *)
(***************************************************************************)

RunTypes ==
    /\ e_script \in Scripts
    /\ e_at \in 1 .. Len(e_script)
    /\ e_pipe \in [E!Stream -> 0 .. PipeCapacity]
    /\ e_helper \in [E!Stream -> {"busy", "done"}]

\* While there may be output, it is read.
ReadersStay ==
    e_child = "none" \/ E!Held => e_helper["stdout"] = "busy" /\ e_helper["stderr"] = "busy"

\* How a child ended is what its script says.
EndsAsScripted ==
    /\ e_child # "none" => e_script[1] # "nospawn"
    /\ e_child = "success" => e_script[e_at] = "succeed"
    /\ e_child = "failure" => e_script[e_at] = "fail"
    /\ e_child = "killed" => e_script[e_at] = "hang"

\* What run_one knows of the child.
RunnerKnows ==
    /\ e_child = "none" => e_runner \in {"spawn", "failed"}
    /\ e_runner = "spawn" => e_child = "none" /\ e_lingers = FALSE
    /\ e_runner \in E!Joining \cup {"scan"} => e_child \in {"success", "failure"}
    /\ e_runner = "timed out" => e_child = "killed"
    /\ e_runner = "ok" => e_child = "success" /\ e_found = E!Count("artifact")

RunInv == RunTypes /\ ReadersStay /\ EndsAsScripted /\ RunnerKnows

\* A script has one last operation, and goes on until it has got there.
LEMMA Scripted ==
    ASSUME E!ExtractorRunAssumption, RunTypes
    PROVE  /\ Len(e_script) \in Nat
           /\ e_script[e_at] \in E!Op \cup E!Last
           /\ e_script[e_at] \in E!Last => e_at = Len(e_script)
           /\ e_script[e_at] \notin E!Last => e_at + 1 \in 1 .. Len(e_script)
           /\ e_script[e_at] = "nospawn" => e_script[1] = "nospawn"
<1>1. /\ e_script \in Seq(E!Op \cup E!Last)
      /\ \A i \in 1 .. Len(e_script) : e_script[i] \in E!Last <=> i = Len(e_script)
      /\ e_script[Len(e_script)] = "nospawn" => Len(e_script) = 1
  BY DEF E!ExtractorRunAssumption, RunTypes
<1>2. Len(e_script) \in Nat /\ e_at \in 1 .. Len(e_script)
  BY <1>1 DEF RunTypes
<1>3. e_script[e_at] \in E!Op \cup E!Last
  BY <1>1, <1>2, ElementOfSeq
<1>4. e_script[e_at] \in E!Last <=> e_at = Len(e_script)
  BY <1>1, <1>2
<1>5. e_at # Len(e_script) => e_at + 1 \in 1 .. Len(e_script)
  BY <1>2
<1>6. e_script[e_at] = "nospawn" => e_script[1] = "nospawn"
  BY <1>1, <1>4 DEF E!Last
<1>. QED BY <1>2, <1>3, <1>4, <1>5, <1>6

\* A child that is blocked for ever while nobody reads or writes hangs.
LEMMA OnlyHangBlocks ==
    ASSUME E!ExtractorRunAssumption, RunInv, e_child = "running",
           E!Blocks(e_script[e_at]), ~ E!HelpersBusy
    PROVE  e_script[e_at] = "hang"
<1>. USE DEF RunInv, E!Stream
<1>0. PipeCapacity \in Nat /\ PipeCapacity > 0 /\ E!Held
  BY DEF E!ExtractorRunAssumption, E!Held
<1>1. CASE e_script[e_at] \in {"stdout", "stderr"}
  <2>1. e_pipe[e_script[e_at]] = PipeCapacity
    BY <1>1 DEF E!Blocks
  <2>2. e_helper[e_script[e_at]] = "busy"
    BY <1>0, <1>1 DEF ReadersStay
  <2>3. E!CanDrain(e_script[e_at])
    BY <1>0, <2>1, <2>2 DEF E!CanDrain
  <2>. QED BY <1>1, <2>3 DEF E!HelpersBusy
<1>2. CASE e_script[e_at] = "read"
  <2>1. e_pipe["stdin"] = 0 /\ e_helper["stdin"] = "busy"
    BY <1>2 DEF E!Blocks
  <2>2. E!CanWrite
    BY <1>0, <2>1 DEF E!CanWrite
  <2>. QED BY <2>2 DEF E!HelpersBusy
<1>3. CASE e_script[e_at] \notin {"read", "stdout", "stderr"}
  BY <1>3 DEF E!Blocks
<1>. QED BY <1>1, <1>2, <1>3

LEMMA RunTypesStep ==
    ASSUME E!ExtractorRunAssumption, RunTypes, [E!Next]_(E!vars)
    PROVE  RunTypes'
<1>. USE DEF RunTypes, E!Stream, E!Goto
<1>0. /\ PipeCapacity \in Nat
      /\ e_script[e_at] \notin E!Last => e_at + 1 \in 1 .. Len(e_script)
  BY Scripted DEF E!ExtractorRunAssumption
<1>1. CASE E!Read
  <2>1. e_script[e_at] = "read" /\ e_at' = e_at + 1 /\ e_script' = e_script /\ e_helper' = e_helper
    BY <1>1 DEF E!Read, E!Does
  <2>2. e_at' \in 1 .. Len(e_script)
    BY <1>0, <2>1 DEF E!Last
  <2>3. e_pipe' \in [E!Stream -> 0 .. PipeCapacity]
    BY <1>0, <1>1 DEF E!Read
  <2>. QED BY <2>1, <2>2, <2>3
<1>2. ASSUME NEW s \in {"stdout", "stderr"}, E!Write(s) PROVE RunTypes'
  <2>1. e_script[e_at] = s /\ e_at' = e_at + 1 /\ e_script' = e_script /\ e_helper' = e_helper
    BY <1>2 DEF E!Write, E!Does
  <2>2. e_at' \in 1 .. Len(e_script)
    BY <1>0, <2>1 DEF E!Last
  <2>3. e_pipe' \in [E!Stream -> 0 .. PipeCapacity]
    BY <1>0, <1>2 DEF E!Write, E!Does, E!Blocks
  <2>. QED BY <2>1, <2>2, <2>3
<1>3. CASE E!WriteFile \/ E!Fork
  <2>1. /\ e_script[e_at] \in {"artifact", "unknown", "badmanifest", "fork"}
        /\ e_at' = e_at + 1
        /\ UNCHANGED <<e_script, e_helper, e_pipe>>
    BY <1>3 DEF E!WriteFile, E!Fork, E!Does
  <2>2. e_at' \in 1 .. Len(e_script)
    BY <1>0, <2>1 DEF E!Last
  <2>. QED BY <2>1, <2>2
<1>4. CASE E!write_all
  <2>1. UNCHANGED <<e_script, e_at>>
    BY <1>4 DEF E!write_all
  <2>2. e_pipe' \in [E!Stream -> 0 .. PipeCapacity] /\ e_helper' \in [E!Stream -> {"busy", "done"}]
    BY <1>0, <1>4 DEF E!write_all, E!CanWrite
  <2>. QED BY <2>1, <2>2
<1>5. ASSUME NEW s \in {"stdout", "stderr"}, E!drain(s) PROVE RunTypes'
  <2>1. UNCHANGED <<e_script, e_at>>
    BY <1>5 DEF E!drain
  <2>2. e_pipe' \in [E!Stream -> 0 .. PipeCapacity] /\ e_helper' \in [E!Stream -> {"busy", "done"}]
    BY <1>0, <1>5 DEF E!drain, E!CanDrain
  <2>. QED BY <2>1, <2>2
<1>6. CASE E!Exit \/ E!Linger \/ E!Runner \/ E!Over \/ UNCHANGED E!vars
  BY <1>6 DEF E!Exit, E!Linger, E!Runner, E!spawn, E!wait_timeout, E!kill, E!join_helpers,
              E!join, E!scan, E!Over, E!vars
<1>. QED
  BY <1>1, <1>2, <1>3, <1>4, <1>5, <1>6 DEF E!Next, E!Child, E!Helpers

LEMMA ReadersStayStep ==
    ASSUME RunInv, [E!Next]_(E!vars)
    PROVE  ReadersStay'
<1>. USE DEF RunInv, RunTypes, ReadersStay, E!Held, E!Goto
<1>1. CASE E!Child \/ E!Linger
  BY <1>1 DEF E!Child, E!Read, E!Write, E!WriteFile, E!Fork, E!Exit, E!Does, E!Linger
<1>2. CASE E!write_all
  BY <1>2 DEF E!write_all, E!CanWrite, E!Stream
<1>3. ASSUME NEW s \in {"stdout", "stderr"}, E!drain(s) PROVE ReadersStay'
  BY <1>3 DEF E!drain, E!CanDrain, E!Stream
<1>4. CASE E!Runner \/ E!Over \/ UNCHANGED E!vars
  BY <1>4 DEF E!Runner, E!spawn, E!wait_timeout, E!kill, E!join_helpers, E!join, E!scan,
              E!Over, E!vars, RunnerKnows
<1>. QED BY <1>1, <1>2, <1>3, <1>4 DEF E!Next, E!Helpers

LEMMA EndsAsScriptedStep ==
    ASSUME E!ExtractorRunAssumption, RunInv, [E!Next]_(E!vars)
    PROVE  EndsAsScripted'
<1>. USE DEF RunInv, EndsAsScripted, E!Goto
<1>1. CASE E!Child
  BY <1>1 DEF E!Child, E!Read, E!Write, E!WriteFile, E!Fork, E!Exit, E!Does
<1>2. CASE E!Linger \/ E!Helpers \/ E!Over \/ UNCHANGED E!vars
  BY <1>2 DEF E!Linger, E!Helpers, E!write_all, E!drain, E!Over, E!vars
<1>3. CASE E!kill
  BY <1>3, OnlyHangBlocks DEF E!kill
<1>4. CASE E!wait_timeout \/ E!join_helpers \/ E!scan
  BY <1>4 DEF E!wait_timeout, E!join_helpers, E!join, E!scan
<1>5. CASE E!spawn
  <2>1. e_child = "none" /\ UNCHANGED <<e_script, e_at>>
    BY <1>5 DEF E!spawn, RunnerKnows
  <2>2. (e_child' = "running" /\ e_script[1] # "nospawn") \/ e_child' = "none"
    BY <1>5, <2>1 DEF E!spawn
  <2>. QED BY <2>1, <2>2
<1>. QED BY <1>1, <1>2, <1>3, <1>4, <1>5 DEF E!Next, E!Runner

LEMMA RunnerKnowsStep ==
    ASSUME RunInv, [E!Next]_(E!vars)
    PROVE  RunnerKnows'
<1>. USE DEF RunInv, RunnerKnows, E!Goto, E!Joining, E!Count
<1>1. CASE E!Child \/ E!Linger
  BY <1>1 DEF E!Child, E!Read, E!Write, E!WriteFile, E!Fork, E!Exit, E!Does, E!Linger
<1>2. CASE E!Helpers \/ E!Over \/ UNCHANGED E!vars
  BY <1>2 DEF E!Helpers, E!write_all, E!drain, E!Over, E!vars
<1>3. CASE E!spawn \/ E!wait_timeout \/ E!kill
  BY <1>3 DEF E!spawn, E!wait_timeout, E!kill
<1>4. CASE E!join_helpers \/ E!scan
  BY <1>4 DEF E!join_helpers, E!join, E!scan
<1>. QED BY <1>1, <1>2, <1>3, <1>4 DEF E!Next, E!Runner

(***************************************************************************)
(* However much the child writes, however little it reads and whatever the *)
(* pipes hold, only a child that hangs is killed, and a run returns either *)
(* all the child wrote or nothing (extractor.rs run_one, artifacts.rs      *)
(* scan).                                                                  *)
(***************************************************************************)
THEOREM ChildDecides ==
    ASSUME E!ExtractorRunAssumption
    PROVE  E!Spec => []OutcomeIsTheChilds
<1>1. E!Init => RunInv
  <2>. SUFFICES ASSUME E!Init PROVE RunInv
    OBVIOUS
  <2>1. e_at \in 1 .. Len(e_script)
    <3>1. e_script \in Seq(E!Op \cup E!Last) /\ e_script # <<>> /\ e_at = 1
      BY DEF E!Init, E!ExtractorRunAssumption
    <3>2. Len(e_script) \in Nat /\ Len(e_script) # 0
      BY <3>1, EmptySeq
    <3>. QED BY <3>1, <3>2
  <2>2. RunTypes
    BY <2>1 DEF E!Init, RunTypes, E!ExtractorRunAssumption
  <2>3. ReadersStay /\ EndsAsScripted /\ RunnerKnows
    BY DEF E!Init, ReadersStay, EndsAsScripted, RunnerKnows, E!Stream, E!Joining, E!Held
  <2>. QED BY <2>2, <2>3 DEF RunInv
<1>2. RunInv /\ [E!Next]_(E!vars) => RunInv'
  BY RunTypesStep, ReadersStayStep, EndsAsScriptedStep, RunnerKnowsStep DEF RunInv
<1>3. RunInv => OutcomeIsTheChilds
  <2>. SUFFICES ASSUME RunInv PROVE OutcomeIsTheChilds
    OBVIOUS
  <2>1. e_runner = "timed out" => e_script[e_at] = "hang"
    BY DEF RunInv, RunnerKnows, EndsAsScripted
  <2>2. ASSUME e_runner = "ok"
        PROVE  /\ e_at = Len(e_script) /\ e_script[e_at] = "succeed"
               /\ e_found = E!Count("artifact")
    <3>1. e_child = "success" /\ e_found = E!Count("artifact")
      BY <2>2 DEF RunInv, RunnerKnows
    <3>2. e_script[e_at] = "succeed"
      BY <3>1 DEF RunInv, EndsAsScripted
    <3>3. e_at = Len(e_script)
      BY <3>2, Scripted DEF RunInv, E!Last
    <3>. QED BY <3>1, <3>2, <3>3
  <2>. QED
    BY <2>1, <2>2
    DEF OutcomeIsTheChilds, E!OutcomeIsTheChilds, E!OnlyHungIsKilled, E!AllOrNothing
<1>. QED BY <1>1, <1>2, <1>3, PTL DEF E!Spec
-----------------------------------------------------------------------------
(***************************************************************************)
(* Stats                                                                   *)
(***************************************************************************)

Recorded == [id : Nat, ts : Nat]

FilesTyped == s_files \in Seq(SUBSET Recorded)

\* Whoever prunes or writes has a file to do it to.
HaveFiles ==
    /\ s_path \in 0 .. Len(s_files)
    /\ s_open \in [Writer -> 0 .. Len(s_files)]
    /\ DOMAIN s_writer = Writer
    /\ \A w \in Writer : s_writer[w] \in {"check stamp", "stamp"} => s_path # 0
    /\ \A w \in Writer : s_writer[w] \in {"read", "write"} => s_open[w] # 0

EventsTyped ==
    /\ s_now \in Nat /\ s_events \in Nat
    /\ s_event \in [Writer -> Recorded]
    /\ s_copy \in [Writer -> SUBSET Recorded]
    /\ s_recorded \subseteq Recorded
    /\ \A w \in Writer : s_event[w].ts <= s_now

StatsTypes == FilesTyped /\ HaveFiles /\ EventsTyped

\* An event is where it can be found, now and after the prunes under way.
Safe(e) ==
    /\ e \in S!Log
    /\ \A w \in Writer :
          /\ s_writer[w] = "read" => e \in s_files[s_open[w]]
          /\ s_writer[w] = "rename" => e \in s_copy[w]

PrunesKeep ==
    \A e \in s_recorded \ s_overtaken : e.ts + RETENTION >= s_now => Safe(e)

StatsInv == StatsTypes /\ PrunesKeep

LEMMA StatsInvInit ==
    ASSUME S!Init
    PROVE  StatsInv
<1>1. /\ s_files = <<>> /\ Len(s_files) = 0
      /\ FilesTyped
  BY DEF S!Init, FilesTyped
<1>2. HaveFiles
  BY <1>1 DEF S!Init, HaveFiles
<1>3. EventsTyped /\ PrunesKeep
  BY DEF S!Init, EventsTyped, PrunesKeep, Recorded
<1>. QED BY <1>1, <1>2, <1>3 DEF StatsInv, StatsTypes

LEMMA UpTo ==
    ASSUME NEW n \in Nat
    PROVE  /\ \A k \in 0 .. n : k # 0 => k \in 1 .. n
           /\ \A m \in Nat : n <= m => 0 .. n \subseteq 0 .. m /\ 1 .. n \subseteq 1 .. m
           /\ n + 1 \in 1 .. (n + 1) /\ 1 .. n \subseteq 0 .. n
           /\ \A k \in 1 .. n : k # 0
OBVIOUS

LEMMA StatsNumbers ==
    ASSUME StatsTypes
    PROVE  /\ Len(s_files) \in Nat
           /\ \A w \in Writer : s_event[w].ts \in Nat
           /\ \A w \in Writer : s_open[w] # 0 => s_open[w] \in 1 .. Len(s_files)
           /\ s_path # 0 => s_path \in 1 .. Len(s_files)
<1>1. Len(s_files) \in Nat
  BY DEF StatsTypes, FilesTyped
<1>2. \A w \in Writer : s_event[w].ts \in Nat
  BY DEF StatsTypes, EventsTyped, Recorded
<1>3. \A w \in Writer : s_open[w] # 0 => s_open[w] \in 1 .. Len(s_files)
  <2>1. s_open \in [Writer -> 0 .. Len(s_files)]
    BY DEF StatsTypes, HaveFiles
  <2>. QED BY <1>1, <2>1, UpTo
<1>4. s_path # 0 => s_path \in 1 .. Len(s_files)
  <2>1. s_path \in 0 .. Len(s_files)
    BY DEF StatsTypes, HaveFiles
  <2>. QED BY <1>1, <2>1, UpTo
<1>. QED BY <1>1, <1>2, <1>3, <1>4

\* What a new file changes.
LEMMA NewFile ==
    ASSUME StatsTypes
    PROVE  \A f \in SUBSET Recorded :
             s_files' = Append(s_files, f) =>
               /\ FilesTyped'
               /\ Len(s_files') = Len(s_files) + 1
               /\ s_files'[Len(s_files) + 1] = f
               /\ \A k \in 1 .. Len(s_files) : s_files'[k] = s_files[k]
BY AppendProperties DEF StatsTypes, FilesTyped

\* What a line that is written changes.
LEMMA WrittenFile ==
    ASSUME StatsTypes, NEW w \in Writer, S!Write(w)
    PROVE  /\ FilesTyped'
           /\ Len(s_files') = Len(s_files)
           /\ s_open[w] \in 1 .. Len(s_files) /\ s_event[w] \in s_files'[s_open[w]]
           /\ \A k \in 1 .. Len(s_files) : s_files[k] \subseteq s_files'[k]
<1>. DEFINE f == s_files[s_open[w]] \cup {s_event[w]}
<1>1. s_open[w] # 0
  BY DEF S!Write, StatsTypes, HaveFiles
<1>2. s_open[w] \in 1 .. Len(s_files)
  BY <1>1, StatsNumbers
<1>3. s_event[w] \in Recorded
  BY DEF StatsTypes, EventsTyped
<1>4. s_files \in Seq(SUBSET Recorded)
  BY DEF StatsTypes, FilesTyped
<1>5. s_files[s_open[w]] \in SUBSET Recorded
  BY <1>2, <1>4, ElementOfSeq
<1>6. /\ s_files' = [s_files EXCEPT ![s_open[w]] = f]
      /\ f \in SUBSET Recorded /\ s_files[s_open[w]] \subseteq f /\ s_event[w] \in f
  BY <1>3, <1>5 DEF S!Write
<1>. HIDE DEF f
<1>7. /\ s_files' \in Seq(SUBSET Recorded) /\ Len(s_files') = Len(s_files)
      /\ \A k \in 1 .. Len(s_files) :
            s_files'[k] = IF k = s_open[w] THEN f ELSE s_files[k]
  BY <1>2, <1>4, <1>6, ExceptSeq
<1>. QED BY <1>2, <1>6, <1>7 DEF FilesTyped

\* The files are only added to: a path that leads to one goes on doing so.
LEMMA FilesStep ==
    ASSUME StatsTypes, [S!Next]_(S!vars)
    PROVE  FilesTyped' /\ Len(s_files') \in Nat /\ Len(s_files) <= Len(s_files')
<1>0. /\ Len(s_files) \in Nat /\ s_files \in Seq(SUBSET Recorded)
      /\ \A w \in Writer : s_open[w] # 0 => s_open[w] \in 1 .. Len(s_files)
  BY StatsNumbers DEF StatsTypes, FilesTyped
<1>2. CASE UNCHANGED s_files
  BY <1>0, <1>2 DEF FilesTyped
<1>3. ASSUME NEW w \in Writer, S!Rename(w)
      PROVE  FilesTyped' /\ Len(s_files') \in Nat /\ Len(s_files) <= Len(s_files')
  <2>1. s_files' = Append(s_files, s_copy[w]) /\ s_copy[w] \in SUBSET Recorded
    BY <1>3 DEF S!Rename, StatsTypes, EventsTyped
  <2>2. FilesTyped' /\ Len(s_files') = Len(s_files) + 1
    BY <2>1, NewFile
  <2>. QED BY <1>0, <2>2
<1>4. ASSUME NEW w \in Writer, S!OpenLog(w)
      PROVE  FilesTyped' /\ Len(s_files') \in Nat /\ Len(s_files) <= Len(s_files')
  <2>1. CASE s_files' = Append(s_files, {})
    <3>1. FilesTyped' /\ Len(s_files') = Len(s_files) + 1
      BY <2>1, NewFile
    <3>. QED BY <1>0, <3>1
  <2>2. s_files' = Append(s_files, {}) \/ UNCHANGED s_files
    BY <1>4 DEF S!OpenLog
  <2>. QED BY <1>2, <2>1, <2>2
<1>5. ASSUME NEW w \in Writer, S!Write(w)
      PROVE  FilesTyped' /\ Len(s_files') \in Nat /\ Len(s_files) <= Len(s_files')
  BY <1>0, <1>5, WrittenFile
<1>6. CASE S!Tick \/ S!Done \/ UNCHANGED S!vars
  BY <1>2, <1>6 DEF S!Tick, S!Done, S!vars
<1>7. ASSUME NEW w \in Writer,
             \/ S!record(w) \/ S!CheckSize(w) \/ S!CheckStamp(w)
             \/ S!Stamp(w) \/ S!ReadLog(w) \/ S!PruneFails(w)
      PROVE  UNCHANGED s_files
  BY <1>7 DEF S!record, S!CheckSize, S!CheckStamp, S!Stamp, S!ReadLog, S!PruneFails
<1>. QED
  BY <1>2, <1>3, <1>4, <1>5, <1>6, <1>7 DEF S!Next, S!append_event

LEMMA HaveFilesStep ==
    ASSUME StatsTypes, [S!Next]_(S!vars)
    PROVE  HaveFiles'
<1>. DEFINE n == Len(s_files)
            n2 == Len(s_files')
<1>0. /\ n \in Nat /\ n2 \in Nat
      /\ 0 .. n \subseteq 0 .. n2 /\ 1 .. n \subseteq 1 .. n2
      /\ n + 1 \in 1 .. (n + 1) /\ n2 \in Nat
      /\ 1 .. n2 \subseteq 0 .. n2 /\ \A k \in 1 .. n2 : k # 0
  <2>1. n \in Nat /\ n2 \in Nat /\ n <= n2
    BY FilesStep, StatsNumbers
  <2>. HIDE DEF n, n2
  <2>. QED BY <2>1, UpTo
<1>. USE DEF StatsTypes, HaveFiles, S!Goto
<1>1. ASSUME NEW w \in Writer, S!Rename(w) PROVE HaveFiles'
  <2>1. s_copy[w] \in SUBSET Recorded
    BY DEF EventsTyped
  <2>2. n2 = n + 1 /\ s_path' = n + 1
    BY <1>1, <2>1, NewFile DEF S!Rename
  <2>3. s_path' \in 0 .. n2 /\ s_path' # 0 /\ s_open' \in [Writer -> 0 .. n2]
    <3>. HIDE DEF n, n2
    <3>1. s_open \in [Writer -> 0 .. n] /\ s_open' = s_open
      BY <1>1 DEF n, S!Rename
    <3>. QED BY <1>0, <2>2, <3>1
  <2>. QED BY <1>1, <2>3 DEF S!Rename
<1>2. ASSUME NEW w \in Writer, S!OpenLog(w) PROVE HaveFiles'
  <2>1. s_path' \in 1 .. n2
    <3>1. CASE s_path = 0
      <4>1. s_path' = n + 1 /\ n2 = n + 1
        <5>1. s_files' = Append(s_files, {}) /\ s_path' = n + 1
          BY <1>2, <3>1 DEF S!OpenLog
        <5>2. {} \in SUBSET Recorded
          OBVIOUS
        <5>3. Len(s_files') = Len(s_files) + 1
          BY <5>1, <5>2, NewFile
        <5>. QED BY <5>1, <5>3
      <4>. HIDE DEF n, n2
      <4>. QED BY <1>0, <4>1
    <3>2. CASE s_path # 0
      <4>1. s_path' = s_path /\ s_path \in 1 .. n
        BY <1>2, <3>2, StatsNumbers DEF S!OpenLog
      <4>. QED BY <1>0, <4>1
    <3>. QED BY <3>1, <3>2
  <2>2. s_open \in [Writer -> 0 .. n] /\ s_open' = [s_open EXCEPT ![w] = s_path']
    BY <1>2 DEF S!OpenLog
  <2>3. /\ s_path' \in 0 .. n2 /\ s_path' # 0
        /\ s_open' \in [Writer -> 0 .. n2] /\ s_open'[w] # 0
    <3>. HIDE DEF n, n2
    <3>. QED BY <1>0, <2>1, <2>2
  <2>. QED BY <1>2, <2>2, <2>3 DEF S!OpenLog
<1>3. ASSUME NEW w \in Writer, S!Write(w) PROVE HaveFiles'
  <2>1. n2 = n
    BY <1>3, WrittenFile
  <2>. QED BY <1>3, <2>1 DEF S!Write
<1>4. ASSUME UNCHANGED s_files,
             S!Tick \/ S!Done \/ UNCHANGED S!vars
      PROVE  HaveFiles'
  BY <1>4 DEF S!Tick, S!Done, S!vars
<1>5. ASSUME NEW w \in Writer,
             \/ S!record(w) \/ S!CheckSize(w) \/ S!CheckStamp(w)
             \/ S!ReadLog(w) \/ S!PruneFails(w)
      PROVE  HaveFiles'
  BY <1>5 DEF S!record, S!CheckSize, S!CheckStamp, S!ReadLog, S!PruneFails
<1>6. ASSUME NEW w \in Writer, S!Stamp(w) PROVE HaveFiles'
  BY <1>6 DEF S!Stamp
<1>. QED
  BY <1>1, <1>2, <1>3, <1>4, <1>5, <1>6 DEF S!Next, S!append_event, S!Tick, S!Done, S!vars

LEMMA EventsStep ==
    ASSUME StatsTypes, [S!Next]_(S!vars)
    PROVE  EventsTyped'
<1>. USE DEF EventsTyped
<1>0. EventsTyped /\ \A w \in Writer : s_event[w].ts \in Nat
  BY StatsNumbers DEF StatsTypes
<1>1. CASE S!Tick
  BY <1>0, <1>1 DEF S!Tick
<1>2. ASSUME NEW w \in Writer, S!record(w) PROVE EventsTyped'
  <2>. DEFINE e == [id |-> s_events + 1, ts |-> s_now]
  <2>1. e \in Recorded /\ e.ts = s_now
    BY <1>0 DEF Recorded
  <2>2. s_event' = [s_event EXCEPT ![w] = e] /\ s_events' = s_events + 1
    BY <1>2 DEF S!record
  <2>. HIDE DEF e
  <2>3. s_event' \in [Writer -> Recorded] /\ \A v \in Writer : s_event'[v].ts <= s_now
    BY <1>0, <2>1, <2>2
  <2>4. s_now' = s_now /\ s_copy' = s_copy /\ s_recorded' = s_recorded
    BY <1>2 DEF S!record
  <2>. QED BY <1>0, <2>2, <2>3, <2>4
<1>3. ASSUME NEW w \in Writer, S!ReadLog(w) PROVE EventsTyped'
  <2>1. s_open[w] \in 1 .. Len(s_files)
    BY <1>3, StatsNumbers DEF S!ReadLog, StatsTypes, HaveFiles
  <2>2. s_files[s_open[w]] \subseteq Recorded
    BY <2>1, ElementOfSeq DEF StatsTypes, FilesTyped
  <2>3. {e \in s_files[s_open[w]] : ~ S!Expired(e, s_event[w].ts)} \subseteq Recorded
    BY <2>2
  <2>. QED BY <1>0, <1>3, <2>3 DEF S!ReadLog
<1>4. ASSUME NEW w \in Writer, S!Write(w) PROVE EventsTyped'
  BY <1>0, <1>4 DEF S!Write
<1>5. ASSUME NEW w \in Writer,
             \/ S!CheckSize(w) \/ S!CheckStamp(w) \/ S!PruneFails(w)
             \/ S!Stamp(w) \/ S!Rename(w) \/ S!OpenLog(w)
      PROVE  EventsTyped'
  BY <1>0, <1>5 DEF S!CheckSize, S!CheckStamp, S!PruneFails, S!Stamp, S!Rename, S!OpenLog
<1>6. CASE UNCHANGED S!vars
  BY <1>0, <1>6 DEF S!vars
<1>. QED
  BY <1>1, <1>2, <1>3, <1>4, <1>5, <1>6 DEF S!Next, S!append_event, S!Done

LEMMA PrunesKeepStep ==
    ASSUME S!StatsAssumption, StatsInv, [S!Next]_(S!vars)
    PROVE  PrunesKeep'
<1>. USE DEF StatsInv, StatsTypes, PrunesKeep, S!Goto
<1>0. /\ Len(s_files) \in Nat
      /\ \A w \in Writer : s_event[w].ts \in Nat
      /\ \A w \in Writer : s_open[w] # 0 => s_open[w] \in 1 .. Len(s_files)
      /\ s_path # 0 => s_path \in 1 .. Len(s_files)
  BY StatsNumbers
<1>1. CASE S!Tick
  <2>1. \A e \in Recorded : e.ts + RETENTION >= s_now' => e.ts + RETENTION >= s_now
    <3>1. s_now \in Nat /\ s_now' = s_now + 1 /\ RETENTION \in Nat
      BY <1>1 DEF S!Tick, EventsTyped, S!StatsAssumption
    <3>. QED BY <3>1 DEF Recorded
  <2>. QED BY <1>1, <2>1 DEF S!Tick, Safe, S!Log, HaveFiles, FilesTyped, EventsTyped
\* These leave alone what anybody reads.
<1>2. ASSUME NEW w \in Writer,
             S!record(w) \/ S!CheckSize(w) \/ S!CheckStamp(w) \/ S!PruneFails(w)
      PROVE  PrunesKeep'
  BY <1>2 DEF S!record, S!CheckSize, S!CheckStamp, S!PruneFails, Safe, S!Log, HaveFiles, FilesTyped, EventsTyped
\* The log is opened for pruning: it has everything.
<1>3. ASSUME NEW w \in Writer, S!Stamp(w) PROVE PrunesKeep'
  BY <1>3 DEF S!Stamp, Safe, S!Log, HaveFiles, FilesTyped, EventsTyped
\* Nothing recent expires: the time of the pruner's event has passed.
<1>4. ASSUME NEW w \in Writer, S!ReadLog(w) PROVE PrunesKeep'
  <2>. SUFFICES ASSUME NEW e \in s_recorded \ s_overtaken, e.ts + RETENTION >= s_now
                PROVE  Safe(e)'
    BY <1>4 DEF S!ReadLog
  <2>1. Safe(e)
    OBVIOUS
  <2>2. ~ S!Expired(e, s_event[w].ts)
    <3>1. /\ e.ts \in Nat /\ s_now \in Nat /\ RETENTION \in Nat
          /\ s_event[w].ts \in Nat /\ s_event[w].ts <= s_now
      BY <1>0 DEF EventsTyped, Recorded, S!StatsAssumption
    <3>. QED BY <3>1 DEF S!Expired
  <2>3. e \in s_copy'[w]
    BY <1>4, <2>1, <2>2 DEF S!ReadLog, Safe, HaveFiles, FilesTyped, EventsTyped
  <2>. QED BY <1>4, <2>1, <2>3 DEF S!ReadLog, Safe, S!Log, HaveFiles, FilesTyped, EventsTyped
<1>5. ASSUME NEW w \in Writer, S!Rename(w) PROVE PrunesKeep'
  <2>1. /\ s_files' = Append(s_files, s_copy[w]) /\ s_path' = Len(s_files) + 1
        /\ s_files'[s_path'] = s_copy[w] /\ s_path' # 0
        /\ \A k \in 1 .. Len(s_files) : s_files'[k] = s_files[k]
    <3>1. s_copy[w] \in SUBSET Recorded
      BY DEF EventsTyped
    <3>2. s_files' = Append(s_files, s_copy[w]) /\ s_path' = Len(s_files) + 1
      BY <1>5 DEF S!Rename
    <3>. QED BY <1>0, <3>1, <3>2, NewFile
  <2>2. \A v \in Writer : s_writer[v] = "read" => s_open[v] \in 1 .. Len(s_files)
    BY <1>0 DEF HaveFiles
  <2>3. \A v \in Writer : s_writer'[v] \in {"read", "rename"} => s_writer'[v] = s_writer[v]
    BY <1>5 DEF S!Rename, HaveFiles
  <2>4. UNCHANGED <<s_now, s_recorded, s_overtaken, s_open, s_copy>>
    BY <1>5 DEF S!Rename
  <2>. SUFFICES ASSUME NEW e \in s_recorded \ s_overtaken, e.ts + RETENTION >= s_now
                PROVE  Safe(e)'
    BY <2>4
  <2>5. Safe(e)
    OBVIOUS
  <2>6. e \in S!Log'
    BY <1>5, <2>1, <2>5 DEF Safe, S!Log, S!Rename
  <2>7. ASSUME NEW v \in Writer, s_writer'[v] = "read" PROVE e \in s_files'[s_open'[v]]
    BY <2>1, <2>2, <2>3, <2>4, <2>5, <2>7 DEF Safe
  <2>8. ASSUME NEW v \in Writer, s_writer'[v] = "rename" PROVE e \in s_copy'[v]
    BY <2>3, <2>4, <2>5, <2>8 DEF Safe
  <2>. QED BY <2>6, <2>7, <2>8 DEF Safe
<1>6. ASSUME NEW w \in Writer, S!OpenLog(w) PROVE PrunesKeep'
  <2>1. CASE s_path = 0
    <3>1. \A e \in s_recorded \ s_overtaken : ~ (e.ts + RETENTION >= s_now)
      BY <2>1 DEF Safe, S!Log
    <3>. QED BY <1>6, <3>1 DEF S!OpenLog
  <2>2. CASE s_path # 0
    BY <1>6, <2>2 DEF S!OpenLog, Safe, S!Log, HaveFiles, FilesTyped, EventsTyped
  <2>. QED BY <2>1, <2>2
\* What is written stays in every file, and the new event is in the log unless
\* it was overtaken.
<1>7. ASSUME NEW w \in Writer, S!Write(w) PROVE PrunesKeep'
  <2>1. \A k \in 1 .. Len(s_files) : s_files[k] \subseteq s_files'[k]
    BY <1>7, WrittenFile
  <2>2. s_open[w] \in 1 .. Len(s_files) /\ s_event[w] \in s_files'[s_open[w]]
    BY <1>7, WrittenFile
  <2>3. \A e : Safe(e) => Safe(e)'
    <3>. SUFFICES ASSUME NEW e, Safe(e) PROVE Safe(e)'
      OBVIOUS
    <3>1. e \in S!Log'
      BY <1>0, <1>7, <2>1 DEF S!Write, Safe, S!Log
    <3>2. ASSUME NEW v \in Writer, s_writer'[v] = "read" PROVE e \in s_files'[s_open'[v]]
      <4>1. s_writer[v] = "read" /\ s_open'[v] = s_open[v] /\ s_open[v] \in 1 .. Len(s_files)
        BY <1>0, <1>7, <3>2 DEF S!Write, HaveFiles, FilesTyped, EventsTyped
      <4>. QED BY <2>1, <4>1 DEF Safe
    <3>3. ASSUME NEW v \in Writer, s_writer'[v] = "rename" PROVE e \in s_copy'[v]
      BY <1>7, <3>3 DEF S!Write, Safe, HaveFiles, FilesTyped, EventsTyped
    <3>. QED BY <3>1, <3>2, <3>3 DEF Safe
  <2>4. ~ S!Overtaken(w) => Safe(s_event[w])'
    BY <1>7, <2>2 DEF S!Write, Safe, S!Log, S!Overtaken, HaveFiles, FilesTyped, EventsTyped
  <2>5. /\ s_recorded' = s_recorded \cup {s_event[w]}
        /\ s_overtaken' = IF S!Overtaken(w) THEN s_overtaken \cup {s_event[w]} ELSE s_overtaken
        /\ s_now' = s_now
        /\ s_event' = s_event
    BY <1>7 DEF S!Write
  <2>. QED BY <2>3, <2>4, <2>5
<1>8. CASE UNCHANGED S!vars
  BY <1>8 DEF S!vars, Safe, S!Log
<1>. QED
  BY <1>1, <1>2, <1>3, <1>4, <1>5, <1>6, <1>7, <1>8 DEF S!Next, S!append_event, S!Done

(***************************************************************************)
(* However many threads append, and prune at once, an event stays in the   *)
(* log for RETENTION unless a prune overtook its append (stats.rs          *)
(* append_event, prune).                                                   *)
(***************************************************************************)
THEOREM RecentEventsStay ==
    ASSUME S!StatsAssumption
    PROVE  S!Spec => []RecentStayOnFile
<1>1. S!Init => StatsInv
  BY StatsInvInit
<1>2. StatsInv /\ [S!Next]_(S!vars) => StatsInv'
  BY FilesStep, HaveFilesStep, EventsStep, PrunesKeepStep DEF StatsInv, StatsTypes
<1>3. StatsInv => RecentStayOnFile
  BY DEF StatsInv, PrunesKeep, Safe, RecentStayOnFile, S!RecentStayOnFile
<1>. QED BY <1>1, <1>2, <1>3, PTL DEF S!Spec


-----------------------------------------------------------------------------
(***************************************************************************)
(* Startup                                                                 *)
(***************************************************************************)

\* What is still to do after each phase.
PastFirefly == {"running"}
PastTrackers == {"firefly"} \cup PastFirefly
PastTickets == {"trackers"} \cup PastTrackers
PastReceipts == {"tickets"} \cup PastTickets
PastExtractors == {"receipts"} \cup PastReceipts
PastEvents == {"extractors"} \cup PastExtractors
PastLoad == {"events"} \cup PastEvents

\* What each phase leaves behind: the configuration is accepted, the target
\* is the one asked for, and if the command line asks for none, all that the
\* configuration needed has been there; a failure is then its own.
LoadDone == <<"config", "file">> \notin u_run.wrong /\ U!validate(u_run.config)
EventsDone ==
    /\ U!AsAsked("events")
    /\ U!NoTargetFlags => u_run.config.events # {} /\ U!ServerReady(u_run.config, "events")
ReceiptsDone ==
    /\ U!AsAsked("receipts")
    /\ U!NoTargetFlags =>
          U!ServerReady(u_run.config, "receipts") /\ U!ForwarderReady(u_run.config)
TicketsDone ==
    /\ U!AsAsked("tickets")
    /\ U!NoTargetFlags => U!ServerReady(u_run.config, "tickets")
TrackersDone == U!NoTargetFlags => U!TrackersReady(u_run.config)
FireflyDone == U!NoTargetFlags => U!FireflyReady(u_run.config)

\* What is not reached yet has no sink.
NotYet ==
    /\ u_phase \in {"load", "events", "extractors", "receipts"} => u_sinks["receipts"] = Nothing
    /\ u_phase \in {"load", "events", "extractors", "receipts", "tickets"} =>
          u_sinks["tickets"] = Nothing

Progress ==
    /\ u_phase \in {"load", "failed"} \cup PastLoad
    /\ u_phase \in PastLoad => LoadDone
    /\ u_phase \in PastEvents => EventsDone
    /\ u_phase \in PastExtractors => u_run.extractors = "found"
    /\ u_phase \in PastReceipts => ReceiptsDone
    /\ u_phase \in PastTickets => TicketsDone
    /\ u_phase \in PastTrackers => TrackersDone
    /\ u_phase \in PastFirefly => FireflyDone
    /\ u_phase = "failed" /\ U!NoTargetFlags => ~ U!Complete(u_run.config)

StartupInv ==
    /\ u_run \in Input
    /\ DOMAIN u_sinks = U!Kind
    /\ Progress
    /\ NotYet

-----------------------------------------------------------------------------

\* Of a set with at most one member there is not much to say.
LEMMA Few ==
    ASSUME NEW set \in SUBSET {"dir", "dav", "forward", "sendmail", "smtp"}
    PROVE  /\ U!Cardinality(set) \in Nat
           /\ U!Cardinality(set) = 0 <=> set = {}
           /\ U!Cardinality(set) = 1 <=> \E x : set = {x}
<1>1. U!Cardinality(set) = Cardinality(set)
  BY DEF U!Cardinality, Cardinality
<1>2. IsFiniteSet({"dir", "dav", "forward", "sendmail", "smtp"})
  <2>1. IsFiniteSet({}) /\ IsFiniteSet({} \cup {"dir"})
    BY FS_EmptySet, FS_AddElement
  <2>2. IsFiniteSet({"dir"} \cup {"dav"})
    BY <2>1, FS_AddElement
  <2>3. IsFiniteSet({"dir", "dav"} \cup {"forward"})
    BY <2>2, FS_AddElement
  <2>4. IsFiniteSet({"dir", "dav", "forward"} \cup {"sendmail"})
    BY <2>3, FS_AddElement
  <2>5. IsFiniteSet({"dir", "dav", "forward", "sendmail"} \cup {"smtp"})
    BY <2>4, FS_AddElement
  <2>. QED BY <2>5
<1>3. IsFiniteSet(set)
  BY <1>2, FS_Subset
<1>4. Cardinality(set) \in Nat
  BY <1>3, FS_CardinalityType
<1>5. Cardinality(set) = 0 <=> set = {}
  BY <1>3, FS_EmptySet
<1>6. Cardinality(set) = 1 <=> \E x : set = {x}
  BY <1>3, FS_Singleton
<1>. QED BY <1>1, <1>4, <1>5, <1>6

\* The settings of a run, and what the check of its configuration leaves.
LEMMA Settings ==
    ASSUME U!StartupAssumption, NEW r \in Input, NEW layer \in {"flags", "config"}
    PROVE  /\ r[layer].events \in SUBSET {"dir", "dav"}
           /\ r[layer].receipts \in SUBSET {"dir", "dav", "forward"}
           /\ r[layer].tickets \in SUBSET {"dir", "dav"}
           /\ r[layer].transport \in SUBSET {"sendmail", "smtp"}
           /\ r[layer].from \in BOOLEAN
<1>1. U!IsInput(r)
  BY DEF U!StartupAssumption
<1>2. U!IsSettings(r.flags) /\ U!IsSettings(r.config)
  BY <1>1 DEF U!IsInput
<1>. QED BY <1>2 DEF U!IsSettings

\* What the check leaves of a configuration.
LEMMA Checked ==
    ASSUME U!StartupAssumption, NEW r \in Input, U!validate(r.config)
    PROVE  /\ \A set \in {r.config.events, r.config.receipts, r.config.tickets} :
                 set = {} \/ \E x : set = {x}
           /\ "forward" \in r.config.receipts => \E x : r.config.transport = {x}
<1>1. \A set \in {r.config.events, r.config.receipts, r.config.tickets, r.config.transport} :
         set \in SUBSET {"dir", "dav", "forward", "sendmail", "smtp"}
  BY Settings
<1>2. ASSUME NEW set \in SUBSET {"dir", "dav", "forward", "sendmail", "smtp"},
             U!Cardinality(set) <= 1
      PROVE  set = {} \/ \E x : set = {x}
  <2>1. U!Cardinality(set) = 0 \/ U!Cardinality(set) = 1
    BY <1>2, Few
  <2>. QED BY <2>1, Few
<1>3. \A set \in {r.config.events, r.config.receipts, r.config.tickets} :
         set = {} \/ \E x : set = {x}
  BY <1>1, <1>2 DEF U!validate
<1>4. "forward" \in r.config.receipts => \E x : r.config.transport = {x}
  BY <1>1, Few DEF U!validate
<1>. QED BY <1>3, <1>4

\* What is said of a run and a sink stays while they stay.
LEMMA StaysSo ==
    ASSUME UNCHANGED u_run
    PROVE  /\ LoadDone' <=> LoadDone
           /\ U!NoTargetFlags' <=> U!NoTargetFlags
           /\ \A k \in U!Server :
                 U!ServerReady(u_run.config, k)' <=> U!ServerReady(u_run.config, k)
           /\ U!ForwarderReady(u_run.config)' <=> U!ForwarderReady(u_run.config)
           /\ TrackersDone' <=> TrackersDone
           /\ FireflyDone' <=> FireflyDone
           /\ U!Complete(u_run.config)' <=> U!Complete(u_run.config)
           /\ u_sinks'["events"] = u_sinks["events"] => (EventsDone' <=> EventsDone)
           /\ u_sinks'["receipts"] = u_sinks["receipts"] => (ReceiptsDone' <=> ReceiptsDone)
           /\ u_sinks'["tickets"] = u_sinks["tickets"] => (TicketsDone' <=> TicketsDone)
<1>. USE DEF U!NoTargetFlags, U!ServerReady, U!ForwarderReady, U!Sound
<1>1. U!NoTargetFlags' <=> U!NoTargetFlags
  OBVIOUS
<1>2. \A k \in U!Server : U!ServerReady(u_run.config, k)' <=> U!ServerReady(u_run.config, k)
  OBVIOUS
<1>3. U!ForwarderReady(u_run.config)' <=> U!ForwarderReady(u_run.config)
  OBVIOUS
<1>4. LoadDone' <=> LoadDone
  BY DEF LoadDone, U!validate
<1>5. /\ U!TrackersReady(u_run.config)' <=> U!TrackersReady(u_run.config)
      /\ U!FireflyReady(u_run.config)' <=> U!FireflyReady(u_run.config)
  BY DEF U!TrackersReady, U!FireflyReady
<1>6. ASSUME NEW k \in U!Server, u_sinks'[k] = u_sinks[k]
      PROVE  U!AsAsked(k)' <=> U!AsAsked(k)
  BY <1>6 DEF U!AsAsked
<1>7. U!validate(u_run.config)' <=> U!validate(u_run.config)
  BY DEF U!validate
<1>. HIDE DEF U!NoTargetFlags, U!ServerReady, U!ForwarderReady, U!Sound
<1>8. U!Complete(u_run.config)' <=> U!Complete(u_run.config)
  BY <1>2, <1>3, <1>5, <1>7 DEF U!Complete
<1>9. {"events", "receipts", "tickets"} = U!Server
  BY DEF U!Server
<1>10. /\ u_sinks'["events"] = u_sinks["events"] => (EventsDone' <=> EventsDone)
       /\ u_sinks'["receipts"] = u_sinks["receipts"] => (ReceiptsDone' <=> ReceiptsDone)
       /\ u_sinks'["tickets"] = u_sinks["tickets"] => (TicketsDone' <=> TicketsDone)
  BY <1>1, <1>2, <1>3, <1>6, <1>9 DEF EventsDone, ReceiptsDone, TicketsDone
<1>11. (TrackersDone' <=> TrackersDone) /\ (FireflyDone' <=> FireflyDone)
  BY <1>1, <1>5 DEF TrackersDone, FireflyDone
<1>. QED BY <1>1, <1>2, <1>3, <1>4, <1>8, <1>10, <1>11

\* A step that fails fails rightly if without flags something was missing.
LEMMA FailedRightly ==
    ASSUME StartupInv, UNCHANGED u_run, NEW exit, U!Fail(exit),
           U!NoTargetFlags => ~ U!Complete(u_run.config)
    PROVE  StartupInv'
<1>1. U!NoTargetFlags' => ~ U!Complete(u_run.config)'
  BY StaysSo
<1>2. u_phase' = "failed" /\ UNCHANGED u_sinks
  BY DEF U!Fail
<1>. QED BY <1>1, <1>2 DEF StartupInv, Progress, NotYet, PastLoad, PastEvents, PastExtractors,
                          PastReceipts, PastTickets, PastTrackers, PastFirefly

\* A sink that is used is the one on file, and the others stay.
LEMMA Used ==
    ASSUME U!StartupAssumption, u_run \in Input, DOMAIN u_sinks = U!Kind, UNCHANGED u_run,
           NEW k \in U!Server, STATE what, STATE layer, STATE secret, NEW next,
           what \in {"dir", "dav", "sendmail", "smtp"}, layer = U!LayerOf(k),
           secret \in U!Layer \cup {Nothing},
           \/ u_run[layer][k] = {what}
           \/ u_run[layer][k] = {"forward"} /\ u_run[layer].transport = {what},
           U!Use(k, U!Sink(what, layer, secret), next)
    PROVE  /\ u_phase' = next
           /\ DOMAIN u_sinks' = U!Kind
           /\ \A j \in U!Server \ {k} : u_sinks'[j] = u_sinks[j]
           /\ U!AsAsked(k)'
<1>. DEFINE sink == U!Sink(what, layer, secret)
<1>1. sink # Nothing /\ sink.what = what /\ sink.layer = layer
  BY DEF U!Sink, U!StartupAssumption, U!AnySink, U!LayerOf, U!Layer
<1>2. u_sinks' = [u_sinks EXCEPT ![k] = sink] /\ u_phase' = next
  BY DEF U!Use, U!Goto
<1>. HIDE DEF sink
<1>3. u_sinks'[k] = sink
  BY <1>2 DEF U!Kind
<1>4. U!AsAsked(k)'
  BY <1>1, <1>3 DEF U!AsAsked, U!LayerOf
<1>5. \A j \in U!Server \ {k} : u_sinks'[j] = u_sinks[j]
  BY <1>2 DEF U!Kind
<1>. QED BY <1>2, <1>4, <1>5

\* A server is connected to, or something of it is missing.
LEMMA Connected ==
    ASSUME U!StartupAssumption, u_run \in Input, DOMAIN u_sinks = U!Kind, UNCHANGED u_run,
           NEW k \in U!Server, STATE layer, STATE named, STATE password, NEW next,
           layer = U!LayerOf(k), u_run[layer][k] = {"dav"},
           password \in U!Layer \cup {Nothing},
           U!NoTargetFlags =>
              /\ named <=> k \in u_run.config.url_user \cup u_run.config.user
              /\ password = IF k \in u_run.config.password THEN "config" ELSE Nothing,
           U!Connect(k, layer, named, password, next)
    PROVE  \/ U!Fail(1) /\ (U!NoTargetFlags => ~ U!ServerReady(u_run.config, k))
           \/ /\ u_phase' = next
              /\ DOMAIN u_sinks' = U!Kind
              /\ \A j \in U!Server \ {k} : u_sinks'[j] = u_sinks[j]
              /\ U!AsAsked(k)'
              /\ U!NoTargetFlags => U!ServerReady(u_run.config, k)
<1>. DEFINE bad == \/ <<layer, k>> \in u_run.wrong
                   \/ <<password, k>> \in u_run.unreadable
                   \/ ~ U!build_auth(named, password)
<1>1. U!NoTargetFlags => layer = "config" /\ u_run.config[k] = {"dav"}
  BY DEF U!NoTargetFlags, U!LayerOf
<1>2. Nothing # "config" /\ <<Nothing, k>> \notin u_run.unreadable
  <2>1. Nothing \notin U!Layer /\ U!IsInput(u_run)
    BY DEF U!StartupAssumption
  <2>. QED BY <2>1 DEF U!IsInput, U!Layer
<1>3. U!NoTargetFlags => (bad <=> ~ U!ServerReady(u_run.config, k))
  <2>. SUFFICES ASSUME U!NoTargetFlags PROVE bad <=> ~ U!ServerReady(u_run.config, k)
    OBVIOUS
  <2>1. CASE k \in u_run.config.password
    BY <1>1, <1>2, <2>1 DEF U!ServerReady, U!Sound, U!build_auth
  <2>2. CASE k \notin u_run.config.password
    BY <1>1, <1>2, <2>2 DEF U!ServerReady, U!Sound, U!build_auth
  <2>. QED BY <2>1, <2>2
<1>4. CASE bad
  BY <1>3, <1>4 DEF U!Connect
<1>5. CASE ~ bad
  <2>1. U!Use(k, U!Sink("dav", layer, password), next)
    BY <1>5 DEF U!Connect
  <2>2. /\ u_phase' = next
        /\ DOMAIN u_sinks' = U!Kind
        /\ \A j \in U!Server \ {k} : u_sinks'[j] = u_sinks[j]
        /\ U!AsAsked(k)'
    BY <2>1, Used
  <2>. QED BY <1>3, <1>5, <2>2
<1>. QED BY <1>4, <1>5

-----------------------------------------------------------------------------

LEMMA LoadStep ==
    ASSUME U!StartupAssumption, StartupInv, UNCHANGED u_run, U!load
    PROVE  StartupInv'
<1>. DEFINE fine == <<"config", "file">> \notin u_run.wrong /\ U!validate(u_run.config)
<1>1. CASE fine
  <2>1. u_phase = "load" /\ u_phase' = "events" /\ UNCHANGED u_sinks
    BY <1>1 DEF U!load, U!NoSink, U!Goto
  <2>2. LoadDone'
    BY <1>1, StaysSo DEF LoadDone
  <2>. QED BY <2>1, <2>2 DEF StartupInv, Progress, NotYet, PastLoad, PastEvents, PastExtractors,
                             PastReceipts, PastTickets, PastTrackers, PastFirefly
<1>2. CASE ~ fine
  <2>1. U!Fail(1)
    BY <1>2 DEF U!load
  <2>2. ~ U!Complete(u_run.config)
    BY <1>2 DEF U!Complete
  <2>. QED BY <2>1, <2>2, FailedRightly
<1>. QED BY <1>1, <1>2

LEMMA EventTargetStep ==
    ASSUME U!StartupAssumption, StartupInv, UNCHANGED u_run, U!build_sink
    PROVE  StartupInv'
<1>. DEFINE layer == U!LayerOf("events")
            chosen == u_run[layer].events
            named == U!Named("events", layer) \/ "events" \in u_run.config.user
            password == U!PasswordLayer("events", U!Layer)
<1>0. /\ u_run \in Input /\ DOMAIN u_sinks = U!Kind
      /\ u_phase = "events" /\ LoadDone
  BY DEF StartupInv, Progress, NotYet, PastLoad, U!build_sink
<1>1. layer \in U!Layer /\ chosen \in SUBSET {"dir", "dav"}
      /\ U!Server = {"events", "receipts", "tickets"}
  BY <1>0, Settings DEF U!LayerOf, U!Layer, U!Server
<1>2. U!NoTargetFlags => layer = "config"
  BY DEF U!NoTargetFlags, U!LayerOf, U!Server
<1>3. ASSUME u_phase' = "extractors", DOMAIN u_sinks' = U!Kind, U!AsAsked("events")',
             \A j \in U!Server \ {"events"} : u_sinks'[j] = u_sinks[j],
             U!NoTargetFlags => chosen # {} /\ U!ServerReady(u_run.config, "events")
      PROVE  StartupInv'
  <2>1. LoadDone'
    BY <1>0, StaysSo
  <2>2. EventsDone'
    BY <1>1, <1>2, <1>3, StaysSo DEF EventsDone
  <2>. QED BY <1>0, <1>1, <1>3, <2>1, <2>2
           DEF StartupInv, Progress, NotYet, PastLoad, PastEvents, PastExtractors, PastReceipts,
               PastTickets, PastTrackers, PastFirefly
<1>4. CASE U!Cardinality(chosen) # 1 /\ U!Fail(2)
  <2>1. U!NoTargetFlags => chosen = {}
    <3>. SUFFICES ASSUME U!NoTargetFlags PROVE chosen = {}
      OBVIOUS
    <3>1. chosen = {} \/ \E x : chosen = {x}
      BY <1>0, <1>2, Checked DEF LoadDone
    <3>. QED BY <1>1, <1>4, <3>1, Few
  <2>2. U!NoTargetFlags => ~ U!Complete(u_run.config)
    BY <1>2, <2>1 DEF U!Complete
  <2>. QED BY <1>4, <2>2, FailedRightly
<1>5. CASE chosen = {"dir"} /\ U!Use("events", U!Sink("dir", layer, Nothing), "extractors")
  <2>1. /\ u_phase' = "extractors"
        /\ DOMAIN u_sinks' = U!Kind
        /\ \A j \in U!Server \ {"events"} : u_sinks'[j] = u_sinks[j]
        /\ U!AsAsked("events")'
    BY <1>0, <1>1, <1>5, Used
  <2>2. U!NoTargetFlags => chosen # {} /\ U!ServerReady(u_run.config, "events")
    BY <1>2, <1>5 DEF U!ServerReady
  <2>. QED BY <1>3, <2>1, <2>2
<1>6. CASE chosen = {"dav"} /\ U!Connect("events", layer, named, password, "extractors")
  <2>1. password \in U!Layer \cup {Nothing}
    BY DEF U!PasswordLayer, U!Layer
  <2>2. U!NoTargetFlags =>
           /\ named <=> "events" \in u_run.config.url_user \cup u_run.config.user
           /\ password = IF "events" \in u_run.config.password THEN "config" ELSE Nothing
    BY <1>2 DEF U!Named, U!PasswordLayer, U!Layer, U!NoTargetFlags
  <2>3. \/ U!Fail(1) /\ (U!NoTargetFlags => ~ U!ServerReady(u_run.config, "events"))
        \/ /\ u_phase' = "extractors"
           /\ DOMAIN u_sinks' = U!Kind
           /\ \A j \in U!Server \ {"events"} : u_sinks'[j] = u_sinks[j]
           /\ U!AsAsked("events")'
           /\ U!NoTargetFlags => U!ServerReady(u_run.config, "events")
    <3>. HIDE DEF named, password, layer
    <3>. QED BY <1>0, <1>1, <1>6, <2>1, <2>2, Connected DEF layer
  <2>4. CASE U!Fail(1) /\ (U!NoTargetFlags => ~ U!ServerReady(u_run.config, "events"))
    <3>1. U!NoTargetFlags => ~ U!Complete(u_run.config)
      BY <1>1, <2>4 DEF U!Complete
    <3>. QED BY <2>4, <3>1, FailedRightly
  <2>. QED BY <1>3, <1>6, <2>3, <2>4
<1>. QED BY <1>4, <1>5, <1>6 DEF U!build_sink

LEMMA ExtractorsStep ==
    ASSUME U!StartupAssumption, StartupInv, UNCHANGED u_run, U!discover_required
    PROVE  StartupInv'
<1>1. CASE u_run.extractors = "found" /\ U!NoSink("receipts")
  <2>1. u_phase = "extractors" /\ u_phase' = "receipts" /\ UNCHANGED u_sinks
    BY <1>1 DEF U!discover_required, U!NoSink, U!Goto
  <2>2. LoadDone' /\ EventsDone'
    BY <2>1, StaysSo DEF StartupInv, Progress, NotYet, PastLoad, PastEvents
  <2>. QED BY <1>1, <2>1, <2>2 DEF StartupInv, Progress, NotYet, PastLoad, PastEvents, PastExtractors,
                                  PastReceipts, PastTickets, PastTrackers, PastFirefly
<1>2. CASE u_run.extractors # "found"
  <2>1. U!Fail(1) \/ U!Fail(2)
    BY <1>2 DEF U!discover_required
  <2>2. ~ U!Complete(u_run.config)
    BY <1>2 DEF U!Complete
  <2>. QED BY <2>1, <2>2, FailedRightly
<1>. QED BY <1>1, <1>2 DEF U!discover_required

\* What is taken is what was asked for, or there were several on the command
\* line.
LEMMA TargetIsAsked ==
    ASSUME U!StartupAssumption, u_run \in Input, LoadDone,
           NEW k \in {"receipts", "tickets"}
    PROVE  LET chosen == u_run[U!LayerOf(k)][k]
           IN  \/ chosen = {} /\ U!Target(k) = Nothing
               \/ U!LayerOf(k) = "flags" /\ chosen # {} /\ U!Target(k) = "conflict"
               \/ chosen = {"dir"} /\ U!Target(k) = "dir"
               \/ chosen = {"dav"} /\ U!Target(k) = "dav"
               \/ k = "receipts" /\ chosen = {"forward"} /\ U!Target(k) = "forward"
<1>. DEFINE layer == U!LayerOf(k)
            chosen == u_run[layer][k]
<1>1. /\ layer \in {"flags", "config"}
      /\ chosen \in SUBSET {"dir", "dav", "forward"}
      /\ k = "tickets" => chosen \in SUBSET {"dir", "dav"}
  BY Settings DEF U!LayerOf
<1>2. CASE layer = "flags" /\ U!Cardinality(chosen) > 1
  <2>1. chosen # {}
    BY <1>1, <1>2, Few
  <2>. QED BY <1>2, <2>1 DEF U!Target
<1>3. CASE ~ (layer = "flags" /\ U!Cardinality(chosen) > 1)
  <2>1. chosen = {} \/ \E x : chosen = {x}
    <3>1. CASE layer = "flags"
      <4>1. U!Cardinality(chosen) = 0 \/ U!Cardinality(chosen) = 1
        BY <1>1, <1>3, <3>1, Few
      <4>. QED BY <1>1, <4>1, Few
    <3>2. CASE layer = "config"
      BY <3>2, Checked DEF LoadDone
    <3>. QED BY <1>1, <3>1, <3>2
  <2>2. \/ chosen = {}
        \/ chosen = {"dir"}
        \/ chosen = {"dav"}
        \/ k = "receipts" /\ chosen = {"forward"}
    BY <1>1, <2>1
  <2>3. U!Target(k) = IF "dir" \in chosen THEN "dir"
                      ELSE IF "dav" \in chosen THEN "dav"
                      ELSE IF "forward" \in chosen THEN "forward" ELSE Nothing
    BY <1>3 DEF U!Target
  <2>. QED BY <2>2, <2>3
<1>. QED BY <1>2, <1>3

\* A forwarder is built, or something of it is missing.
LEMMA ForwarderBuilt ==
    ASSUME U!StartupAssumption, u_run \in Input, DOMAIN u_sinks = U!Kind, UNCHANGED u_run,
           STATE layer, layer = U!LayerOf("receipts"), u_run[layer].receipts = {"forward"},
           \E x : u_run[layer].transport = {x},
           U!build_forwarder(layer)
    PROVE  \/ U!Fail(1) /\ (U!NoTargetFlags => ~ U!ForwarderReady(u_run.config))
           \/ /\ u_phase' = "tickets"
              /\ DOMAIN u_sinks' = U!Kind
              /\ \A j \in U!Server \ {"receipts"} : u_sinks'[j] = u_sinks[j]
              /\ U!AsAsked("receipts")'
              /\ U!NoTargetFlags => U!ForwarderReady(u_run.config)
<1>. DEFINE transport == IF "sendmail" \in u_run[layer].transport THEN "sendmail" ELSE "smtp"
            password == IF transport = "smtp" /\ "smtp" \in u_run[layer].password
                          THEN layer ELSE Nothing
            bad == \/ <<layer, "from">> \in u_run.wrong
                   \/ <<layer, "to">> \in u_run.wrong
                   \/ ~ u_run[layer].to
                   \/ /\ transport = "smtp"
                      /\ \/ "smtp" \notin u_run.features
                         \/ <<layer, "smtp">> \in u_run.wrong
                         \/ <<password, "smtp">> \in u_run.unreadable
                         \/ ~ ("smtp" \in u_run[layer].url_user <=> password # Nothing)
<1>1. layer \in U!Layer /\ "receipts" \in U!Server
  BY DEF U!LayerOf, U!Layer, U!Server
<1>2. u_run[layer].transport = {transport}
  BY <1>1, Settings DEF U!Layer
<1>3. Nothing # "config" /\ <<Nothing, "smtp">> \notin u_run.unreadable
  <2>1. Nothing \notin U!Layer /\ U!IsInput(u_run)
    BY DEF U!StartupAssumption
  <2>. QED BY <2>1 DEF U!IsInput, U!Layer
<1>4. U!NoTargetFlags => layer = "config"
  BY DEF U!NoTargetFlags, U!LayerOf, U!Server
<1>5. U!NoTargetFlags => (bad <=> ~ U!ForwarderReady(u_run.config))
  <2>. SUFFICES ASSUME U!NoTargetFlags PROVE bad <=> ~ U!ForwarderReady(u_run.config)
    OBVIOUS
  <2>1. CASE transport = "sendmail"
    <3>1. "smtp" \notin u_run.config.transport
      BY <1>2, <1>4, <2>1
    <3>. QED BY <1>4, <2>1, <3>1 DEF U!ForwarderReady
  <2>2. CASE transport = "smtp" /\ "smtp" \in u_run.config.password
    <3>1. "smtp" \in u_run.config.transport /\ password = "config"
      BY <1>2, <1>4, <2>2
    <3>. QED BY <1>3, <1>4, <2>2, <3>1 DEF U!ForwarderReady, U!Sound
  <2>3. CASE transport = "smtp" /\ "smtp" \notin u_run.config.password
    <3>1. "smtp" \in u_run.config.transport /\ password = Nothing
      BY <1>2, <1>4, <2>3
    <3>. QED BY <1>3, <1>4, <2>3, <3>1 DEF U!ForwarderReady, U!Sound
  <2>. QED BY <2>1, <2>2, <2>3
<1>6. CASE bad
  BY <1>5, <1>6 DEF U!build_forwarder
<1>7. CASE ~ bad
  <2>1. U!Use("receipts", U!Sink(transport, layer, password), "tickets")
    BY <1>7 DEF U!build_forwarder
  <2>2. transport \in {"sendmail", "smtp"} /\ password \in U!Layer \cup {Nothing}
    BY <1>1
  <2>3. /\ u_phase' = "tickets"
        /\ DOMAIN u_sinks' = U!Kind
        /\ \A j \in U!Server \ {"receipts"} : u_sinks'[j] = u_sinks[j]
        /\ U!AsAsked("receipts")'
    <3>. HIDE DEF transport, password
    <3>. QED BY <1>1, <1>2, <2>1, <2>2, Used
  <2>. QED BY <1>5, <1>7, <2>3
<1>. QED BY <1>6, <1>7

LEMMA ReceiptsStep ==
    ASSUME U!StartupAssumption, StartupInv, UNCHANGED u_run, U!build_receipts_sink
    PROVE  StartupInv'
<1>. DEFINE layer == U!LayerOf("receipts")
            target == U!Target("receipts")
            chosen == u_run[layer].receipts
            c == u_run.config
            named == U!Named("receipts", layer)
            password == U!PasswordLayer("receipts", {layer})
<1>0. /\ u_run \in Input /\ DOMAIN u_sinks = U!Kind /\ u_sinks["receipts"] = Nothing
      /\ u_phase = "receipts" /\ LoadDone /\ EventsDone /\ u_run.extractors = "found"
      /\ u_sinks["tickets"] = Nothing
  BY DEF StartupInv, Progress, NotYet, PastLoad, PastEvents, PastExtractors,
         U!build_receipts_sink
<1>1. layer \in {"flags", "config"} /\ U!Server = {"events", "receipts", "tickets"}
  BY DEF U!LayerOf, U!Server
<1>2. U!NoTargetFlags => layer = "config"
  BY DEF U!NoTargetFlags, U!LayerOf, U!Server
<1>3. ASSUME u_phase' = "tickets", DOMAIN u_sinks' = U!Kind, U!AsAsked("receipts")',
             \A j \in U!Server \ {"receipts"} : u_sinks'[j] = u_sinks[j],
             U!NoTargetFlags => U!ServerReady(c, "receipts") /\ U!ForwarderReady(c)
      PROVE  StartupInv'
  <2>1. LoadDone' /\ EventsDone'
    BY <1>0, <1>1, <1>3, StaysSo
  <2>2. ReceiptsDone'
    BY <1>1, <1>3, StaysSo DEF ReceiptsDone
  <2>. QED BY <1>0, <1>1, <1>3, <2>1, <2>2
           DEF StartupInv, Progress, NotYet, PastLoad, PastEvents, PastExtractors, PastReceipts,
               PastTickets, PastTrackers, PastFirefly
<1>4. ASSUME NEW exit, U!Fail(exit),
             U!NoTargetFlags => ~ U!ServerReady(c, "receipts") \/ ~ U!ForwarderReady(c)
      PROVE  StartupInv'
  <2>1. U!NoTargetFlags => ~ U!Complete(c)
    BY <1>1, <1>4 DEF U!Complete
  <2>. QED BY <1>4, <2>1, FailedRightly
<1>5. ~ (Nothing = "dir") /\ ~ (Nothing = "dav") /\ ~ (Nothing = "forward")
      /\ ~ (Nothing = "conflict")
  BY DEF U!StartupAssumption
<1>6. CASE chosen = {} /\ target = Nothing
  <2>1. U!NoSink("tickets")
    BY <1>5, <1>6 DEF U!build_receipts_sink
  <2>2. u_phase' = "tickets" /\ UNCHANGED u_sinks
    BY <2>1 DEF U!NoSink, U!Goto
  <2>3. U!AsAsked("receipts")'
    BY <1>0, <1>6, <2>2 DEF U!AsAsked, U!LayerOf
  <2>4. U!NoTargetFlags => U!ServerReady(c, "receipts") /\ U!ForwarderReady(c)
    BY <1>2, <1>6 DEF U!ServerReady, U!ForwarderReady
  <2>. QED BY <1>0, <1>3, <2>2, <2>3, <2>4
<1>7. CASE layer = "flags" /\ chosen # {} /\ target = "conflict"
  <2>1. U!Fail(1)
    BY <1>5, <1>7 DEF U!build_receipts_sink
  <2>. QED BY <1>2, <1>4, <1>7, <2>1
<1>8. CASE chosen = {"dir"} /\ target = "dir"
  <2>1. U!Use("receipts", U!Sink("dir", layer, Nothing), "tickets")
    BY <1>5, <1>8 DEF U!build_receipts_sink
  <2>2. /\ u_phase' = "tickets"
        /\ DOMAIN u_sinks' = U!Kind
        /\ \A j \in U!Server \ {"receipts"} : u_sinks'[j] = u_sinks[j]
        /\ U!AsAsked("receipts")'
    BY <1>0, <1>1, <1>8, <2>1, Used
  <2>3. U!NoTargetFlags => U!ServerReady(c, "receipts") /\ U!ForwarderReady(c)
    BY <1>2, <1>8 DEF U!ServerReady, U!ForwarderReady
  <2>. QED BY <1>3, <2>2, <2>3
<1>9. CASE chosen = {"dav"} /\ target = "dav"
  <2>1. U!Connect("receipts", layer, named, password, "tickets")
    BY <1>5, <1>9 DEF U!build_receipts_sink
  <2>2. password \in U!Layer \cup {Nothing}
    BY DEF U!PasswordLayer, U!Layer
  <2>3. U!NoTargetFlags =>
           /\ named <=> "receipts" \in c.url_user \cup c.user
           /\ password = IF "receipts" \in c.password THEN "config" ELSE Nothing
    BY <1>2 DEF U!Named, U!PasswordLayer
  <2>4. \/ U!Fail(1) /\ (U!NoTargetFlags => ~ U!ServerReady(c, "receipts"))
        \/ /\ u_phase' = "tickets"
           /\ DOMAIN u_sinks' = U!Kind
           /\ \A j \in U!Server \ {"receipts"} : u_sinks'[j] = u_sinks[j]
           /\ U!AsAsked("receipts")'
           /\ U!NoTargetFlags => U!ServerReady(c, "receipts")
    <3>. HIDE DEF named, password, layer
    <3>. QED BY <1>0, <1>1, <1>9, <2>1, <2>2, <2>3, Connected DEF layer
  <2>5. U!NoTargetFlags => U!ForwarderReady(c)
    BY <1>2, <1>9 DEF U!ForwarderReady
  <2>. QED BY <1>3, <1>4, <2>4, <2>5
<1>10. CASE chosen = {"forward"} /\ target = "forward"
  <2>1. U!NoTargetFlags => U!ServerReady(c, "receipts")
    BY <1>2, <1>10 DEF U!ServerReady
  <2>2. ASSUME \E x : u_run[layer].transport = {x}, U!build_forwarder(layer)
        PROVE  StartupInv'
    <3>1. \/ U!Fail(1) /\ (U!NoTargetFlags => ~ U!ForwarderReady(c))
          \/ /\ u_phase' = "tickets"
             /\ DOMAIN u_sinks' = U!Kind
             /\ \A j \in U!Server \ {"receipts"} : u_sinks'[j] = u_sinks[j]
             /\ U!AsAsked("receipts")'
             /\ U!NoTargetFlags => U!ForwarderReady(c)
      BY <1>0, <1>10, <2>2, ForwarderBuilt
    <3>. QED BY <1>3, <1>4, <2>1, <3>1
  <2>3. CASE layer = "flags"
    <3>1. U!build_cli_forwarder
      BY <1>5, <1>10, <2>3 DEF U!build_receipts_sink
    <3>2. u_run.flags.transport \in SUBSET {"dir", "dav", "forward", "sendmail", "smtp"}
      BY <1>0, Settings
    <3>3. CASE U!Fail(1) \/ U!Fail(2)
      BY <1>2, <1>4, <2>3, <3>3
    <3>4. CASE U!Cardinality(u_run.flags.transport) = 1 /\ U!build_forwarder("flags")
      <4>1. \E x : u_run.flags.transport = {x}
        BY <3>2, <3>4, Few
      <4>. QED BY <2>2, <2>3, <3>4, <4>1
    <3>. QED BY <3>1, <3>3, <3>4 DEF U!build_cli_forwarder
  <2>4. CASE layer = "config"
    <3>1. U!build_config_forwarder
      BY <1>5, <1>10, <2>4 DEF U!build_receipts_sink
    <3>2. \E x : u_run.config.transport = {x}
      BY <1>0, <1>10, <2>4, Checked DEF LoadDone
    <3>3. U!build_forwarder("config")
      BY <3>1, <3>2 DEF U!build_config_forwarder
    <3>. QED BY <2>2, <2>4, <3>2, <3>3
  <2>. QED BY <1>1, <2>3, <2>4
<1>. QED
  <2>1. \/ chosen = {} /\ target = Nothing
        \/ layer = "flags" /\ chosen # {} /\ target = "conflict"
        \/ chosen = {"dir"} /\ target = "dir"
        \/ chosen = {"dav"} /\ target = "dav"
        \/ chosen = {"forward"} /\ target = "forward"
    BY <1>0, TargetIsAsked
  <2>. QED BY <2>1, <1>6, <1>7, <1>8, <1>9, <1>10

LEMMA TicketsStep ==
    ASSUME U!StartupAssumption, StartupInv, UNCHANGED u_run, U!build_tickets_sink
    PROVE  StartupInv'
<1>. DEFINE layer == U!LayerOf("tickets")
            target == U!Target("tickets")
            chosen == u_run[layer].tickets
            c == u_run.config
            named == U!Named("tickets", layer)
            password == U!PasswordLayer("tickets", {"flags", layer})
<1>0. /\ u_run \in Input /\ DOMAIN u_sinks = U!Kind /\ u_sinks["tickets"] = Nothing
      /\ u_phase = "tickets" /\ LoadDone /\ EventsDone /\ u_run.extractors = "found"
      /\ ReceiptsDone
  BY DEF StartupInv, Progress, NotYet, PastLoad, PastEvents, PastExtractors, PastReceipts,
         U!build_tickets_sink
<1>1. layer \in {"flags", "config"} /\ U!Server = {"events", "receipts", "tickets"}
  BY DEF U!LayerOf, U!Server
<1>2. U!NoTargetFlags => layer = "config" /\ "tickets" \notin u_run.flags.password
  BY DEF U!NoTargetFlags, U!LayerOf, U!Server
<1>3. ASSUME u_phase' = "trackers", DOMAIN u_sinks' = U!Kind, U!AsAsked("tickets")',
             \A j \in U!Server \ {"tickets"} : u_sinks'[j] = u_sinks[j],
             U!NoTargetFlags => U!ServerReady(c, "tickets")
      PROVE  StartupInv'
  <2>1. LoadDone' /\ EventsDone' /\ ReceiptsDone'
    BY <1>0, <1>1, <1>3, StaysSo
  <2>2. TicketsDone'
    BY <1>1, <1>3, StaysSo DEF TicketsDone
  <2>. QED BY <1>0, <1>1, <1>3, <2>1, <2>2
           DEF StartupInv, Progress, NotYet, PastLoad, PastEvents, PastExtractors, PastReceipts,
               PastTickets, PastTrackers, PastFirefly
<1>4. ASSUME NEW exit, U!Fail(exit), U!NoTargetFlags => ~ U!ServerReady(c, "tickets")
      PROVE  StartupInv'
  <2>1. U!NoTargetFlags => ~ U!Complete(c)
    BY <1>1, <1>4 DEF U!Complete
  <2>. QED BY <1>4, <2>1, FailedRightly
<1>5. ~ (Nothing = "dir") /\ ~ (Nothing = "dav") /\ ~ (Nothing = "conflict")
  BY DEF U!StartupAssumption
<1>6. CASE chosen = {} /\ target = Nothing
  <2>1. U!NoSink("trackers")
    BY <1>5, <1>6 DEF U!build_tickets_sink
  <2>2. u_phase' = "trackers" /\ UNCHANGED u_sinks
    BY <2>1 DEF U!NoSink, U!Goto
  <2>3. U!AsAsked("tickets")'
    BY <1>0, <1>6, <2>2 DEF U!AsAsked, U!LayerOf
  <2>4. U!NoTargetFlags => U!ServerReady(c, "tickets")
    BY <1>2, <1>6 DEF U!ServerReady
  <2>. QED BY <1>0, <1>3, <2>2, <2>3, <2>4
<1>7. CASE layer = "flags" /\ chosen # {} /\ target = "conflict"
  <2>1. U!Fail(1)
    BY <1>5, <1>7 DEF U!build_tickets_sink
  <2>. QED BY <1>2, <1>4, <1>7, <2>1
<1>8. CASE chosen = {"dir"} /\ target = "dir"
  <2>1. U!Use("tickets", U!Sink("dir", layer, Nothing), "trackers")
    BY <1>5, <1>8 DEF U!build_tickets_sink
  <2>2. /\ u_phase' = "trackers"
        /\ DOMAIN u_sinks' = U!Kind
        /\ \A j \in U!Server \ {"tickets"} : u_sinks'[j] = u_sinks[j]
        /\ U!AsAsked("tickets")'
    BY <1>0, <1>1, <1>8, <2>1, Used
  <2>3. U!NoTargetFlags => U!ServerReady(c, "tickets")
    BY <1>2, <1>8 DEF U!ServerReady
  <2>. QED BY <1>3, <2>2, <2>3
<1>9. CASE chosen = {"dav"} /\ target = "dav"
  <2>1. U!Connect("tickets", layer, named, password, "trackers")
    BY <1>5, <1>9 DEF U!build_tickets_sink
  <2>2. password \in U!Layer \cup {Nothing}
    BY DEF U!PasswordLayer, U!Layer
  <2>3. U!NoTargetFlags =>
           /\ named <=> "tickets" \in c.url_user \cup c.user
           /\ password = IF "tickets" \in c.password THEN "config" ELSE Nothing
    BY <1>2 DEF U!Named, U!PasswordLayer
  <2>4. \/ U!Fail(1) /\ (U!NoTargetFlags => ~ U!ServerReady(c, "tickets"))
        \/ /\ u_phase' = "trackers"
           /\ DOMAIN u_sinks' = U!Kind
           /\ \A j \in U!Server \ {"tickets"} : u_sinks'[j] = u_sinks[j]
           /\ U!AsAsked("tickets")'
           /\ U!NoTargetFlags => U!ServerReady(c, "tickets")
    <3>. HIDE DEF named, password, layer
    <3>. QED BY <1>0, <1>1, <1>9, <2>1, <2>2, <2>3, Connected DEF layer
  <2>. QED BY <1>3, <1>4, <2>4
<1>. QED
  <2>1. \/ chosen = {} /\ target = Nothing
        \/ layer = "flags" /\ chosen # {} /\ target = "conflict"
        \/ chosen = {"dir"} /\ target = "dir"
        \/ chosen = {"dav"} /\ target = "dav"
    BY <1>0, TargetIsAsked
  <2>. QED BY <2>1, <1>6, <1>7, <1>8, <1>9

LEMMA TrackersStep ==
    ASSUME U!StartupAssumption, StartupInv, UNCHANGED u_run, U!build_trackers
    PROVE  StartupInv'
<1>. DEFINE c == u_run.config
            url == U!From("karrio", "url")
            token == U!From("karrio", "token")
            st == IF u_run.flags.seventeentrack THEN "flags"
                  ELSE IF c.seventeentrack THEN "config" ELSE Nothing
            karrio == IF Nothing \in {url, token} THEN Nothing
                      ELSE U!Sink("karrio", url, token)
            both == [u_sinks EXCEPT
                        !["karrio"] = karrio,
                        !["seventeentrack"] =
                            IF st = Nothing THEN Nothing
                            ELSE U!Sink("seventeentrack", Nothing, st)]
            bad == \/ karrio # Nothing /\ U!Refused("karrio", url, token)
                   \/ st # Nothing /\ U!Refused("seventeentrack", Nothing, st)
<1>0. /\ u_run \in Input /\ DOMAIN u_sinks = U!Kind
      /\ u_phase = "trackers" /\ LoadDone /\ EventsDone /\ u_run.extractors = "found"
      /\ ReceiptsDone /\ TicketsDone
  BY DEF StartupInv, Progress, PastLoad, PastEvents, PastExtractors, PastReceipts, PastTickets,
         U!build_trackers
<1>1. U!IsInput(u_run) /\ Nothing \notin U!Layer /\ Nothing \notin U!AnySink
  BY <1>0 DEF U!StartupAssumption
<1>2. U!NoTargetFlags => (bad <=> ~ U!TrackersReady(c))
  <2>. SUFFICES ASSUME U!NoTargetFlags PROVE bad <=> ~ U!TrackersReady(c)
    OBVIOUS
  <2>1. c.karrio \in {{}, {"url", "token"}} /\ u_run.flags.karrio = {}
    BY <1>1 DEF U!IsInput, U!AsConfig, U!NoTargetFlags
  <2>2. url = (IF c.karrio = {} THEN Nothing ELSE "config") /\ token = url
    BY <2>1 DEF U!From
  <2>3. st = (IF c.seventeentrack THEN "config" ELSE Nothing)
    BY DEF U!NoTargetFlags
  <2>4. Nothing # "config" /\ <<Nothing, "seventeentrack">> \notin u_run.wrong
    BY <1>1 DEF U!Layer, U!IsInput
  <2>. HIDE DEF url, token, st
  <2>5. karrio # Nothing <=> c.karrio # {}
    <3>1. U!Sink("karrio", "config", "config") # Nothing
      BY <1>1 DEF U!Sink, U!AnySink, U!Layer
    <3>. QED BY <2>2, <2>4, <3>1
  <2>. HIDE DEF karrio
  <2>. QED BY <2>2, <2>3, <2>4, <2>5 DEF U!TrackersReady, U!Refused
<1>. HIDE DEF karrio
<1>3. CASE bad
  <2>1. U!Fail(1)
    BY <1>3 DEF U!build_trackers, karrio
  <2>2. U!NoTargetFlags => ~ U!Complete(c)
    BY <1>2, <1>3 DEF U!Complete
  <2>. QED BY <2>1, <2>2, FailedRightly
<1>4. CASE ~ bad
  <2>1. u_sinks' = both /\ u_phase' = "firefly"
    BY <1>4 DEF U!build_trackers, U!Goto, karrio
  <2>2. DOMAIN u_sinks' = U!Kind /\ \A k \in U!Server : u_sinks'[k] = u_sinks[k]
    BY <1>0, <2>1 DEF U!Kind, U!Server
  <2>3. LoadDone' /\ EventsDone' /\ ReceiptsDone' /\ TicketsDone'
    BY <1>0, <2>2, StaysSo DEF U!Server
  <2>4. TrackersDone'
    BY <1>2, <1>4, StaysSo DEF TrackersDone
  <2>. QED BY <1>0, <2>1, <2>2, <2>3, <2>4
           DEF StartupInv, Progress, NotYet, PastLoad, PastEvents, PastExtractors, PastReceipts,
               PastTickets, PastTrackers, PastFirefly
<1>. QED BY <1>3, <1>4

LEMMA FireflyStep ==
    ASSUME U!StartupAssumption, StartupInv, UNCHANGED u_run, U!build_firefly
    PROVE  StartupInv'
<1>. DEFINE c == u_run.config
            url == U!From("firefly", "url")
            token == U!From("firefly", "token")
<1>0. /\ u_run \in Input /\ DOMAIN u_sinks = U!Kind
      /\ u_phase = "firefly" /\ LoadDone /\ EventsDone /\ u_run.extractors = "found"
      /\ ReceiptsDone /\ TicketsDone /\ TrackersDone
  BY DEF StartupInv, Progress, PastLoad, PastEvents, PastExtractors, PastReceipts, PastTickets,
         PastTrackers, U!build_firefly
<1>1. U!NoTargetFlags =>
         /\ url = IF c.firefly = {} THEN Nothing ELSE "config"
         /\ token = url
  <2>. SUFFICES ASSUME U!NoTargetFlags
                PROVE  url = (IF c.firefly = {} THEN Nothing ELSE "config") /\ token = url
    OBVIOUS
  <2>1. U!IsInput(u_run)
    BY <1>0 DEF U!StartupAssumption
  <2>2. c.firefly \in {{}, {"url", "token"}} /\ u_run.flags.firefly = {}
    BY <2>1 DEF U!IsInput, U!AsConfig, U!NoTargetFlags
  <2>. QED BY <2>2 DEF U!From
<1>2. Nothing # "config"
  BY DEF U!StartupAssumption, U!Layer
<1>. HIDE DEF url, token
<1>3. ASSUME u_phase' = "running", DOMAIN u_sinks' = U!Kind,
             \A k \in U!Server : u_sinks'[k] = u_sinks[k],
             U!NoTargetFlags => U!FireflyReady(c)
      PROVE  StartupInv'
  <2>1. LoadDone' /\ EventsDone' /\ ReceiptsDone' /\ TicketsDone' /\ TrackersDone'
    BY <1>0, <1>3, StaysSo DEF U!Server
  <2>2. FireflyDone'
    BY <1>3, StaysSo DEF FireflyDone
  <2>. QED BY <1>0, <1>3, <2>1, <2>2
           DEF StartupInv, Progress, NotYet, PastLoad, PastEvents, PastExtractors, PastReceipts,
               PastTickets, PastTrackers, PastFirefly
<1>4. ASSUME U!Fail(1), U!NoTargetFlags => ~ U!FireflyReady(c)
      PROVE  StartupInv'
  <2>1. U!NoTargetFlags => ~ U!Complete(c)
    BY <1>4 DEF U!Complete
  <2>. QED BY <1>4, <2>1, FailedRightly
<1>5. CASE url = Nothing /\ token = Nothing /\ U!NoSink("running")
  <2>1. u_phase' = "running" /\ UNCHANGED u_sinks
    BY <1>5 DEF U!NoSink, U!Goto
  <2>2. U!NoTargetFlags => U!FireflyReady(c)
    BY <1>1, <1>2, <1>5 DEF U!FireflyReady
  <2>. QED BY <1>0, <1>3, <2>1, <2>2
\* The configuration has both or neither.
<1>6. CASE (url = Nothing) # (token = Nothing) /\ U!Fail(1)
  BY <1>1, <1>4, <1>6
<1>7. CASE Nothing \notin {url, token} /\ U!Refused("firefly", url, token) /\ U!Fail(1)
  BY <1>1, <1>4, <1>7 DEF U!FireflyReady, U!Refused
<1>8. CASE /\ Nothing \notin {url, token} /\ ~ U!Refused("firefly", url, token)
           /\ U!Use("firefly", U!Sink("firefly", url, token), "running")
  <2>1. /\ u_phase' = "running" /\ DOMAIN u_sinks' = U!Kind
        /\ \A k \in U!Server : u_sinks'[k] = u_sinks[k]
    BY <1>0, <1>8 DEF U!Use, U!Goto, U!Kind, U!Server
  <2>2. U!NoTargetFlags => U!FireflyReady(c)
    BY <1>1, <1>8 DEF U!FireflyReady, U!Refused
  <2>. QED BY <1>3, <2>1, <2>2
<1>. QED BY <1>5, <1>6, <1>7, <1>8 DEF U!build_firefly, url, token

LEMMA StartupInvStep ==
    ASSUME U!StartupAssumption, StartupInv, [U!Next]_(U!vars)
    PROVE  StartupInv'
<1>1. CASE UNCHANGED U!vars
  <2>1. UNCHANGED <<u_run, u_phase, u_sinks>>
    BY <1>1 DEF U!vars
  <2>. QED BY <2>1, StaysSo DEF StartupInv, Progress, NotYet
<1>2. CASE U!Next
  BY <1>2, LoadStep, EventTargetStep, ExtractorsStep, ReceiptsStep, TicketsStep, TrackersStep,
     FireflyStep DEF U!Next
<1>. QED BY <1>1, <1>2

(***************************************************************************)
(* No command line leads an accepted configuration to the branch that      *)
(* cannot be reached; what runs has exactly the targets that were asked    *)
(* for; and with none on the command line a run starts if and only if all  *)
(* that the configuration names is there and has its credentials           *)
(* (config.rs validate, the builders of main.rs).                          *)
(***************************************************************************)
THEOREM StartDecidedByConfig ==
    ASSUME U!StartupAssumption
    PROVE  U!Spec => []StartsAsConfigured
<1>1. U!Init => StartupInv
  BY DEF U!Init, StartupInv, Progress, NotYet, PastLoad, PastEvents, PastExtractors,
         PastReceipts, PastTickets, PastTrackers, PastFirefly, U!Kind, U!Server
<1>2. StartupInv /\ [U!Next]_(U!vars) => StartupInv'
  BY StartupInvStep
<1>3. StartupInv => StartsAsConfigured
  <2>. SUFFICES ASSUME StartupInv PROVE U!StartsAsConfigured
    BY DEF StartsAsConfigured
  <2>1. u_phase # "panicked"
    BY DEF StartupInv, Progress, PastLoad, PastEvents, PastExtractors, PastReceipts,
           PastTickets, PastTrackers, PastFirefly
  <2>2. ASSUME u_phase = "running"
        PROVE  /\ LoadDone /\ EventsDone /\ u_run.extractors = "found"
               /\ ReceiptsDone /\ TicketsDone /\ TrackersDone /\ FireflyDone
    BY <2>2 DEF StartupInv, Progress, PastLoad, PastEvents, PastExtractors, PastReceipts,
                PastTickets, PastTrackers, PastFirefly
  <2>3. u_phase = "running" => \A k \in U!Server : U!AsAsked(k)
    BY <2>2 DEF U!Server, EventsDone, ReceiptsDone, TicketsDone
  <2>4. u_phase = "running" /\ U!NoTargetFlags => U!Complete(u_run.config)
    BY <2>2 DEF U!Server, U!Complete, LoadDone, EventsDone, ReceiptsDone, TicketsDone,
                TrackersDone, FireflyDone
  <2>5. u_phase = "failed" /\ U!NoTargetFlags => ~ U!Complete(u_run.config)
    BY DEF StartupInv, Progress
  <2>. QED BY <2>1, <2>3, <2>4, <2>5 DEF U!StartsAsConfigured
<1>. QED BY <1>1, <1>2, <1>3, PTL DEF U!Spec

-----------------------------------------------------------------------------
(***************************************************************************)
(* Discovery                                                               *)
(***************************************************************************)

\* Where the command is in the directories, and lint.
DiscoveryTypes ==
    /\ c_listing \in Listing
    /\ c_dir \in Nat \ {0} /\ c_entry \in Nat \ {0}
    /\ c_lints \in [dir : Nat \ {0}, entry : Nat \ {0}]
    /\ c_command \in {"discover", "sort", "run", "refused"}
    /\ c_out \in Seq(C!Places)

\* What the command should find: the first place of each name.
Firsts ==
    {at \in C!Runnable :
        \A b \in C!Runnable : C!Earlier(b, at) => C!Manifest(b).name # C!Manifest(at).name}

FoundIn(s) == {s[i] : i \in DOMAIN s}

\* So far it has found those that it has come past.
FirstsFound ==
    /\ c_command \in {"discover", "sort"} =>
          /\ FoundIn(c_out) = {at \in Firsts : C!Earlier(at, C!Here)}
          /\ \A b \in C!Runnable : C!Earlier(b, C!Here) =>
                \E at \in FoundIn(c_out) : C!Manifest(at).name = C!Manifest(b).name
    /\ c_command = "sort" => c_dir > Len(c_listing)
    /\ c_command = "run" => C!OverridesWin

\* Lint has complained of all that it has come past.
Reported ==
    /\ \A at \in C!Places : C!Earlier(at, c_lints) /\ C!Complains(at) => at \in c_issues
    /\ \A d \in DOMAIN c_listing : c_listing[d] = Unlistable /\ d < c_lints.dir => c_issues # {}

Refusal == [dir |-> c_dir, entry |-> c_entry - 1]

\* Why a command is refused.
RefusedForCause ==
    c_command = "refused" =>
        \/ Refusal \in C!Places /\ C!Bails(C!Manifest(Refusal))
        \/ \E d \in DOMAIN c_listing : c_listing[d] = Unlistable
        \/ c_dir > Len(c_listing) /\ c_out = <<>>
        \/ \E n \in c_only : ~ C!Known(n)

DiscoveryInv == DiscoveryTypes /\ FirstsFound /\ Reported /\ RefusedForCause

-----------------------------------------------------------------------------

\* The listings.
LEMMA ListingTypes ==
    ASSUME C!DiscoveryAssumption, DiscoveryTypes
    PROVE  /\ Len(c_listing) \in Nat /\ DOMAIN c_listing = 1 .. Len(c_listing)
           /\ \A d \in DOMAIN c_listing : c_listing[d] # Unlistable =>
                 /\ c_listing[d] \in Seq(C!Manifests)
                 /\ Len(c_listing[d]) \in Nat
                 /\ DOMAIN c_listing[d] = 1 .. Len(c_listing[d])
BY DEF C!DiscoveryAssumption, DiscoveryTypes

\* The places are where there is something to read.
LEMMA PlacesAre ==
    ASSUME C!DiscoveryAssumption, DiscoveryTypes, NEW at \in [dir : Nat \ {0}, entry : Nat]
    PROVE  at \in C!Places <=> /\ at.dir \in DOMAIN c_listing
                               /\ c_listing[at.dir] # Unlistable
                               /\ at.entry \in DOMAIN c_listing[at.dir]
<1>1. at = [dir |-> at.dir, entry |-> at.entry]
  OBVIOUS
<1>. QED BY <1>1 DEF C!Places

LEMMA PlaceTypes ==
    ASSUME C!DiscoveryAssumption, DiscoveryTypes, NEW at \in C!Places
    PROVE  /\ at \in [dir : Nat \ {0}, entry : Nat \ {0}]
           /\ at.dir \in DOMAIN c_listing /\ at.dir <= Len(c_listing)
           /\ C!Manifest(at) \in C!Manifests
<1>1. PICK d \in DOMAIN c_listing : /\ c_listing[d] # Unlistable
                                   /\ \E e \in DOMAIN c_listing[d] : at = [dir |-> d, entry |-> e]
  BY DEF C!Places
<1>. QED BY <1>1, ListingTypes DEF C!Manifest

LEMMA ReadingIs ==
    ASSUME C!DiscoveryAssumption, DiscoveryTypes, NEW at \in [dir : Nat \ {0}, entry : Nat \ {0}]
    PROVE  C!Reading(at) <=> at \in C!Places
BY ListingTypes, PlacesAre DEF C!Reading

\* A place that is past the last directory is past all.
LEMMA PastTheLast ==
    ASSUME C!DiscoveryAssumption, DiscoveryTypes, NEW at, at.dir > Len(c_listing), at.dir \in Nat
    PROVE  \A b \in C!Places : C!Earlier(b, at)
BY ListingTypes, PlaceTypes DEF C!Earlier

\* The next entry is past one more place, and the next directory past no more
\* if there is nothing left to read in this one.
LEMMA NextEntryIs ==
    ASSUME C!DiscoveryAssumption, DiscoveryTypes,
           NEW at \in [dir : Nat \ {0}, entry : Nat \ {0}], NEW b \in C!Places
    PROVE  C!Earlier(b, [dir |-> at.dir, entry |-> at.entry + 1]) <=> C!Earlier(b, at) \/ b = at
<1>1. /\ b.dir \in Nat /\ b.entry \in Nat \ {0} /\ b = [dir |-> b.dir, entry |-> b.entry]
      /\ at.dir \in Nat /\ at.entry \in Nat /\ at = [dir |-> at.dir, entry |-> at.entry]
  BY PlaceTypes
<1>. QED BY <1>1 DEF C!Earlier

LEMMA NextDirectoryIs ==
    ASSUME C!DiscoveryAssumption, DiscoveryTypes,
           NEW at \in [dir : Nat \ {0}, entry : Nat \ {0}], NEW b \in C!Places,
           ~ C!Reading(at)
    PROVE  C!Earlier(b, [dir |-> at.dir + 1, entry |-> 1]) <=> C!Earlier(b, at)
<1>1. /\ b.dir \in Nat /\ b.entry \in Nat \ {0} /\ b = [dir |-> b.dir, entry |-> b.entry]
      /\ at.dir \in Nat /\ at.entry \in Nat /\ at = [dir |-> at.dir, entry |-> at.entry]
  BY PlaceTypes
<1>2. /\ b.dir \in DOMAIN c_listing /\ c_listing[b.dir] # Unlistable
      /\ b.entry <= Len(c_listing[b.dir]) /\ b.dir <= Len(c_listing)
  BY <1>1, PlacesAre, ListingTypes, PlaceTypes
<1>3. CASE b.dir = at.dir
  <2>1. ~ (at.entry <= Len(c_listing[at.dir]))
    BY <1>2, <1>3 DEF C!Reading
  <2>2. Len(c_listing[at.dir]) \in Nat
    BY <1>2, <1>3, ListingTypes
  <2>. QED BY <1>1, <1>2, <1>3, <2>1, <2>2 DEF C!Earlier
<1>4. CASE b.dir # at.dir
  BY <1>1, <1>4 DEF C!Earlier
<1>. QED BY <1>3, <1>4

\* What depends on the listing alone.
LEMMA SameListing ==
    ASSUME c_listing' = c_listing
    PROVE  /\ C!Places' = C!Places /\ C!Runnable' = C!Runnable /\ Firsts' = Firsts
           /\ \A at : C!Manifest(at)' = C!Manifest(at) /\ C!Complains(at)' = C!Complains(at)
BY DEF C!Places, C!Runnable, Firsts, C!Manifest, C!Complains, C!Duplicate, C!Earlier

-----------------------------------------------------------------------------

\* Nothing is passed to begin with.
LEMMA DiscoveryStart ==
    ASSUME C!DiscoveryAssumption, C!Init
    PROVE  DiscoveryInv
<1>1. DiscoveryTypes
  BY DEF C!Init, DiscoveryTypes
<1>2. \A b \in C!Places : ~ C!Earlier(b, [dir |-> 1, entry |-> 1])
  BY <1>1, PlaceTypes DEF C!Earlier
<1>3. C!Here = [dir |-> 1, entry |-> 1] /\ c_lints = [dir |-> 1, entry |-> 1] /\ c_out = <<>>
      /\ c_command = "discover"
  BY DEF C!Init, C!Here
<1>4. C!Runnable \subseteq C!Places /\ Firsts \subseteq C!Runnable
  BY DEF C!Runnable, Firsts
<1>5. FoundIn(c_out) = {}
  BY <1>3 DEF FoundIn
<1>6. FirstsFound
  BY <1>2, <1>3, <1>4, <1>5 DEF FirstsFound
<1>7. Reported
  BY <1>1, <1>2, <1>3, ListingTypes DEF Reported
<1>. QED BY <1>1, <1>3, <1>6, <1>7 DEF DiscoveryInv, RefusedForCause

\* What an entry adds to what was found.
LEMMA DiscoverStep ==
    ASSUME C!DiscoveryAssumption, DiscoveryInv, C!discover_into
    PROVE  DiscoveryInv'
<1>. DEFINE m == C!Manifest(C!Here)
<1>1. /\ C!Here \in [dir : Nat \ {0}, entry : Nat \ {0}] /\ C!Here \in C!Places
      /\ m \in C!Manifests
  BY ReadingIs, PlaceTypes DEF C!Here, C!discover_into, DiscoveryInv, DiscoveryTypes
<1>2. /\ UNCHANGED <<c_listing, c_only, c_dir, c_issues, c_lints>>
      /\ c_entry' = c_entry + 1 /\ c_command = "discover"
      /\ C!Here' = [dir |-> C!Here.dir, entry |-> C!Here.entry + 1]
      /\ Refusal' = C!Here
  <2>1. c_dir' = c_dir /\ c_entry' = c_entry + 1 /\ c_entry' - 1 = c_entry
    <3>1. c_dir' = c_dir /\ c_entry' = c_entry + 1
      BY DEF C!discover_into
    <3>2. c_entry \in Nat
      BY DEF DiscoveryInv, DiscoveryTypes
    <3>. QED BY <3>1, <3>2
  <2>. QED BY <2>1 DEF C!discover_into, C!Here, Refusal
<1>3. /\ C!Places' = C!Places /\ C!Runnable' = C!Runnable /\ Firsts' = Firsts
      /\ \A at : C!Manifest(at)' = C!Manifest(at) /\ C!Complains(at)' = C!Complains(at)
  BY <1>2, SameListing
<1>4. Reported'
  BY <1>2, <1>3 DEF DiscoveryInv, Reported, C!Earlier
<1>5. CASE C!Bails(m)
  <2>1. c_command' = "refused" /\ UNCHANGED c_out
    BY <1>5 DEF C!discover_into
  <2>2. DiscoveryTypes'
    BY <1>2, <1>3, <2>1 DEF DiscoveryInv, DiscoveryTypes
  <2>3. RefusedForCause'
    BY <1>1, <1>2, <1>3, <1>5 DEF RefusedForCause, C!Bails
  <2>. QED BY <1>4, <2>1, <2>2, <2>3 DEF DiscoveryInv, FirstsFound
<1>6. CASE ~ C!Bails(m)
  <2>1. c_command' = "discover"
    BY <1>2, <1>6 DEF C!discover_into
  <2>2. c_out' = IF m.script = "not executable" THEN c_out ELSE C!Found(C!Here)
    BY <1>6 DEF C!discover_into
  <2>3. m.script \in {"ok", "not executable"}
    BY <1>1, <1>6 DEF C!Bails, C!Manifests, C!Script
  <2>4. C!Here \in C!Runnable <=> m.script = "ok"
    BY <1>1 DEF C!Runnable
  <2>5. \A b \in C!Places : C!Earlier(b, C!Here') <=> C!Earlier(b, C!Here) \/ b = C!Here
    BY <1>1, <1>2, NextEntryIs DEF DiscoveryInv
  <2>6. /\ FoundIn(c_out) = {at \in Firsts : C!Earlier(at, C!Here)}
        /\ \A b \in C!Runnable : C!Earlier(b, C!Here) =>
              \E at \in FoundIn(c_out) : C!Manifest(at).name = C!Manifest(b).name
        /\ C!Runnable \subseteq C!Places /\ Firsts \subseteq C!Runnable
        /\ c_out \in Seq(C!Places)
    BY <1>2 DEF DiscoveryInv, DiscoveryTypes, FirstsFound, C!Runnable, Firsts
  <2>7. \A name : C!Known(name) <=> \E at \in FoundIn(c_out) : C!Manifest(at).name = name
    BY DEF C!Known, FoundIn
  <2>9. C!Known(m.name) <=> \E b \in C!Runnable : C!Earlier(b, C!Here) /\ C!Manifest(b).name = m.name
    BY <2>6, <2>7
  <2>10. CASE m.script = "not executable"
    <3>1. /\ {at \in Firsts : C!Earlier(at, C!Here')} = {at \in Firsts : C!Earlier(at, C!Here)}
          /\ \A b \in C!Runnable : C!Earlier(b, C!Here') <=> C!Earlier(b, C!Here)
      BY <2>4, <2>5, <2>6, <2>10
    <3>2. c_out' = c_out
      BY <2>2, <2>10
    <3>3. DiscoveryTypes'
      BY <1>2, <1>3, <2>1, <3>2 DEF DiscoveryInv, DiscoveryTypes
    <3>4. FirstsFound'
      BY <1>3, <2>1, <2>6, <3>1, <3>2 DEF FirstsFound, C!Earlier
    <3>. QED BY <1>4, <2>1, <3>3, <3>4 DEF DiscoveryInv, RefusedForCause
  <2>11. CASE m.script = "ok" /\ C!Known(m.name)
    <3>1. C!Here \notin Firsts
      BY <2>9, <2>11 DEF Firsts
    <3>2. {at \in Firsts : C!Earlier(at, C!Here')} = {at \in Firsts : C!Earlier(at, C!Here)}
      BY <2>5, <2>6, <3>1
    <3>3. c_out' = c_out
      BY <2>2, <2>11 DEF C!Found
    <3>4. DiscoveryTypes'
      BY <1>2, <1>3, <2>1, <3>3 DEF DiscoveryInv, DiscoveryTypes
    <3>5. \A b \in C!Runnable : C!Earlier(b, C!Here') =>
               \E at \in FoundIn(c_out') : C!Manifest(at).name = C!Manifest(b).name
      BY <2>5, <2>6, <2>7, <2>11, <3>3
    <3>6. FirstsFound'
      BY <1>3, <2>1, <2>6, <3>2, <3>3, <3>5 DEF FirstsFound, C!Earlier
    <3>. QED BY <1>4, <2>1, <3>4, <3>6 DEF DiscoveryInv, RefusedForCause
  <2>12. CASE m.script = "ok" /\ ~ C!Known(m.name)
    <3>1. C!Here \in Firsts
      BY <2>4, <2>9, <2>12 DEF Firsts
    <3>2. {at \in Firsts : C!Earlier(at, C!Here')}
            = {at \in Firsts : C!Earlier(at, C!Here)} \cup {C!Here}
      BY <2>5, <2>6, <3>1
    <3>3. c_out' = Append(c_out, C!Here)
      BY <2>2, <2>12 DEF C!Found
    <3>4. FoundIn(c_out') = FoundIn(c_out) \cup {C!Here}
      BY <2>6, <3>3 DEF FoundIn
    <3>5. DiscoveryTypes'
      BY <1>1, <1>2, <1>3, <2>1, <2>6, <3>3 DEF DiscoveryInv, DiscoveryTypes
    <3>6. \A b \in C!Runnable : C!Earlier(b, C!Here') =>
               \E at \in FoundIn(c_out') : C!Manifest(at).name = C!Manifest(b).name
      BY <2>5, <2>6, <2>7, <3>4
    <3>7. FirstsFound'
      BY <1>3, <2>1, <2>6, <3>2, <3>4, <3>6 DEF FirstsFound, C!Earlier
    <3>. QED BY <1>4, <2>1, <3>5, <3>7 DEF DiscoveryInv, RefusedForCause
  <2>. QED BY <2>3, <2>10, <2>11, <2>12
<1>. QED BY <1>5, <1>6

\* Another directory adds nothing.
LEMMA DirectoryStep ==
    ASSUME C!DiscoveryAssumption, DiscoveryInv, C!NextDirectory
    PROVE  DiscoveryInv'
<1>1. /\ C!Here \in [dir : Nat \ {0}, entry : Nat \ {0}] /\ ~ C!Reading(C!Here)
      /\ Len(c_listing) \in Nat /\ c_dir \in Nat
  BY ListingTypes DEF C!Here, C!NextDirectory, DiscoveryInv, DiscoveryTypes
<1>2. /\ UNCHANGED <<c_listing, c_only, c_out, c_issues, c_lints>>
      /\ c_dir' = c_dir + 1 /\ c_entry' = 1 /\ c_command = "discover"
      /\ C!Here' = [dir |-> C!Here.dir + 1, entry |-> 1]
  BY DEF C!NextDirectory, C!Here
<1>3. /\ C!Places' = C!Places /\ C!Runnable' = C!Runnable /\ Firsts' = Firsts
      /\ \A at : C!Manifest(at)' = C!Manifest(at) /\ C!Complains(at)' = C!Complains(at)
  BY <1>2, SameListing
<1>4. Reported'
  BY <1>2, <1>3 DEF DiscoveryInv, Reported, C!Earlier
<1>5. \A b \in C!Places : C!Earlier(b, C!Here') <=> C!Earlier(b, C!Here)
  BY <1>1, <1>2, NextDirectoryIs DEF DiscoveryInv
<1>6. c_command' \in {"discover", "sort", "refused"}
  BY <1>2 DEF C!NextDirectory
<1>7. DiscoveryTypes'
  BY <1>1, <1>2, <1>3, <1>6 DEF DiscoveryInv, DiscoveryTypes
<1>8. FirstsFound'
  <2>1. C!Runnable \subseteq C!Places /\ Firsts \subseteq C!Runnable
    BY DEF C!Runnable, Firsts
  <2>2. /\ FoundIn(c_out') = {at \in Firsts : C!Earlier(at, C!Here')}
        /\ \A b \in C!Runnable : C!Earlier(b, C!Here') =>
              \E at \in FoundIn(c_out') : C!Manifest(at).name = C!Manifest(b).name
    BY <1>2, <1>5, <2>1 DEF DiscoveryInv, FirstsFound
  <2>3. c_command' = "sort" => c_dir > Len(c_listing)
    BY <1>2 DEF C!NextDirectory
  <2>. QED BY <1>1, <1>2, <1>3, <1>6, <2>2, <2>3 DEF FirstsFound, C!Earlier
<1>9. RefusedForCause'
  <2>1. c_command' = "refused" => c_dir \in DOMAIN c_listing /\ c_listing[c_dir] = Unlistable
    BY <1>1, ListingTypes DEF C!NextDirectory, DiscoveryInv, DiscoveryTypes
  <2>. QED BY <1>2, <2>1 DEF RefusedForCause
<1>. QED BY <1>4, <1>7, <1>8, <1>9 DEF DiscoveryInv

\* A set that is sorted is all there, in order.
LEMMA SortedIs ==
    ASSUME C!DiscoveryAssumption, DiscoveryTypes, NEW P, P \subseteq C!Places, IsFiniteSet(P),
           NEW s \in C!Sorted(P)
    PROVE  /\ s \in Seq(P) /\ FoundIn(s) = P
           /\ \A i, j \in DOMAIN s : i < j => C!Before(s[i], s[j])
<1>. DEFINE n == Cardinality(P)
<1>1. /\ n \in Nat /\ IsFiniteSet(1 .. n) /\ Cardinality(1 .. n) = n
  BY FS_CardinalityType, FS_Interval
<1>2. /\ s \in [1 .. n -> P]
      /\ \A i, j \in DOMAIN s : i < j => C!Before(s[i], s[j])
  BY DEF C!Sorted, C!Cardinality, Cardinality
<1>. HIDE DEF n
<1>3. \A a \in P : ~ C!Before(a, a)
  BY PlaceTypes DEF C!Before, C!Manifests
<1>4. \A i, j \in 1 .. n : s[i] = s[j] => i = j
  BY <1>1, <1>2, <1>3
<1>5. s \in Injection(1 .. n, P)
  BY <1>2, <1>4 DEF Injection, IsInjective
<1>6. s \in Surjection(1 .. n, P)
  BY <1>1, <1>5, FS_Injection DEF n
<1>. QED BY <1>1, <1>2, <1>6 DEF FoundIn, Surjection

\* What is in a sequence is a finite set.
LEMMA FoundFinite ==
    ASSUME NEW T, NEW s \in Seq(T)
    PROVE  IsFiniteSet(FoundIn(s))
<1>1. s \in Surjection(DOMAIN s, FoundIn(s))
  BY DEF FoundIn, Surjection
<1>2. IsFiniteSet(DOMAIN s)
  BY FS_Interval
<1>. QED BY <1>1, <1>2, FS_Surjection

\* The names that were asked for, sorted.
LEMMA SelectStep ==
    ASSUME C!DiscoveryAssumption, DiscoveryInv, C!select_extractors
    PROVE  DiscoveryInv'
<1>. DEFINE P == {c_out[i] : i \in {i \in DOMAIN c_out : C!Selected(c_out[i])}}
<1>1. /\ UNCHANGED <<c_listing, c_only, c_dir, c_entry, c_issues, c_lints>>
      /\ c_command = "sort" /\ c_out' \in C!Sorted(P)
      /\ c_command' = IF c_out # <<>> /\ \A n \in c_only : C!Known(n) THEN "run" ELSE "refused"
      /\ c_command' \in {"run", "refused"}
  BY DEF C!select_extractors
<1>2. /\ C!Places' = C!Places /\ C!Runnable' = C!Runnable /\ Firsts' = Firsts
      /\ \A at : C!Manifest(at)' = C!Manifest(at) /\ C!Complains(at)' = C!Complains(at)
      /\ \A at : C!Selected(at)' = C!Selected(at)
  BY <1>1, SameListing DEF C!Selected, C!Manifest
<1>3. Reported'
  BY <1>1, <1>2 DEF DiscoveryInv, Reported, C!Earlier
<1>4. /\ P = {at \in FoundIn(c_out) : C!Selected(at)} /\ P \subseteq C!Places
      /\ IsFiniteSet(P) /\ DiscoveryTypes /\ c_out \in Seq(C!Places)
  <2>1. P = {at \in FoundIn(c_out) : C!Selected(at)}
    BY DEF FoundIn
  <2>2. c_out \in Seq(C!Places) /\ DiscoveryTypes
    BY DEF DiscoveryInv, DiscoveryTypes
  <2>3. IsFiniteSet(FoundIn(c_out))
    BY <2>2, FoundFinite
  <2>4. FoundIn(c_out) \subseteq C!Places
    BY <2>2 DEF FoundIn
  <2>. QED BY <2>1, <2>2, <2>3, <2>4, FS_Subset
<1>. HIDE DEF P
<1>5. /\ c_out' \in Seq(P) /\ FoundIn(c_out') = P
      /\ \A i, j \in DOMAIN c_out' : i < j => C!Before(c_out'[i], c_out'[j])
  BY <1>1, <1>4, SortedIs
<1>6. DiscoveryTypes'
  <2>1. c_out' \in Seq(C!Places)
    BY <1>4, <1>5
  <2>. QED BY <1>1, <1>2, <1>4, <2>1 DEF DiscoveryTypes
<1>8. FirstsFound'
  <2>1. P = {at \in Firsts : C!Selected(at)}
    <3>1. c_dir > Len(c_listing) /\ c_dir \in Nat
      BY <1>1, <1>4 DEF DiscoveryInv, FirstsFound, DiscoveryTypes
    <3>2. \A b \in C!Places : C!Earlier(b, C!Here)
      BY <1>4, <3>1, PastTheLast DEF C!Here
    <3>3. FoundIn(c_out) = Firsts
      BY <1>1, <3>2 DEF DiscoveryInv, FirstsFound, Firsts, C!Runnable
    <3>. QED BY <1>4, <3>3
  <2>2. ASSUME c_command' = "run" PROVE C!OverridesWin'
    <3>1. {c_out'[i] : i \in DOMAIN c_out'} =
              {at \in C!Runnable' :
                  /\ C!Selected(at)'
                  /\ \A b \in C!Runnable' : C!Earlier(b, at) => C!Manifest(b)'.name # C!Manifest(at)'.name}
      BY <1>2, <1>5, <2>1 DEF Firsts, FoundIn
    <3>2. (\A i, j \in DOMAIN c_out : i < j => C!Before(c_out[i], c_out[j]))'
      BY <1>1, <1>5 DEF C!Before, C!Manifest
    <3>3. ASSUME NEW n \in c_only PROVE C!Known(n)'
      <4>1. PICK at \in FoundIn(c_out) : C!Manifest(at).name = n
        BY <1>1, <2>2 DEF C!Known, FoundIn
      <4>2. at \in P
        BY <1>4, <4>1 DEF C!Selected
      <4>. QED BY <1>2, <1>5, <4>1, <4>2 DEF C!Known, FoundIn
    <3>. QED BY <1>1, <3>1, <3>2, <3>3 DEF C!OverridesWin, C!Earlier
  <2>. QED BY <1>1, <2>2 DEF FirstsFound
<1>9. RefusedForCause'
  <2>. SUFFICES ASSUME c_command' = "refused"
                PROVE  \/ c_dir' > Len(c_listing') /\ c_out' = <<>>
                       \/ \E n \in c_only' : ~ C!Known(n)'
    BY DEF RefusedForCause
  <2>1. CASE c_out = <<>>
    <3>1. P = {}
      BY <1>4, <2>1 DEF FoundIn
    <3>2. c_out' = <<>>
      BY <1>5, <3>1
    <3>. QED BY <1>1, <3>2 DEF DiscoveryInv, FirstsFound
  <2>2. CASE c_out # <<>>
    <3>1. PICK n \in c_only : ~ C!Known(n)
      BY <1>1, <2>2
    <3>2. \A at \in FoundIn(c_out') : at \in FoundIn(c_out)
      BY <1>4, <1>5
    <3>3. ~ C!Known(n)'
      BY <1>2, <3>1, <3>2 DEF C!Known, FoundIn
    <3>. QED BY <1>1, <3>1, <3>3
  <2>. QED BY <2>1, <2>2
<1>. QED BY <1>3, <1>6, <1>8, <1>9 DEF DiscoveryInv

\* Lint does not disturb the command.
LEMMA CommandStays ==
    ASSUME DiscoveryInv, UNCHANGED <<c_listing, c_only, c_dir, c_entry, c_out, c_command>>,
           c_lints' \in [dir : Nat \ {0}, entry : Nat \ {0}]
    PROVE  DiscoveryTypes' /\ FirstsFound' /\ RefusedForCause'
<1>1. /\ C!Places' = C!Places /\ C!Runnable' = C!Runnable /\ Firsts' = Firsts
      /\ \A at : C!Manifest(at)' = C!Manifest(at)
      /\ C!Here' = C!Here /\ Refusal' = Refusal
  BY SameListing DEF C!Here, Refusal
<1>2. DiscoveryTypes'
  BY <1>1 DEF DiscoveryInv, DiscoveryTypes
<1>3. FirstsFound'
  <2>1. C!OverridesWin' = C!OverridesWin
    BY <1>1 DEF C!OverridesWin, C!Earlier, C!Before, C!Manifest, C!Known, C!Selected
  <2>. QED BY <1>1, <2>1 DEF DiscoveryInv, FirstsFound, C!Earlier
<1>4. RefusedForCause'
  BY <1>1 DEF DiscoveryInv, RefusedForCause, C!Bails, C!Known, C!Manifest
<1>. QED BY <1>2, <1>3, <1>4

\* It reports an entry ...
LEMMA LintStep ==
    ASSUME C!DiscoveryAssumption, DiscoveryInv, C!lint_one
    PROVE  DiscoveryInv'
<1>1. /\ UNCHANGED <<c_listing, c_only, c_dir, c_entry, c_out, c_command>>
      /\ c_lints' = [dir |-> c_lints.dir, entry |-> c_lints.entry + 1]
      /\ c_lints \in [dir : Nat \ {0}, entry : Nat \ {0}]
      /\ c_issues' = IF C!Complains(c_lints) THEN c_issues \cup {c_lints} ELSE c_issues
  BY DEF C!lint_one, DiscoveryInv, DiscoveryTypes
<1>2. /\ C!Places' = C!Places
      /\ \A at : C!Complains(at)' = C!Complains(at)
  BY <1>1, SameListing
<1>3. DiscoveryTypes' /\ FirstsFound' /\ RefusedForCause'
  BY <1>1, CommandStays
<1>4. Reported'
  <2>1. \A b \in C!Places : C!Earlier(b, c_lints') <=> C!Earlier(b, c_lints) \/ b = c_lints
    BY <1>1, NextEntryIs DEF DiscoveryInv
  <2>2. \A b \in C!Places' : C!Earlier(b, c_lints') /\ C!Complains(b)' => b \in c_issues'
    BY <1>1, <1>2, <2>1 DEF DiscoveryInv, Reported
  <2>3. \A d \in DOMAIN c_listing : c_listing[d] = Unlistable /\ d < c_lints'.dir => c_issues' # {}
    BY <1>1 DEF DiscoveryInv, Reported
  <2>. QED BY <1>1, <2>2, <2>3 DEF Reported, C!Earlier
<1>. QED BY <1>3, <1>4 DEF DiscoveryInv

\* ... and a directory that cannot be listed.
LEMMA LintNextStep ==
    ASSUME C!DiscoveryAssumption, DiscoveryInv, C!lint_next
    PROVE  DiscoveryInv'
<1>1. /\ UNCHANGED <<c_listing, c_only, c_dir, c_entry, c_out, c_command>>
      /\ c_lints' = [dir |-> c_lints.dir + 1, entry |-> 1]
      /\ c_lints \in [dir : Nat \ {0}, entry : Nat \ {0}]
      /\ c_issues' = IF c_listing[c_lints.dir] = Unlistable THEN c_issues \cup {c_lints} ELSE c_issues
      /\ ~ C!Reading(c_lints)
  BY DEF C!lint_next, DiscoveryInv, DiscoveryTypes
<1>2. /\ C!Places' = C!Places
      /\ \A at : C!Complains(at)' = C!Complains(at)
  BY <1>1, SameListing
<1>3. DiscoveryTypes' /\ FirstsFound' /\ RefusedForCause'
  BY <1>1, CommandStays
<1>4. Reported'
  <2>1. \A b \in C!Places : C!Earlier(b, c_lints') <=> C!Earlier(b, c_lints)
    BY <1>1, NextDirectoryIs DEF DiscoveryInv
  <2>2. \A b \in C!Places' : C!Earlier(b, c_lints') /\ C!Complains(b)' => b \in c_issues'
    BY <1>1, <1>2, <2>1 DEF DiscoveryInv, Reported
  <2>3. \A d \in DOMAIN c_listing : c_listing[d] = Unlistable /\ d < c_lints'.dir => c_issues' # {}
    <3>1. \A d \in DOMAIN c_listing : d \in Nat
      BY ListingTypes DEF DiscoveryInv
    <3>. QED BY <1>1, <3>1 DEF DiscoveryInv, Reported
  <2>. QED BY <1>1, <2>2, <2>3 DEF Reported, C!Earlier
<1>. QED BY <1>3, <1>4 DEF DiscoveryInv

(***************************************************************************)
(* A command runs each extractor from the first directory that has one it  *)
(* can run, each once and in order, and a clean lint means that none is    *)
(* refused, for any directories and names (extractor.rs discover, lint).   *)
(***************************************************************************)
THEOREM DiscoveryKeepsFaith ==
    ASSUME C!DiscoveryAssumption
    PROVE  C!Spec => []DiscoveryHolds
<1>1. C!Init => DiscoveryInv
  BY DiscoveryStart
<1>2. DiscoveryInv /\ [C!Next]_(C!vars) => DiscoveryInv'
  <2>. SUFFICES ASSUME DiscoveryInv, [C!Next]_(C!vars) PROVE DiscoveryInv'
    OBVIOUS
  <2>1. CASE UNCHANGED C!vars
    <3>1. UNCHANGED <<c_listing, c_only, c_dir, c_entry, c_out, c_command, c_issues, c_lints>>
      BY <2>1 DEF C!vars
    <3>2. c_lints' \in [dir : Nat \ {0}, entry : Nat \ {0}]
      BY <3>1 DEF DiscoveryInv, DiscoveryTypes
    <3>3. C!Places' = C!Places /\ \A at : C!Complains(at)' = C!Complains(at)
      BY <3>1, SameListing
    <3>4. Reported'
      BY <3>1, <3>3 DEF DiscoveryInv, Reported, C!Earlier
    <3>. QED BY <3>1, <3>2, <3>4, CommandStays DEF DiscoveryInv
  <2>. QED BY <2>1, DiscoverStep, DirectoryStep, SelectStep, LintStep, LintNextStep
           DEF C!Next, C!Finished
<1>3. DiscoveryInv => DiscoveryHolds
  <2>. SUFFICES ASSUME DiscoveryInv PROVE C!OverridesWin /\ C!LintIsSound
    BY DEF DiscoveryHolds, C!DiscoveryHolds
  <2>1. C!OverridesWin
    BY DEF DiscoveryInv, FirstsFound, C!OverridesWin
  <2>2. ASSUME C!Linted, c_issues = {}, c_command = "refused"
        PROVE  \/ (c_out = <<>> /\ c_dir > Len(c_listing))
               \/ \E n \in c_only : ~ C!Known(n)
               \/ C!Manifest(Refusal).script = "unreadable"
    <3>1. c_lints.dir > Len(c_listing) /\ c_lints.dir \in Nat
      BY <2>2 DEF C!Linted, DiscoveryInv, DiscoveryTypes
    <3>2. \A b \in C!Places : C!Earlier(b, c_lints)
      BY <3>1, PastTheLast DEF DiscoveryInv
    <3>3. \A d \in DOMAIN c_listing : c_listing[d] # Unlistable
      BY <2>2, <3>1, ListingTypes DEF DiscoveryInv, Reported
    <3>4. CASE Refusal \in C!Places /\ C!Bails(C!Manifest(Refusal))
      <4>1. ~ C!Complains(Refusal)
        BY <2>2, <3>2, <3>4 DEF DiscoveryInv, Reported
      <4>. QED BY <3>4, <4>1 DEF C!Complains, C!Bails
    <3>. QED BY <2>2, <3>3, <3>4 DEF DiscoveryInv, RefusedForCause
  <2>. QED BY <2>1, <2>2 DEF C!LintIsSound, Refusal
<1>. QED BY <1>1, <1>2, <1>3, PTL DEF C!Spec

-----------------------------------------------------------------------------
(***************************************************************************)
(* StatsSummary                                                            *)
(***************************************************************************)

\* What CHOOSE makes of a set.
Pick(s) == CHOOSE x \in s : TRUE

\* g is what the fold makes of the durations of the lines in subsets of K.
Adds(g, q, K) ==
    g = [s \in SUBSET K |-> IF s = {} THEN 0 ELSE q[Pick(s)].duration + g[s \ {Pick(s)}]]

LEMMA FoldIsSum ==
    ASSUME NEW q, NEW K
    PROVE  M!TimeOf(q, K) = (CHOOSE g : Adds(g, q, K))[K]
BY DEF M!TimeOf, M!MapThenSumSet, M!MapThenFoldSet, Adds, Pick

\* The durations are numbers.
Counted(q, K) == IsFiniteSet(K) /\ \A i \in K : q[i].duration \in Nat

\* There is such a function.
LEMMA SumExists ==
    ASSUME NEW q, NEW K, Counted(q, K)
    PROVE  \E g : Adds(g, q, K)
<1>. DEFINE Small(n) == {s \in SUBSET K : Cardinality(s) <= n}
            Step(g, s) == IF s = {} THEN 0 ELSE q[Pick(s)].duration + g[s \ {Pick(s)}]
            P(n) == \E g : g = [s \in Small(n) |-> Step(g, s)]
<1>1. \A s \in SUBSET K : IsFiniteSet(s) /\ Cardinality(s) \in Nat
  BY FS_Subset, FS_CardinalityType DEF Counted
<1>2. \A s \in SUBSET K : s # {} => /\ Pick(s) \in s
                                   /\ s \ {Pick(s)} \in SUBSET K
                                   /\ Cardinality(s \ {Pick(s)}) = Cardinality(s) - 1
  BY <1>1, FS_RemoveElement DEF Pick
<1>3. P(0)
  <2>1. \A s \in Small(0) : s = {}
    BY <1>1, FS_EmptySet
  <2>. DEFINE g == [s \in Small(0) |-> 0]
  <2>2. \A s \in Small(0) : Step(g, s) = 0
    BY <2>1
  <2>3. g = [s \in Small(0) |-> Step(g, s)]
    BY <2>2
  <2>. QED BY <2>3
<1>4. ASSUME NEW n \in Nat, P(n) PROVE P(n + 1)
  <2>1. PICK g : g = [s \in Small(n) |-> Step(g, s)]
    BY <1>4
  <2>. DEFINE h == [s \in Small(n + 1) |-> Step(g, s)]
  <2>2. ASSUME NEW s \in Small(n + 1) PROVE Step(g, s) = Step(h, s)
    <3>1. CASE s = {}
      BY <3>1
    <3>2. CASE s # {}
      <4>1. s \ {Pick(s)} \in Small(n)
        BY <1>1, <1>2, <3>2
      <4>2. Small(n) \subseteq Small(n + 1)
        BY <1>1
      <4>3. g[s \ {Pick(s)}] = h[s \ {Pick(s)}]
        BY <2>1, <4>1, <4>2, Zenon
      <4>. QED BY <3>2, <4>3
    <3>. QED BY <3>1, <3>2
  <2>. HIDE DEF Step
  <2>3. h = [s \in Small(n + 1) |-> Step(h, s)]
    BY <2>2
  <2>. QED BY <2>3
<1>. HIDE DEF P
<1>5. \A n \in Nat : P(n)
  <2>. SUFFICES ASSUME {n \in Nat : ~ P(n)} # {} PROVE FALSE
    OBVIOUS
  <2>1. PICK n \in {m \in Nat : ~ P(m)} : \A m \in {m \in Nat : ~ P(m)} : n <= m
    BY Smallest
  <2>2. n # 0
    BY <1>3, <2>1
  <2>3. n - 1 \in Nat /\ P(n - 1)
    BY <2>1, <2>2
  <2>4. P((n - 1) + 1)
    BY <1>4, <2>3
  <2>. QED BY <2>1, <2>4
<1>6. Cardinality(K) \in Nat /\ Small(Cardinality(K)) = SUBSET K
  <2>1. \A s \in SUBSET K : Cardinality(s) <= Cardinality(K)
    BY FS_Subset DEF Counted
  <2>. QED BY <1>1, <2>1
<1>7. PICK g : g = [s \in SUBSET K |-> Step(g, s)]
  BY <1>5, <1>6 DEF P
<1>. QED BY <1>7 DEF Adds

\* Its values are numbers.
LEMMA SumType ==
    ASSUME NEW q, NEW K, Counted(q, K), NEW g, Adds(g, q, K)
    PROVE  \A s \in SUBSET K : g[s] \in Nat
<1>. SUFFICES ASSUME {s \in SUBSET K : g[s] \notin Nat} # {} PROVE FALSE
  OBVIOUS
<1>. DEFINE Bad == {s \in SUBSET K : g[s] \notin Nat}
<1>1. \A s \in SUBSET K : IsFiniteSet(s) /\ Cardinality(s) \in Nat
  BY FS_Subset, FS_CardinalityType DEF Counted
<1>2. PICK s \in Bad : \A t \in Bad : Cardinality(s) <= Cardinality(t)
  <2>1. {Cardinality(t) : t \in Bad} \subseteq Nat /\ {Cardinality(t) : t \in Bad} # {}
    BY <1>1
  <2>2. PICK n \in {Cardinality(t) : t \in Bad} : \A m \in {Cardinality(t) : t \in Bad} : n <= m
    BY <2>1, Smallest
  <2>. QED BY <2>2
<1>3. s # {}
  BY <1>2 DEF Adds
<1>4. Pick(s) \in s /\ Cardinality(s \ {Pick(s)}) = Cardinality(s) - 1
  BY <1>1, <1>3, FS_RemoveElement DEF Pick
<1>5. g[s \ {Pick(s)}] \in Nat
  BY <1>1, <1>2, <1>4
<1>6. g[s] = q[Pick(s)].duration + g[s \ {Pick(s)}]
  BY <1>2, <1>3 DEF Adds
<1>. QED BY <1>2, <1>4, <1>5, <1>6 DEF Counted

\* Any of the lines may be the one that is added last.
LEMMA SumPeels ==
    ASSUME NEW q, NEW K, Counted(q, K), NEW g, Adds(g, q, K)
    PROVE  \A s \in SUBSET K : \A x \in s : g[s] = q[x].duration + g[s \ {x}]
<1>. DEFINE Good(s) == \A x \in s : g[s] = q[x].duration + g[s \ {x}]
            Bad == {s \in SUBSET K : ~ Good(s)}
<1>. SUFFICES ASSUME Bad # {} PROVE FALSE
  OBVIOUS
<1>1. \A s \in SUBSET K : IsFiniteSet(s) /\ Cardinality(s) \in Nat
  BY FS_Subset, FS_CardinalityType DEF Counted
<1>2. PICK s \in Bad : \A t \in Bad : Cardinality(s) <= Cardinality(t)
  <2>. HIDE DEF Good
  <2>1. {Cardinality(t) : t \in Bad} \subseteq Nat /\ {Cardinality(t) : t \in Bad} # {}
    BY <1>1
  <2>2. PICK n \in {Cardinality(t) : t \in Bad} : \A m \in {Cardinality(t) : t \in Bad} : n <= m
    BY <2>1, Smallest
  <2>. QED BY <2>2
<1>3. \A x \in s : Good(s \ {x})
  <2>1. \A x \in s : Cardinality(s \ {x}) = Cardinality(s) - 1
    BY <1>1, FS_RemoveElement
  <2>. HIDE DEF Good
  <2>. QED BY <1>1, <1>2, <2>1
<1>4. PICK x \in s : g[s] # q[x].duration + g[s \ {x}]
  BY <1>2
<1>. DEFINE y == Pick(s)
<1>5. y \in s /\ g[s] = q[y].duration + g[s \ {y}]
  BY <1>4 DEF Adds, Pick
<1>. HIDE DEF y
<1>6. y # x
  BY <1>4, <1>5
<1>7. /\ g[s \ {y}] = q[x].duration + g[(s \ {y}) \ {x}]
      /\ g[s \ {x}] = q[y].duration + g[(s \ {x}) \ {y}]
  BY <1>3, <1>5, <1>6
<1>8. (s \ {y}) \ {x} = (s \ {x}) \ {y}
  OBVIOUS
<1>9. /\ q[x].duration \in Nat /\ q[y].duration \in Nat
      /\ g[(s \ {x}) \ {y}] \in Nat
  BY <1>5, SumType DEF Counted
<1>10. g[s \ {y}] = q[x].duration + g[(s \ {x}) \ {y}]
  BY <1>7, <1>8
<1>. QED
  <2>. DEFINE z == g[(s \ {x}) \ {y}]
  <2>1. /\ g[s] = q[y].duration + (q[x].duration + z)
        /\ q[x].duration + g[s \ {x}] = q[x].duration + (q[y].duration + z)
    BY <1>5, <1>7, <1>10
  <2>2. z \in Nat
    BY <1>9
  <2>. HIDE DEF z
  <2>. QED BY <1>4, <1>9, <2>1, <2>2

\* What is summed does not depend on the set it is a part of, nor on other lines.
LEMMA SumAgrees ==
    ASSUME NEW q, NEW K, Counted(q, K), NEW g, Adds(g, q, K),
           NEW r, NEW J, Counted(r, J), NEW h, Adds(h, r, J),
           K \subseteq J, \A i \in K : q[i] = r[i]
    PROVE  \A s \in SUBSET K : g[s] = h[s]
<1>. DEFINE Bad == {s \in SUBSET K : g[s] # h[s]}
<1>. SUFFICES ASSUME Bad # {} PROVE FALSE
  OBVIOUS
<1>1. \A s \in SUBSET K : IsFiniteSet(s) /\ Cardinality(s) \in Nat
  BY FS_Subset, FS_CardinalityType DEF Counted
<1>2. PICK s \in Bad : \A t \in Bad : Cardinality(s) <= Cardinality(t)
  <2>1. {Cardinality(t) : t \in Bad} \subseteq Nat /\ {Cardinality(t) : t \in Bad} # {}
    BY <1>1
  <2>2. PICK n \in {Cardinality(t) : t \in Bad} : \A m \in {Cardinality(t) : t \in Bad} : n <= m
    BY <2>1, Smallest
  <2>. QED BY <2>2
<1>3. s # {}
  BY <1>2 DEF Adds
<1>4. Pick(s) \in s /\ Cardinality(s \ {Pick(s)}) = Cardinality(s) - 1
  BY <1>1, <1>3, FS_RemoveElement DEF Pick
<1>5. g[s \ {Pick(s)}] = h[s \ {Pick(s)}]
  BY <1>1, <1>2, <1>4
<1>6. g[s] = q[Pick(s)].duration + g[s \ {Pick(s)}]
  BY <1>2, <1>3 DEF Adds
<1>7. h[s] = r[Pick(s)].duration + h[s \ {Pick(s)}]
  BY <1>2, <1>3 DEF Adds
<1>. QED BY <1>2, <1>4, <1>5, <1>6, <1>7

-----------------------------------------------------------------------------

\* last_ts is the time of a line and no line's is later.
LatestOfAll ==
    /\ m_lines = <<>> => m_acc.last_ts = 0
    /\ m_lines # <<>> =>
          /\ \E i \in DOMAIN m_lines : m_acc.last_ts = m_lines[i].ts
          /\ \A i \in DOMAIN m_lines : m_acc.last_ts >= m_lines[i].ts

\* The larger of two numbers.
LEMMA MaxOfTwo ==
    ASSUME NEW a \in Nat, NEW b \in Nat
    PROVE  M!Max({a, b}) = IF a >= b THEN a ELSE b
BY DEF M!Max

\* The maximum is the member that no other exceeds.
LEMMA MaxIs ==
    ASSUME NEW K, K \subseteq Nat, NEW m \in K, \A x \in K : m >= x
    PROVE  M!Max(K) = m
<1>1. \A x \in K : (\A y \in K : x >= y) => x = m
  OBVIOUS
<1>. QED BY <1>1, Zenon DEF M!Max

\* A row is a record, and agrees with the lines so far.
SummaryInv ==
    /\ m_lines \in Seq(Event)
    /\ m_acc = [runs |-> m_acc.runs, by |-> m_acc.by, total_ms |-> m_acc.total_ms,
                forked |-> m_acc.forked, last_ts |-> m_acc.last_ts,
                recent_domains |-> m_acc.recent_domains]
    /\ DOMAIN m_acc.by = M!Outcome
    /\ LatestOfAll
    /\ M!RowAgrees

\* Every line keeps the row in agreement.
LEMMA SummaryStep ==
    ASSUME M!StatsSummaryAssumption, SummaryInv, [M!Next]_(M!summary_vars)
    PROVE  SummaryInv'
<1>. DEFINE n == Len(m_lines)
<1>1. CASE UNCHANGED <<m_lines, m_acc>>
  BY <1>1 DEF SummaryInv, LatestOfAll, M!RowAgrees, M!With, M!Timed
<1>2. ASSUME NEW e \in Event, M!bump(e) PROVE SummaryInv'
  <2>1. /\ e.ts \in Nat /\ e.outcome \in M!Outcome /\ e.duration \in Nat \cup {NoDuration}
        /\ NoDuration \notin Nat
    BY DEF M!StatsSummaryAssumption
  <2>2. /\ m_lines \in Seq(Event) /\ m_lines' = Append(m_lines, e) /\ n \in Nat
        /\ m_lines' \in Seq(Event) /\ m_lines' # <<>>
        /\ DOMAIN m_lines = 1 .. n /\ DOMAIN m_lines' = 1 .. n + 1
        /\ 1 .. n + 1 = (1 .. n) \cup {n + 1} /\ n + 1 \notin 1 .. n
        /\ \A i \in 1 .. n : m_lines'[i] = m_lines[i] /\ m_lines[i] \in Event
        /\ m_lines'[n + 1] = e
    BY <1>2 DEF SummaryInv, M!bump
  <2>. HIDE DEF n
  <2>3. /\ m_acc'.runs = m_acc.runs + 1
        /\ m_acc'.by = [m_acc.by EXCEPT ![e.outcome] = @ + 1]
        /\ m_acc'.total_ms = IF e.duration = NoDuration THEN m_acc.total_ms
                             ELSE m_acc.total_ms + e.duration
        /\ m_acc'.forked = IF e.duration = NoDuration THEN m_acc.forked ELSE m_acc.forked + 1
        /\ m_acc'.last_ts = M!Max({m_acc.last_ts, e.ts})
        /\ m_acc' = [runs |-> m_acc'.runs, by |-> m_acc'.by, total_ms |-> m_acc'.total_ms,
                forked |-> m_acc'.forked, last_ts |-> m_acc'.last_ts,
                recent_domains |-> m_acc'.recent_domains]
    BY <1>2 DEF M!bump, M!Latest
  <2>4. \A K \in SUBSET (1 .. n) : /\ IsFiniteSet(K) /\ Cardinality(K) \in Nat
                                  /\ Cardinality(K \cup {n + 1}) = Cardinality(K) + 1
    <3>1. IsFiniteSet(1 .. n)
      BY <2>2, FS_Interval
    <3>. QED BY <2>2, <3>1, FS_Subset, FS_CardinalityType, FS_AddElement
  <2>5. (m_acc.runs = M!Cardinality(DOMAIN m_lines))'
    <3>1. m_acc.runs = Cardinality(1 .. n)
      BY <2>2 DEF SummaryInv, M!RowAgrees, M!Cardinality, Cardinality
    <3>2. m_acc'.runs = Cardinality(DOMAIN m_lines')
      <4>1. Cardinality((1 .. n) \cup {n + 1}) = Cardinality(1 .. n) + 1
        BY <2>4
      <4>. QED BY <2>2, <2>3, <3>1, <4>1
    <3>. QED BY <3>2 DEF M!Cardinality, Cardinality
  <2>6. ASSUME NEW o \in M!Outcome PROVE (m_acc.by[o] = M!Cardinality(M!With(o)))'
    <3>1. M!With(o) \in SUBSET (1 .. n)
      BY <2>2 DEF M!With
    <3>2. M!With(o)' = IF e.outcome = o THEN M!With(o) \cup {n + 1} ELSE M!With(o)
      BY <2>2 DEF M!With
    <3>3. m_acc.by[o] = Cardinality(M!With(o))
      BY DEF SummaryInv, M!RowAgrees, M!Cardinality, Cardinality
    <3>4. m_acc'.by[o] = IF e.outcome = o THEN m_acc.by[o] + 1 ELSE m_acc.by[o]
      BY <2>3 DEF SummaryInv
    <3>5. m_acc'.by[o] = Cardinality(M!With(o)')
      BY <2>4, <3>1, <3>2, <3>3, <3>4
    <3>. QED BY <3>5 DEF M!Cardinality, Cardinality
  <2>7. /\ M!Timed \in SUBSET (1 .. n)
        /\ M!Timed' = IF e.duration = NoDuration THEN M!Timed ELSE M!Timed \cup {n + 1}
    BY <2>2 DEF M!Timed
  <2>8. (m_acc.forked = M!Cardinality(M!Timed))'
    <3>1. m_acc.forked = Cardinality(M!Timed)
      BY DEF SummaryInv, M!RowAgrees, M!Cardinality, Cardinality
    <3>2. m_acc'.forked = Cardinality(M!Timed')
      BY <2>3, <2>4, <2>7, <3>1
    <3>. QED BY <3>2 DEF M!Cardinality, Cardinality
  <2>9. m_acc'.total_ms = M!TimeOf(m_lines', M!Timed')
    <3>. DEFINE K == M!Timed
                J == M!Timed'
    <3>1. Counted(m_lines, K) /\ Counted(m_lines', J)
      <4>1. IsFiniteSet(K) /\ IsFiniteSet(J)
        BY <2>4, <2>7, FS_AddElement
      <4>2. \A i \in K : m_lines[i].duration \in Nat
        BY <2>2 DEF M!Timed, M!StatsSummaryAssumption
      <4>3. \A i \in J : m_lines'[i].duration \in Nat
        BY <2>1, <2>2, <2>7, <4>2
      <4>. QED BY <4>1, <4>2, <4>3 DEF Counted
    <3>. DEFINE g == CHOOSE g : Adds(g, m_lines, K)
                h == CHOOSE h : Adds(h, m_lines', J)
    <3>. HIDE DEF K, J
    <3>2. Adds(g, m_lines, K) /\ Adds(h, m_lines', J)
      BY <3>1, SumExists
    <3>3. m_acc.total_ms = g[K]
      BY FoldIsSum DEF SummaryInv, M!RowAgrees, K
    <3>. HIDE DEF g, h
    <3>4. K \subseteq J /\ \A i \in K : m_lines[i] = m_lines'[i]
      BY <2>2, <2>7 DEF K, J
    <3>5. g[K] = h[K]
      BY <3>1, <3>2, <3>4, SumAgrees
    <3>8. M!TimeOf(m_lines', M!Timed') = h[J]
      BY FoldIsSum DEF h, J
    <3>6. CASE e.duration = NoDuration
      <4>1. K = J
        BY <2>7, <3>6 DEF K, J
      <4>. QED BY <2>3, <3>3, <3>5, <3>6, <3>8, <4>1
    <3>7. CASE e.duration # NoDuration
      <4>1. n + 1 \in J /\ J \ {n + 1} = K
        BY <2>2, <2>7, <3>7 DEF K, J
      <4>2. h[J] = m_lines'[n + 1].duration + h[K]
        BY <3>1, <3>2, <4>1, SumPeels
      <4>3. h[K] \in Nat
        BY <3>1, <3>2, <3>4, SumType
      <4>4. m_acc'.total_ms = h[J]
        BY <2>1, <2>2, <2>3, <3>3, <3>5, <3>7, <4>2, <4>3
      <4>. QED BY <3>8, <4>4
    <3>. QED BY <3>6, <3>7
  <2>11. LatestOfAll'
    <3>1. /\ \A i \in 1 .. n : m_lines[i].ts \in Nat
          /\ m_acc.last_ts \in Nat
      BY <2>2 DEF M!StatsSummaryAssumption, SummaryInv, LatestOfAll
    <3>2. m_acc'.last_ts = IF m_acc.last_ts >= e.ts THEN m_acc.last_ts ELSE e.ts
      BY <2>1, <2>3, <3>1, MaxOfTwo
    <3>3. CASE m_lines = <<>>
      <4>1. n = 0 /\ m_acc.last_ts = 0
        BY <2>2, <3>3 DEF SummaryInv, LatestOfAll, n
      <4>. QED BY <2>1, <2>2, <3>2, <4>1 DEF LatestOfAll
    <3>4. CASE m_lines # <<>>
      <4>1. PICK k \in 1 .. n : m_acc.last_ts = m_lines[k].ts
        BY <2>2, <3>4 DEF SummaryInv, LatestOfAll
      <4>2. \A i \in 1 .. n : m_acc.last_ts >= m_lines[i].ts
        BY <2>2, <3>4 DEF SummaryInv, LatestOfAll
      <4>3. \A i \in DOMAIN m_lines' : m_acc'.last_ts >= m_lines'[i].ts
        BY <2>1, <2>2, <3>1, <3>2, <4>2
      <4>4. \E i \in DOMAIN m_lines' : m_acc'.last_ts = m_lines'[i].ts
        BY <2>2, <3>2, <4>1
      <4>. QED BY <2>2, <4>3, <4>4 DEF LatestOfAll
    <3>. QED BY <3>3, <3>4
  <2>10. m_acc'.last_ts = M!Max({m_lines'[i].ts : i \in DOMAIN m_lines'})
    <3>. DEFINE times == {m_lines'[i].ts : i \in DOMAIN m_lines'}
    <3>1. times \subseteq Nat
      BY <2>2 DEF M!StatsSummaryAssumption
    <3>2. m_acc'.last_ts \in times /\ \A t \in times : m_acc'.last_ts >= t
      BY <2>2, <2>11 DEF LatestOfAll
    <3>. QED BY <3>1, <3>2, MaxIs
  <2>. QED BY <2>2, <2>3, <2>5, <2>6, <2>8, <2>9, <2>10, <2>11 DEF SummaryInv, M!RowAgrees
<1>. QED BY <1>1, <1>2 DEF M!Next, M!Done, M!summary_vars

(***************************************************************************)
(* The row of an extractor (Acc::bump) agrees with its lines: a count for   *)
(* each outcome, the runs, the runs that were timed, the time they took and *)
(* the latest of all, in whatever order the lines were written.            *)
(***************************************************************************)
THEOREM SummaryAgrees ==
    ASSUME M!StatsSummaryAssumption
    PROVE  M!Spec => []RowAgrees
<1>1. M!Init => SummaryInv
  <2>. SUFFICES ASSUME M!Init PROVE SummaryInv
    OBVIOUS
  <2>1. /\ m_lines = <<>> /\ m_lines \in Seq(Event) /\ DOMAIN m_lines = {}
        /\ m_acc.runs = 0 /\ m_acc.total_ms = 0 /\ m_acc.forked = 0 /\ m_acc.last_ts = 0
        /\ m_acc.by = [o \in M!Outcome |-> 0]
    BY DEF M!Init
  <2>2. M!Timed = {} /\ \A o \in M!Outcome : M!With(o) = {}
    BY <2>1 DEF M!Timed, M!With
  <2>3. M!Cardinality({}) = 0
    BY FS_EmptySet DEF M!Cardinality, Cardinality
  <2>4. M!TimeOf(m_lines, M!Timed) = 0
    <3>. DEFINE K == M!Timed
                g == CHOOSE g : Adds(g, m_lines, K)
    <3>1. Counted(m_lines, K)
      BY <2>2, FS_EmptySet DEF Counted
    <3>. HIDE DEF K
    <3>2. Adds(g, m_lines, K)
      BY <3>1, SumExists
    <3>. HIDE DEF g
    <3>3. g[K] = 0
      BY <2>2, <3>2 DEF Adds, K
    <3>. QED BY <3>3, FoldIsSum DEF g, K
  <2>5. LatestOfAll
    BY <2>1 DEF LatestOfAll
  <2>. QED BY <2>1, <2>2, <2>3, <2>4, <2>5 DEF SummaryInv, M!RowAgrees, M!Init
<1>2. SummaryInv /\ [M!Next]_(M!summary_vars) => SummaryInv'
  BY SummaryStep
<1>3. SummaryInv => RowAgrees
  BY DEF SummaryInv, RowAgrees
<1>. QED BY <1>1, <1>2, <1>3, PTL DEF M!Spec

-----------------------------------------------------------------------------
(***************************************************************************)
(* The parts together                                                      *)
(***************************************************************************)

(***************************************************************************)
(* What has been proved of a part holds where it is among the others: no   *)
(* part touches another's state.                                           *)
(***************************************************************************)
THEOREM ProcessHolds ==
    ASSUME ProcessAssumption
    PROVE  ProcessSpec => /\ []NeverPresentsExpired
                          /\ []OnlyAuthenticatedFiled
                          /\ []NothingForgotten
                          /\ []OutcomeIsTheChilds
                          /\ []RecentStayOnFile
                          /\ []StartsAsConfigured
                          /\ []RowAgrees
                          /\ []DiscoveryHolds
                          /\ []AnswersAreTrue
                          /\ []NothingSkipped
<1>1. /\ OAuth2Assumption /\ L!PipelineAssumption /\ E!ExtractorRunAssumption
      /\ S!StatsAssumption /\ U!StartupAssumption /\ M!StatsSummaryAssumption
      /\ C!DiscoveryAssumption /\ A!DashboardAssumption
  BY DEF ProcessAssumption
<1>2. ProcessInit => /\ Init /\ L!Init /\ E!Init /\ S!Init /\ U!Init /\ M!Init /\ C!Init
                     /\ A!Init
  BY DEF ProcessInit
<1>3. ASSUME [ProcessNext]_parts
      PROVE  /\ [Next]_vars
             /\ [L!Next]_(L!vars)
             /\ [E!Next]_(E!vars)
             /\ [S!Next]_(S!vars)
             /\ [U!Next]_(U!vars)
             /\ [M!Next]_(M!summary_vars)
             /\ [C!Next]_(C!vars)
             /\ [A!Next]_(A!vars)
  <2>. USE <1>3 DEF ProcessNext, PipelineStep, ExtractorRunStep, DiscoveryStep, StatsStep,
                    StatsSummaryStep, OAuth2Step, StartupStep, DashboardStep, parts
  <2>1. [Next]_vars
    OBVIOUS
  <2>2. [L!Next]_(L!vars)
    BY DEF lvars, L!vars
  <2>3. [E!Next]_(E!vars)
    BY DEF evars, E!vars
  <2>4. [S!Next]_(S!vars)
    BY DEF svars, S!vars
  <2>5. [U!Next]_(U!vars)
    BY DEF uvars, U!vars
  <2>6. [M!Next]_(M!summary_vars)
    BY DEF mvars, M!summary_vars
  <2>7. [C!Next]_(C!vars)
    BY DEF cvars, C!vars
  <2>8. [A!Next]_(A!vars)
    BY DEF avars, A!vars
  <2>. QED BY <2>1, <2>2, <2>3, <2>4, <2>5, <2>6, <2>7, <2>8
<1>4. ProcessSpec => /\ Spec /\ L!Spec /\ E!Spec /\ S!Spec /\ U!Spec /\ M!Spec /\ C!Spec
                     /\ A!Spec
  BY <1>2, <1>3, PTL DEF ProcessSpec, Spec, L!Spec, E!Spec, S!Spec, U!Spec, M!Spec, C!Spec,
                         A!Spec
<1>5. Spec => []NeverPresentsExpired
  BY <1>1, MarginSuffices
<1>6. L!Spec => []OnlyAuthenticatedFiled
  BY <1>1, FiledIsAuthenticated
<1>7. L!Spec => []NothingForgotten
  BY <1>1, EverythingIsFiled
<1>8. E!Spec => []OutcomeIsTheChilds
  BY <1>1, ChildDecides
<1>9. S!Spec => []RecentStayOnFile
  BY <1>1, RecentEventsStay
<1>10. U!Spec => []StartsAsConfigured
  BY <1>1, StartDecidedByConfig
<1>11. M!Spec => []RowAgrees
  BY <1>1, SummaryAgrees
<1>12. C!Spec => []DiscoveryHolds
  BY <1>1, DiscoveryKeepsFaith
<1>13. A!Spec => []AnswersAreTrue
  BY <1>1, AnswersStayTrue
<1>14. A!Spec => []NothingSkipped
  BY <1>1, LeafingSkipsNothing
<1>. QED BY <1>4, <1>5, <1>6, <1>7, <1>8, <1>9, <1>10, <1>11, <1>12, <1>13, <1>14
=============================================================================
