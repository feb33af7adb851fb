------------------------------ MODULE Pipeline ------------------------------
(***************************************************************************)
(* One message goes through the pipeline (pipeline/mod.rs run): forwarded  *)
(* mail is unwrapped, every extractor is considered in turn, and what one  *)
(* produces is handed to the sinks, kind by kind (pipeline/router.rs).     *)
(*                                                                         *)
(* An extractor is its manifest (Matching); what its run returns is any of *)
(* Output, or a failure (ExtractorRun).  A sink call ends in any of the    *)
(* ways its module allows: it creates or replaces something, keeps what is *)
(* newer, or fails.                                                        *)
(***************************************************************************)
EXTENDS Matching, FiniteSets

CONSTANTS
    Extractor,      \* the extractors in dispatch order, a sequence
    Mail,           \* messages as delivered: [message, oversized, trusted,
                    \* received_at, signed], where trusted says whether From:
                    \* is a trusted forwarder, and signed is what our MTA
                    \* verified: a set of domains
    Output,         \* what an extractor may produce: sequences of files,
                    \* <slug>.<kind>.<ext>
    Config          \* [enforce, dry_run, targets, forward]: the DKIM policy,
                    \* the kinds with a configured target, and whether
                    \* receipts are forwarded by mail

Kind == {"event", "reservation", "bill", "parcel", "subscription", "receipt", "ticket"}

\* The topmost Authentication-Results header is that of our MTA, and it reports
\* as passed only what it has verified.
OurMtaIsHonest ==
    \A m \in Mail : m.message.results # <<>> =>
        \A report \in m.message.results[1] : report.pass =>
            IF report.d # NoDomain THEN report.d \in m.signed
            ELSE report.i # NoDomain => report.i \in m.signed

PipelineAssumption ==
    /\ Extractor \in Seq({Extractor[e] : e \in DOMAIN Extractor})
    /\ \A out \in Output :
          /\ out \in Seq([kind : Kind, slug : STRING, ext : STRING])
          /\ \A i, k \in DOMAIN out : out[i] = out[k] => i = k
    /\ OurMtaIsHonest

\* The entry of receipts that are forwarded by mail in the statistics.
ForwardSink == 0

VARIABLES
    mail,       \* the message of this run
    config,     \* the configuration of this run
    ex,         \* the index of the extractor that is being considered
    stage,      \* "new", "match", "file" or "done"
    queue,      \* the sink calls its output still needs: <<p, k>> is that
                \* of pass p for the k-th artifact
    made,       \* [1..Len(Extractor) -> what it produced, or <<>>]
    explain,    \* sequence of outcomes, one for each extractor so far
    log,        \* sequence of [who, outcome] recorded for statistics
    tried       \* sequence of [ex, call, art]: the sink calls made

vars == <<mail, config, ex, stage, queue, made, explain, log, tried>>

\* The message the extractors get.
Unwrapped == try_unwrap_forwarded(mail.message, mail.trusted)
Message == IF Unwrapped # NoMessage THEN Unwrapped ELSE mail.message

Manifest == Extractor[ex]

Init ==
    /\ mail \in Mail
    /\ config \in Config
    /\ ex = 1
    /\ stage = "new"
    /\ queue = {}
    /\ made = [e \in 1..Len(Extractor) |-> <<>>]
    /\ explain = <<>>
    /\ log = <<>>
    /\ tried = <<>>

-----------------------------------------------------------------------------

\* An oversized message is left alone.
Start ==
    /\ stage = "new"
    /\ stage' = IF mail.oversized \/ Extractor = <<>> THEN "done" ELSE "match"
    /\ UNCHANGED <<mail, config, ex, queue, made, explain, log, tried>>

\* On to the next extractor.
Advance ==
    /\ ex' = IF ex < Len(Extractor) THEN ex + 1 ELSE ex
    /\ stage' = IF ex < Len(Extractor) THEN "match" ELSE "done"

Recorded(outcome) == log' = Append(log, [who |-> ex, outcome |-> outcome])

\* A mismatch of the headers is explained but not recorded: nearly every
\* message mismatches nearly every extractor.
record_skip(outcome) ==
    /\ explain' = Append(explain, outcome)
    /\ IF outcome = "headers" THEN UNCHANGED log ELSE Recorded(outcome)

\* The signature an extractor wants is there, or nobody asks for it.
SignedWell ==
    \/ Manifest.require_dkim = {}
    \/ Unwrapped # NoMessage
    \/ ~ config.enforce
    \/ satisfies(Manifest.require_dkim, passing_dkim_domains(Message), Message.from)
    \/ received_before(mail.received_at, Manifest.unsigned_before)

\* The extractor is not run: header hints, then body shape, then signature.
Skip ==
    /\ stage = "match"
    /\ \/ /\ ~ matches_headers(Manifest, Message)
          /\ record_skip("headers")
       \/ /\ matches_headers(Manifest, Message)
          /\ ~ body_could_match(Manifest, Message)
          /\ record_skip("body")
       \/ /\ matches_headers(Manifest, Message)
          /\ body_could_match(Manifest, Message)
          /\ ~ SignedWell
          /\ record_skip("dkim")
    /\ Advance
    /\ UNCHANGED <<mail, config, queue, made, tried>>

Runs ==
    /\ stage = "match"
    /\ matches_headers(Manifest, Message)
    /\ body_could_match(Manifest, Message)
    /\ SignedWell

\* run_one returns an error.
Failed ==
    /\ Runs
    /\ explain' = Append(explain, "failed")
    /\ Recorded("failed")
    /\ Advance
    /\ UNCHANGED <<mail, config, queue, made, tried>>

(***************************************************************************)
(* The passes over an output, in order: events before the records they are *)
(* about, records before the documents that go beside them.  A reservation *)
(* becomes an event even where it is not archived.                         *)
(***************************************************************************)
Passes ==
    <<[kind |-> "event", call |-> "event"], [kind |-> "reservation", call |-> "event"],
      [kind |-> "reservation", call |-> "archive"], [kind |-> "reservation", call |-> "cancel"],
      [kind |-> "bill", call |-> "record"], [kind |-> "bill", call |-> "blob"],
      [kind |-> "parcel", call |-> "record"], [kind |-> "subscription", call |-> "record"],
      [kind |-> "receipt", call |-> "record"], [kind |-> "receipt", call |-> "blob"],
      [kind |-> "ticket", call |-> "ticket"]>>

\* The calls for an output; kinds without a target are dropped (file_or_drop).
Calls(out) ==
    {q \in (DOMAIN Passes) \X (DOMAIN out) :
        LET pass == Passes[q[1]]
            art == out[q[2]]
        IN  /\ art.kind = pass.kind
            /\ art.kind \in {"bill", "receipt"} => (pass.call = "record" <=> art.ext = "json")
            /\ pass.call = "event" \/ pass.kind \in config.targets}

\* run_one returns artifacts, possibly none.
Produced(out) ==
    /\ Runs
    /\ explain' = Append(explain, "produced")
    /\ Recorded(IF out = <<>> THEN "empty" ELSE "produced")
    /\ made' = [made EXCEPT ![ex] = out]
    /\ queue' = Calls(out)
    /\ stage' = "file"
    /\ UNCHANGED <<mail, config, ex, tried>>

\* Every sink call of this extractor has been made.
Filed ==
    /\ stage = "file" /\ queue = {}
    /\ Advance
    /\ UNCHANGED <<mail, config, queue, made, explain, log, tried>>

\* The call whose turn it is: pass by pass, in each as the output lists them.
Before(q, r) == q[1] < r[1] \/ (q[1] = r[1] /\ q[2] < r[2])
Turn == CHOOSE q \in queue : \A r \in queue : q = r \/ Before(q, r)
Current == [ex |-> ex, call |-> Passes[Turn[1]].call, art |-> made[ex][Turn[2]]]

\* sibling_json_body: the structured record a document belongs to.
HasSibling(art) ==
    \E i \in DOMAIN made[ex] :
        made[ex][i].kind = art.kind /\ made[ex][i].ext = "json" /\ made[ex][i].slug = art.slug

\* With --dry-run no sink is called.
DryRun ==
    /\ stage = "file" /\ queue # {} /\ config.dry_run
    /\ queue' = queue \ {Turn}
    /\ UNCHANGED <<mail, config, ex, stage, made, explain, log, tried>>

\* A document without a record is dropped.
Orphan ==
    /\ stage = "file" /\ queue # {} /\ ~ config.dry_run
    /\ Current.call = "blob" /\ ~ HasSibling(Current.art)
    /\ queue' = queue \ {Turn}
    /\ UNCHANGED <<mail, config, ex, stage, made, explain, log, tried>>

Call ==
    /\ stage = "file" /\ queue # {} /\ ~ config.dry_run
    /\ Current.call = "blob" => HasSibling(Current.art)
    /\ tried' = Append(tried, Current)
    /\ UNCHANGED <<mail, config, ex, stage, made, explain>>

\* The sink creates or updates a file, keeps what is newer, or is not needed
\* at all (seen.db knows the event; the document went out with the mail that
\* forwarded its receipt).
CallReturns ==
    /\ Call
    /\ queue' = queue \ {Turn}
    /\ UNCHANGED log

ForwardFails == config.forward /\ Current.art.kind = "receipt" /\ Current.call = "record"

\* Mutant: the rest of the output is not tried after a failure.
CallFails_StopsThere ==
    /\ Call
    /\ queue' = {}
    /\ log' = IF ForwardFails THEN Append(log, [who |-> ForwardSink, outcome |-> "failed"]) ELSE log

\* The failure is a warning; that of a forward goes to the statistics, too.
CallFails ==
    /\ Call
    /\ queue' = queue \ {Turn}
    /\ log' = IF ForwardFails THEN Append(log, [who |-> ForwardSink, outcome |-> "failed"]) ELSE log

Done == stage = "done" /\ UNCHANGED vars

Next ==
    \/ Start
    \/ Skip
    \/ Failed
    \/ \E out \in Output : Produced(out)
    \/ Filed
    \/ DryRun
    \/ Orphan
    \/ CallReturns
    \/ CallFails
    \/ Done

Spec == Init /\ [][Next]_vars

-----------------------------------------------------------------------------

(***************************************************************************)
(* Nothing of an extractor that asks for a signature is filed for a        *)
(* message that nobody vouches for: unless signatures are not enforced or  *)
(* a trusted person forwarded it, our MTA has verified a signature of a    *)
(* domain the extractor asks for, or the message came before the vendor    *)
(* began to sign.  Whatever Authentication-Results the sender wrote        *)
(* himself (dkim.rs passing_dkim_domains, pipeline/mod.rs run).            *)
(***************************************************************************)
OnlyAuthenticatedFiled ==
    \A i \in DOMAIN tried :
        LET m == Extractor[tried[i].ex] IN
        m.require_dkim # {} /\ config.enforce /\ ~ mail.trusted =>
            \/ satisfies(m.require_dkim, mail.signed, mail.message.from)
            \/ received_before(mail.received_at, m.unsigned_before)

(***************************************************************************)
(* However the other extractors and the sinks fare, each extractor has one *)
(* outcome, in order, and the statistics have it too, once, unless it is   *)
(* that of a header that does not match (record_skip).                     *)
(***************************************************************************)
OneOutcomeEach ==
    LET lines(e) == {i \in DOMAIN log : log[i].who = e}
        logged(outcome) == IF outcome = "headers" THEN 0 ELSE 1
    IN  /\ \A e \in DOMAIN explain : Cardinality(lines(e)) = logged(explain[e])
        /\ stage = "match" => Len(explain) = ex - 1
        /\ stage = "done" /\ ~ mail.oversized => Len(explain) = Len(Extractor)

\* The calls an artifact is due.
Due(e, art) ==
    LET recorded == \E i \in DOMAIN made[e] :
                       made[e][i].ext = "json" /\ made[e][i].kind = art.kind /\ made[e][i].slug = art.slug
        filing == CASE art.kind = "event" -> {}
                    [] art.kind = "reservation" -> {"archive", "cancel"}
                    [] art.kind = "ticket" -> {"ticket"}
                    [] art.kind \in {"parcel", "subscription"} -> {"record"}
                    [] art.kind \in {"bill", "receipt"} /\ art.ext = "json" -> {"record"}
                    [] OTHER -> IF recorded THEN {"blob"} ELSE {}
    IN IF config.dry_run THEN {}
       ELSE (IF art.kind \in {"event", "reservation"} THEN {"event"} ELSE {})
            \cup (IF art.kind \in config.targets THEN filing ELSE {})

(***************************************************************************)
(* One sink that fails costs nothing else: by the end every artifact that  *)
(* an extractor produced has been given, once, to every sink that is       *)
(* configured for it, a document after its record and a cancellation after *)
(* all of the itinerary is on file; but none in a dry run.  Nor does it    *)
(* cost an extractor its outcome (OneOutcomeEach).                         *)
(***************************************************************************)
NothingForgotten ==
    /\ OneOutcomeEach
    /\ LET made_calls(e, art) == {i \in DOMAIN tried : tried[i].ex = e /\ tried[i].art = art}
       IN  /\ stage = "done" =>
                 \A e \in DOMAIN made : \A k \in DOMAIN made[e] :
                     LET art == made[e][k] IN
                     /\ {tried[i].call : i \in made_calls(e, art)} = Due(e, art)
                     /\ Cardinality(made_calls(e, art)) = Cardinality(Due(e, art))
           /\ \A i, j \in DOMAIN tried :
                 /\ tried[i].ex = tried[j].ex
                 /\ \/ tried[i].call = "blob" /\ tried[j].call = "record"
                       /\ tried[i].art.kind = tried[j].art.kind
                    \/ tried[i].call = "cancel" /\ tried[j].call = "archive"
                 => j < i
=============================================================================
