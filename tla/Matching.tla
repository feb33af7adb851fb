------------------------------ MODULE Matching ------------------------------
(***************************************************************************)
(* What the pipeline decides from a message alone: which message it looks  *)
(* at when a trusted person forwards one (unforward.rs), who signed it     *)
(* (dkim.rs), and which extractors could want it (extractor.rs, the        *)
(* manifest's dispatch hints).  Everything is a function of its arguments. *)
(*                                                                         *)
(* A domain is the sequence of its labels from the top-level one down, in  *)
(* lower case, so that a subdomain is an extension of its parent; a file   *)
(* name is a sequence of characters.                                       *)
(*                                                                         *)
(*   Message  [from, subject, leaves, results]                             *)
(*      from      a domain, or NoDomain if the header names none           *)
(*      leaves    its MIME leaves in depth-first order, each               *)
(*                [type, name, inner, lines], or Garbled; lines is what    *)
(*                follows "Forwarded message" in a text/plain leaf, and    *)
(*                what a text/html leaf quotes of it                       *)
(*      results   its Authentication-Results headers, topmost first, each  *)
(*                a set of reports [pass, d, i]                            *)
(*                                                                         *)
(*   Extractor  [from_domains, subjects, requires, require_dkim,           *)
(*               unsigned_before]: what its manifest says                  *)
(***************************************************************************)
EXTENDS Naturals, Sequences, SequencesExt

CONSTANTS
    NoDomain,       \* no From: domain, or none reported
    NoSubject,      \* no Subject: header
    NoName,         \* a leaf without a file name
    NoMessage,      \* a leaf that holds no message
    Garbled,        \* the MIME tree does not parse
    Unknown         \* no date

(***************************************************************************)
(* dkim.rs                                                                 *)
(***************************************************************************)

is_subdomain(child, parent) == IsStrictPrefix(parent, child)

aligned(a, b) == a = b \/ is_subdomain(a, b) \/ is_subdomain(b, a)

\* One "dkim=" item: header.d= if it is there, else the domain of header.i=.
SigningDomain(report) == IF report.d # NoDomain THEN report.d ELSE report.i

\* Mutant: every Authentication-Results header is believed.
passing_dkim_domains_Any(message) ==
    {SigningDomain(r) : r \in {x \in UNION {message.results[h] : h \in DOMAIN message.results} :
                                 x.pass /\ SigningDomain(x) # NoDomain}}

\* Only the topmost header is believed: our own MTA put it there.
passing_dkim_domains(message) ==
    IF message.results = <<>> THEN {}
    ELSE {SigningDomain(r) : r \in {x \in message.results[1] :
                                      x.pass /\ SigningDomain(x) # NoDomain}}

\* An entry [entry, domain] of require_dkim: the domain itself, "." and the
\* domain (any proper subdomain), or "@from".
satisfies(wanted, passing, from) ==
    \E w \in wanted, p \in passing :
        \/ w.entry = "domain" /\ p = w.domain
        \/ w.entry = "suffix" /\ is_subdomain(p, w.domain)
        \/ w.entry = "@from" /\ from # NoDomain /\ aligned(p, from)

\* pipeline/mod.rs: unknown on either side means no.
received_before(received_at, unsigned_before) ==
    /\ received_at # Unknown
    /\ unsigned_before # Unknown
    /\ received_at < unsigned_before

(***************************************************************************)
(* extractor.rs: the dispatch hints                                        *)
(***************************************************************************)

\* [wildcard, domain]: the domain, or with "*." the domain and all below it.
FromDomainMatches(pattern, domain) ==
    \/ domain = pattern.domain
    \/ pattern.wildcard /\ is_subdomain(domain, pattern.domain)

\* subjects is the set of subjects that subject_regex matches.
matches_headers(ex, message) ==
    /\ ex.from_domains # {} =>
          /\ message.from # NoDomain
          /\ \E p \in ex.from_domains : FromDomainMatches(p, message.from)
    /\ ex.subjects # {} => message.subject \in ex.subjects

\* [form, text]: a file name has at most one "*", at an end of the pattern.
FilenameMatches(pattern, name) ==
    CASE pattern.form = "exact"  -> name = pattern.text
      [] pattern.form = "suffix" -> IsSuffix(pattern.text, name)
      [] pattern.form = "prefix" -> IsPrefix(pattern.text, name)

\* A requirement [by, type] ("html", "text", "attachment:<type>") or
\* [by, pattern] ("attachment:filename:<pattern>").
Fulfils(leaf, r) ==
    \/ r.by = "type" /\ leaf.type = r.type
    \/ r.by = "name" /\ leaf.name # NoName /\ FilenameMatches(r.pattern, leaf.name)

\* A message that does not parse is left to the extractor.
body_could_match(ex, message) ==
    \/ message.leaves = Garbled
    \/ \A r \in ex.requires : \E i \in DOMAIN message.leaves : Fulfils(message.leaves[i], r)

(***************************************************************************)
(* unforward.rs                                                            *)
(***************************************************************************)

\* The first leaf of a type, depth first (find_rfc822_part, find_body).
First(leaves, type) == SelectSeq(leaves, LAMBDA leaf : leaf.type = type)

\* The part of a forward that is an attached message, bit for bit; an empty
\* one does not count.
unwrap_attachment_form(leaves) ==
    LET attached == First(leaves, "rfc822") IN
    IF attached = <<>> THEN NoMessage ELSE attached[1].inner

(***************************************************************************)
(* The lines below "Forwarded message": [line, value], where line is a     *)
(* header it knows in any of its languages, or "blank", "folded", "label"  *)
(* (a header it does not know) or "text".  Read from the top, with what    *)
(* was found so far: blank and unknown lines may come first; after the     *)
(* first header one of them ends the block; a text line always does.       *)
(***************************************************************************)
parse_pseudo_headers(lines) ==
    LET Header == {"from", "to", "date", "subject", "reply-to", "cc"}
        Ends(i, consumed) == \/ lines[i].line = "text"
                             \/ consumed /\ lines[i].line \in {"blank", "label"}
        Read[i \in 1..Len(lines) + 1, consumed \in BOOLEAN] ==
            IF i > Len(lines) \/ Ends(i, consumed) THEN {}
            ELSE IF lines[i].line \in Header THEN {i} \cup Read[i + 1, TRUE]
            ELSE Read[i + 1, consumed]
        Final(h) == {i \in Read[1, FALSE] :
                      lines[i].line = h /\ \A j \in Read[1, FALSE] : lines[j].line = h => j <= i}
    IN [h \in Header |-> {lines[i].value : i \in Final(h)}]

\* What is left of a leaf that quotes a message, if it does: a leaf without
\* file name or quotation (extract_inner_plain, extract_inner_html).
extract_inner(leaves, type) ==
    IF First(leaves, type) = <<>> \/ First(leaves, type)[1].lines = <<>> THEN <<>>
    ELSE <<[type |-> type, name |-> NoName, inner |-> NoMessage, lines |-> <<>>]>>

\* The message that was quoted, put together again.  No signature survives.
build_synthetic_rfc822(headers, leaves) ==
    [from    |-> CHOOSE d \in headers["from"] : TRUE,
     subject |-> IF headers["subject"] = {} THEN NoSubject
                 ELSE CHOOSE s \in headers["subject"] : TRUE,
     leaves  |-> leaves,
     results |-> <<>>]

\* The message a client quoted inline; without a From: it is no forward.
unwrap_inline_form(leaves) ==
    LET plain == extract_inner(leaves, "plain")
        headers == parse_pseudo_headers(First(leaves, "plain")[1].lines)
    IN IF plain = <<>> \/ headers["from"] = {} THEN NoMessage
       ELSE build_synthetic_rfc822(headers, plain \o extract_inner(leaves, "html"))

\* The message inside a forward whose outer sender is trusted, or NoMessage.
try_unwrap_forwarded(message, trusted) ==
    IF ~ trusted \/ message.leaves = Garbled THEN NoMessage
    ELSE IF unwrap_attachment_form(message.leaves) # NoMessage
         THEN unwrap_attachment_form(message.leaves)
         ELSE unwrap_inline_form(message.leaves)
=============================================================================
