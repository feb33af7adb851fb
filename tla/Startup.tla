------------------------------ MODULE Startup ------------------------------
(***************************************************************************)
(* How a run of the program finds its sinks (main.rs, config.rs): the      *)
(* configuration is loaded and checked, then each target is resolved from  *)
(* two layers, the command line and the configuration, and built from its  *)
(* URL, its user and its secret; the first that fails ends the run.        *)
(*                                                                         *)
(* A layer is abstracted to which of the settings that exclude or require  *)
(* each other it has; a value that does not parse is in wrong, a file that *)
(* cannot be read in unreadable.  A sink is what it is, the layer its      *)
(* address comes from and the layer its secret comes from.  That an HTTP   *)
(* client can be made, of whatever address, is taken for granted.          *)
(***************************************************************************)
EXTENDS Naturals, FiniteSets

CONSTANTS
    Input,      \* the runs that are looked at, see IsInput
    Nothing     \* no sink, no secret

Layer == {"flags", "config"}

\* The targets that may be a server with a user and a password, and what is
\* logged in to with a password.
Server == {"events", "receipts", "tickets"}
Login == Server \cup {"smtp"}

\* The settings of a layer.  config.rs Config: a block names its URL and may
\* name a user and a password file; [receipts_forward] names a sender.
IsSettings(s) ==
    s \in [events   : SUBSET {"dir", "dav"},
          receipts : SUBSET {"dir", "dav", "forward"},
          tickets  : SUBSET {"dir", "dav"},
          transport : SUBSET {"sendmail", "smtp"},
          from     : BOOLEAN,           \* a mailbox to forward from
          to       : BOOLEAN,           \* somebody to forward to
          url_user : SUBSET Login,      \* whose URL names a user
          user     : SUBSET Server,     \* whose block names a user
          password : SUBSET Login,
          karrio   : SUBSET {"url", "token"},
          seventeentrack : BOOLEAN,
          firefly  : SUBSET {"url", "token"}]

\* There are no blocks on the command line; to forward is to name somebody.
AsFlags(s) ==
    /\ s.user = {}
    /\ \A k \in Server \cap s.url_user : "dav" \in s[k]
    /\ "smtp" \in s.url_user => "smtp" \in s.transport
    /\ s.to = ("forward" \in s.receipts)

\* What belongs to a block is there with the block only; [receipts_forward]
\* may have an empty list of recipients, [karrio] and [firefly] are whole.
AsConfig(s) ==
    /\ \A k \in Server \cap (s.url_user \cup s.user \cup s.password) : "dav" \in s[k]
    /\ "smtp" \in s.url_user => "smtp" \in s.transport
    /\ s.from = ("forward" \in s.receipts)
    /\ s.to \/ s.transport # {} \/ "smtp" \in s.password => "forward" \in s.receipts
    /\ {s.karrio, s.firefly} \subseteq {{}, {"url", "token"}}

IsInput(r) ==
    /\ r.command \in {"scan", "replay", "milter"}
    /\ {r.dry_run, r.no_dedup} \subseteq BOOLEAN
    /\ r.features \subseteq {"gssapi", "smtp"}
    /\ r.extractors \in {"found", "refused", "none", "unknown"}
    /\ r.extractors = "unknown" => r.command = "scan"
    /\ IsSettings(r.flags) /\ AsFlags(r.flags)
    /\ IsSettings(r.config) /\ AsConfig(r.config)
    /\ r.wrong \subseteq Layer \X STRING
    /\ r.unreadable \subseteq Layer \X STRING

\* A sink, the layer its address comes from and the layer its secret does.
AnySink ==
    [what : {"dir", "dav", "sendmail", "smtp", "karrio", "seventeentrack", "firefly"},
     layer : Layer \cup {Nothing}, secret : Layer \cup {Nothing}]

StartupAssumption ==
    /\ \A r \in Input : IsInput(r)
    /\ Nothing \notin Layer \cup {"dir", "dav", "forward", "conflict"}
    /\ Nothing \notin AnySink

VARIABLES
    run,        \* the member of Input this run was started with
    phase,      \* what is resolved next; "running"; "failed"; "panicked"
    code,       \* the exit code
    sinks,      \* [kind -> the sink, or Nothing]
    seen        \* whether the dedup store is open

vars == <<run, phase, code, sinks, seen>>

Kind == Server \cup {"karrio", "seventeentrack", "firefly"}

Init ==
    /\ run \in Input
    /\ phase = "load"
    /\ code = 0
    /\ sinks = [k \in Kind |-> Nothing]
    /\ seen = FALSE

-----------------------------------------------------------------------------

Fail(c) == phase' = "failed" /\ code' = c /\ UNCHANGED sinks

Goto(where) == phase' = where /\ UNCHANGED code

NoSink(next) == Goto(next) /\ UNCHANGED sinks

Use(k, sink, next) == sinks' = [sinks EXCEPT ![k] = sink] /\ Goto(next)

\* Mutant: a forwarder may be configured without a way to send.
validate_AnyTransport(c) ==
    /\ Cardinality(c.events) <= 1
    /\ Cardinality(c.receipts) <= 1
    /\ Cardinality(c.tickets) <= 1
    /\ "forward" \in c.receipts => c.transport # {"sendmail", "smtp"}

\* Config::validate.
validate(c) ==
    /\ Cardinality(c.events) <= 1
    /\ Cardinality(c.receipts) <= 1
    /\ Cardinality(c.tickets) <= 1
    /\ "forward" \in c.receipts => Cardinality(c.transport) = 1

\* The configuration cannot be read, is not TOML of this form, or conflicts.
load ==
    /\ phase = "load"
    /\ IF <<"config", "file">> \notin run.wrong /\ validate(run.config)
         THEN NoSink("events")
         ELSE Fail(1)
    /\ UNCHANGED seen

-----------------------------------------------------------------------------
(* One target. *)

Sink(what, layer, secret) == [what |-> what, layer |-> layer, secret |-> secret]

\* The layer that decides about the target k: the command line, if it names
\* any.
LayerOf(k) == IF run.flags[k] # {} THEN "flags" ELSE "config"

\* The layer that has the password file of k, the command line first.
PasswordLayer(k, layers) ==
    IF "flags" \in layers /\ k \in run.flags.password THEN "flags"
    ELSE IF "config" \in layers /\ k \in run.config.password THEN "config"
    ELSE Nothing

\* Whether the URL or the block of this layer names a user.
Named(k, layer) == k \in run[layer].url_user \cup run[layer].user

\* Who is named has a password, and who has a password is named; neither is
\* for Kerberos, which a build may not have.
build_auth(named, password) ==
    /\ named <=> password # Nothing
    /\ named \/ "gssapi" \in run.features

\* CaldavSink::new, WebdavSink::new, with the URL and the password file.
Connect(k, layer, named, password, next) ==
    IF \/ <<layer, k>> \in run.wrong
       \/ <<password, k>> \in run.unreadable
       \/ ~ build_auth(named, password)
      THEN Fail(1)
      ELSE Use(k, Sink("dav", layer, password), next)

\* The store is opened if it can be.
open_seen_store == seen' \in BOOLEAN

\* scan_seen_store: for a scan whose events go to CalDAV.
scan_seen_store ==
    IF /\ run.command = "scan" /\ ~ run.no_dedup /\ ~ run.dry_run
       /\ sinks'["events"] # Nothing /\ sinks'["events"].what = "dav"
      THEN open_seen_store
      ELSE UNCHANGED seen

\* EventTargetArgs::build_sink: a CalDAV URL on the command line goes with
\* the user and the password of the [caldav] block if it has none.
build_sink ==
    /\ phase = "events"
    /\ LET layer == LayerOf("events")
           chosen == run[layer].events
           named == Named("events", layer) \/ "events" \in run.config.user
       IN  \/ Cardinality(chosen) # 1 /\ Fail(2)
           \/ chosen = {"dir"} /\ Use("events", Sink("dir", layer, Nothing), "extractors")
           \/ /\ chosen = {"dav"}
              /\ Connect("events", layer, named, PasswordLayer("events", Layer), "extractors")
    /\ scan_seen_store

\* resolve_extractors, discover_required, select_extractors: nothing found,
\* and for a scan a name that is none of them, is the caller's mistake.
discover_required ==
    /\ phase = "extractors"
    /\ \/ run.extractors = "found" /\ NoSink("receipts")
       \/ run.extractors = "refused" /\ Fail(1)
       \/ run.extractors \in {"none", "unknown"} /\ Fail(2)
    /\ UNCHANGED seen

\* MailForwarder::sendmail and ::smtp: mailboxes that parse, somebody to
\* send to, and for a server a URL and a user and a password, or neither.
build_forwarder(layer) ==
    LET transport == IF "sendmail" \in run[layer].transport THEN "sendmail" ELSE "smtp"
        password == IF transport = "smtp" /\ "smtp" \in run[layer].password
                      THEN layer ELSE Nothing
    IN  IF \/ <<layer, "from">> \in run.wrong
           \/ <<layer, "to">> \in run.wrong
           \/ ~ run[layer].to
           \/ /\ transport = "smtp"
              /\ \/ "smtp" \notin run.features
                 \/ <<layer, "smtp">> \in run.wrong
                 \/ <<password, "smtp">> \in run.unreadable
                 \/ ~ ("smtp" \in run[layer].url_user <=> password # Nothing)
          THEN Fail(1)
          ELSE Use("receipts", Sink(transport, layer, password), "tickets")

build_cli_forwarder ==
    \/ ~ run.flags.from /\ Fail(2)
    \/ run.flags.from /\ Cardinality(run.flags.transport) # 1 /\ Fail(1)
    \/ run.flags.from /\ Cardinality(run.flags.transport) = 1 /\ build_forwarder("flags")

\* A transport is there, Config::validate has seen to it.
build_config_forwarder ==
    IF run.config.transport = {}
      THEN phase' = "panicked" /\ UNCHANGED <<code, sinks>>
      ELSE build_forwarder("config")

\* The target an artifact kind has: on the command line there may be one; of
\* a configuration the first is taken, since it has been checked.
Target(k) ==
    LET chosen == run[LayerOf(k)][k]
    IN  IF LayerOf(k) = "flags" /\ Cardinality(chosen) > 1 THEN "conflict"
        ELSE IF "dir" \in chosen THEN "dir"
        ELSE IF "dav" \in chosen THEN "dav"
        ELSE IF "forward" \in chosen THEN "forward"
        ELSE Nothing

\* ArtifactDirArgs::build_receipts_sink: one layer only.  A configured URL
\* does not go with a password file on the command line.
build_receipts_sink ==
    /\ phase = "receipts"
    /\ LET layer == LayerOf("receipts")
           target == Target("receipts")
       IN  \/ target = Nothing /\ NoSink("tickets")
           \/ target = "conflict" /\ Fail(1)
           \/ target = "dir" /\ Use("receipts", Sink("dir", layer, Nothing), "tickets")
           \/ /\ target = "dav"
              /\ Connect("receipts", layer, Named("receipts", layer),
                         PasswordLayer("receipts", {layer}), "tickets")
           \/ target = "forward" /\ layer = "flags" /\ build_cli_forwarder
           \/ target = "forward" /\ layer = "config" /\ build_config_forwarder
    /\ UNCHANGED seen

\* ArtifactDirArgs::build_tickets_sink: the password file may be on the
\* command line, and the configuration's goes with its own URL only.
build_tickets_sink ==
    /\ phase = "tickets"
    /\ LET layer == LayerOf("tickets")
           target == Target("tickets")
       IN  \/ target = Nothing /\ NoSink("trackers")
           \/ target = "conflict" /\ Fail(1)
           \/ target = "dir" /\ Use("tickets", Sink("dir", layer, Nothing), "trackers")
           \/ /\ target = "dav"
              /\ Connect("tickets", layer, Named("tickets", layer),
                         PasswordLayer("tickets", {"flags", layer}), "trackers")
    /\ UNCHANGED seen

\* The layers a service's URL and token come from, each by itself.
From(k, part) ==
    IF part \in run.flags[k] THEN "flags"
    ELSE IF part \in run.config[k] THEN "config" ELSE Nothing

\* An empty URL is refused, and an empty token like one that cannot be read.
Refused(k, url, token) == <<url, k>> \in run.wrong \/ <<token, k>> \in run.unreadable

\* build_trackers: half of a Karrio configuration is none.
build_trackers ==
    /\ phase = "trackers"
    /\ LET url == From("karrio", "url")  token == From("karrio", "token")
           st == IF run.flags.seventeentrack THEN "flags"
                 ELSE IF run.config.seventeentrack THEN "config" ELSE Nothing
           karrio == IF Nothing \in {url, token} THEN Nothing
                     ELSE Sink("karrio", url, token)
       IN  IF \/ karrio # Nothing /\ Refused("karrio", url, token)
              \/ st # Nothing /\ Refused("seventeentrack", Nothing, st)
             THEN Fail(1)
             ELSE /\ sinks' = [sinks EXCEPT
                         !["karrio"] = karrio,
                         !["seventeentrack"] =
                             IF st = Nothing THEN Nothing
                             ELSE Sink("seventeentrack", Nothing, st)]
                  /\ Goto("firefly")
    /\ UNCHANGED seen

\* build_firefly: half of a Firefly configuration is an error.  A milter
\* opens the store now, whatever its sink.
build_firefly ==
    /\ phase = "firefly"
    /\ LET url == From("firefly", "url")  token == From("firefly", "token")
       IN  \/ url = Nothing /\ token = Nothing /\ NoSink("running")
           \/ (url = Nothing) # (token = Nothing) /\ Fail(1)
           \/ /\ Nothing \notin {url, token}
              /\ IF Refused("firefly", url, token)
                   THEN Fail(1)
                   ELSE Use("firefly", Sink("firefly", url, token), "running")
    /\ IF phase' = "running" /\ run.command = "milter" THEN open_seen_store ELSE UNCHANGED seen

Next ==
    /\ \/ load
       \/ build_sink
       \/ discover_required
       \/ build_receipts_sink
       \/ build_tickets_sink
       \/ build_trackers
       \/ build_firefly
    /\ UNCHANGED run

Spec == Init /\ [][Next]_vars

-----------------------------------------------------------------------------

\* The target k is the one that was asked for: on the command line, or if
\* that asks for none in the configuration.
AsAsked(k) ==
    LET layer == IF run.flags[k] = {} THEN "config" ELSE "flags"
        asked == run[layer][k]
    IN  \/ asked = {} /\ sinks[k] = Nothing
        \/ /\ sinks[k] # Nothing
           /\ \/ asked = {sinks[k].what}
              \/ asked = {"forward"} /\ run[layer].transport = {sinks[k].what}
           /\ sinks[k].layer = layer

\* Nothing on the command line has a say in where artifacts go.
NoTargetFlags ==
    /\ \A k \in Server \cup {"password", "karrio", "firefly"} : run.flags[k] = {}
    /\ ~ run.flags.seventeentrack

\* The address of k parses, and its password, if it has one, can be read.
Sound(c, k) ==
    /\ <<"config", k>> \notin run.wrong
    /\ k \in c.password => <<"config", k>> \notin run.unreadable

\* What a server needs: a user and a password, or Kerberos instead of both.
ServerReady(c, k) ==
    "dav" \in c[k] =>
        /\ Sound(c, k)
        /\ \/ k \in c.password /\ k \in c.url_user \cup c.user
           \/ k \notin c.password \cup c.url_user \cup c.user /\ "gssapi" \in run.features

\* What a forwarder needs: mailboxes, and of a mail server that it can be
\* talked to at all, with a user and a password or neither.
ForwarderReady(c) ==
    "forward" \in c.receipts =>
        /\ c.to /\ {<<"config", "from">>, <<"config", "to">>} \cap run.wrong = {}
        /\ "smtp" \in c.transport =>
              /\ "smtp" \in run.features
              /\ Sound(c, "smtp")
              /\ "smtp" \in c.password <=> "smtp" \in c.url_user

TrackersReady(c) ==
    /\ c.karrio # {} => <<"config", "karrio">> \notin run.wrong \cup run.unreadable
    /\ c.seventeentrack => <<"config", "seventeentrack">> \notin run.unreadable

FireflyReady(c) == c.firefly # {} => <<"config", "firefly">> \notin run.wrong \cup run.unreadable

\* What a run needs that is started with the configuration alone.
Complete(c) ==
    /\ <<"config", "file">> \notin run.wrong
    /\ validate(c)
    /\ c.events # {}
    /\ \A k \in Server : ServerReady(c, k)
    /\ ForwarderReady(c)
    /\ TrackersReady(c)
    /\ FireflyReady(c)
    /\ run.extractors = "found"

(***************************************************************************)
(* "Reject configs whose targets conflict before we get deep into CLI /    *)
(* sink construction" (config.rs validate), on which the builders of       *)
(* main.rs rely: no command line leads to the branch that cannot be        *)
(* reached, or lets one of several targets win in silence; what runs has   *)
(* exactly the targets that were asked for.  That a configuration was      *)
(* accepted does not make it start: with no target on the command line a   *)
(* run does if and only if everything it names is also there, parses, and  *)
(* has its credentials (Complete).                                         *)
(***************************************************************************)
StartsAsConfigured ==
    /\ phase # "panicked"
    /\ phase = "running" => \A k \in Server : AsAsked(k)
    /\ NoTargetFlags =>
          /\ phase = "running" => Complete(run.config)
          /\ phase = "failed" => ~ Complete(run.config)
=============================================================================
