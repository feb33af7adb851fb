# mailsift in TLA+

Specifications of [mailsift](../src/README.md), a program that runs a user's
mail through small extractor scripts and files what they find: calendar
events, bills, parcels, receipts, tickets, reservations and subscriptions.
Each module is a translation of Rust source under `src/src/`; `PROJECT.json`
names, for every definition, the lines it stands for, and lists the runs, the
hazards the properties are for, the divergences found and the theorems.

Extraction itself is somebody else's code (a script per vendor). What mailsift
has to get right is everything around it: the same mail may be filed twice, in
any order, by several threads of several processes, on disk and on servers
that others write to as well, and any of them may die half-way.

## 1. Inventory

### Front-ends: where messages come from

| Component | State it keeps | Operations | What is hard |
|---|---|---|---|
| milter (`milter.rs`) | `MessageState` per connection; one blocking task per message | MAIL, header, EOH, body, EOM, ABORT callbacks; deadline | state carried over between messages of a connection, aborts at any point, a task that outlives its deadline |
| IMAP scan (`imap_scan.rs`, `imap_state.rs`) | saved `Cursor` (UIDVALIDITY, last UID, extractor fingerprints) on disk; watch cursor, pending UIDs and `Quarantine` in memory | search, chunked fetch, checkpoint, backfill, reconnect, IDLE watch | crash between chunk and checkpoint, changed extractors, renumbered mailbox, one unparseable message, arrivals between search and IDLE |
| JMAP watch (`jmap_watch.rs`) | a keyword on the server; `skip` and `position` in memory | subscribe, query page, get, run, set keyword, resync | messages arrive and leave between pages, lost notifications, a keyword set after a failure |
| Maildir scan (`maildir_scan.rs`) | none | list folders, prefilter in parallel, run | files moved, flagged and removed by the mail client meanwhile; a prefilter that knows less than the pipeline |
| `replay` (`main.rs`) | none | one message | |

All of them call `pipeline::run` with the raw message.

### The pipeline

`pipeline/mod.rs` run parses the message (unwrapping forwards from trusted
people, `unforward.rs`), decides which extractors could want it
(`extractor.rs`) and whether a signature vouches for it (`dkim.rs`), runs them
as child processes with a deadline, collects the artifacts (`artifacts.rs`) and
hands them to the sinks through `pipeline/router.rs`: kind by kind in a fixed
order, every failure logged and none of them returned. It keeps no state, but
it fixes the order of writes that must agree (events before reservation records
before cancellations; a bill before its document), and events pass through the
seen store (`seen.rs`), a key-value file shared by all processes.

### Sinks: where artifacts go

| Component | State | Operations | What makes it correct |
|---|---|---|---|
| record store (`targets/sink.rs`, `targets/json_target.rs`) | JSON files in directories; advisory locks | `update_file`: lock, read, merge, temporary file, rename | the newest message wins in any order; nothing is truncated; locks are given back |
| CalDAV, WebDAV (`targets/caldav.rs`, `webdav.rs`, `http_auth.rs`) | resources on a server | GET, decide, conditional PUT, retry | no newer take is overwritten, also not by the user's own client or by a PUT that lands late |
| seen store (`seen.rs`) | hash of the last filed body per event | `is_seen`, `mark` | a skip never loses anything |
| bills (`targets/bills.rs`, `firefly.rs`) | record, document, the payee's bill at Firefly III | file, scan for a newer bill, register, file document | Firefly is never sent an older bill for a newer one; document and record agree |
| receipts (`targets/receipts.rs`, `mail_forward.rs`) | record and document, on disk or on a server, or a forwarded mail | file, PUT, forward | document and record agree |
| reservations (`targets/reservations.rs`) | one record per leg; an event per leg in the calendar | file legs, cancel superseded legs, reindex | a dropped leg is cancelled in both places, and only when it was dropped; renaming the archive loses nothing |
| tickets (`targets/tickets.rs`) | blob and sidecar | file, in a directory or on WebDAV | blob and sidecar come from the same message; the newest wins |
| parcels, trackers (`targets/parcels.rs`, `trackers.rs`, `karrio.rs`, `seventeentrack.rs`) | merged record with history; registrations elsewhere | merge, register | a delivered parcel does not go back; each mail is recorded once; each parcel is registered |
| subscriptions (`targets/subscriptions.rs`) | record | file | the record store's promise |

### Around them

| Component | State | Operations | What makes it correct |
|---|---|---|---|
| extractor runner (`extractor.rs`, `artifacts.rs`) | a child, three pipes, three helper threads | spawn, write, drain, wait, kill, join, scan; discover and lint the directories | a child that works is not killed, one that hangs is; all of its artifacts or none; a personal directory overrides |
| statistics log (`stats.rs`) | an append-only file, a prune stamp | append, prune, aggregate | recent events stay; sums agree with the lines |
| OAuth2 tokens (`oauth2.rs`) | a cached token with its expiry | consent, refresh, present | the server still honours what is presented; a watch is never stuck |
| dashboard (`web.rs`) | none | list, page, view, download | shows what is on file, while it changes |
| command line and configuration (`main.rs`, `config.rs`, `cli.rs`) | none | load, check, resolve sinks | what runs has the targets that were asked for; it starts unless something named is missing |
| reservation conversion (`reservation.rs`), HTTP clients and Kerberos (`targets/http_client.rs`, `gss.rs`) | none | | |

### How they interact

- Threads: the milter runs every message on a blocking thread of its own;
  scans run one message at a time, except the Maildir scan. Processes: a milter,
  a watcher and a one-off scan may all be running (`seen.rs` says so). They
  share the directories, the servers, the statistics log and `seen.db`, and
  nothing else.
- Mutual exclusion is the advisory lock on a directory (`sink.rs` `lock_dir`),
  for as long as one `update_file` or one `file_ticket` takes; on a server it is
  the entity tag. Whatever spans more than that - the scan for a newer bill,
  the cancellation of legs, `reindex`, blob and sidecar on WebDAV - is not
  exclusive.
- Order is by the message's date (`receivedAt`, or an event's DTSTAMP), never
  by arrival. An undated record neither keeps back nor is kept back.
- The dashboard only reads, without locks: that records are replaced by a
  rename is what it relies on.

## 2. The modules

| Module | Models | Kind |
|---|---|---|
| `RecordDates` | `supersedes`, `received_at_in`, `is_from_newer` | operators shared by the stores |
| `NewestWins` | what a directory of records promises | abstract specification |
| `RecordStore` | `update_file` with lock, crash and I/O errors | implements `NewestWins` |
| `DavFiling` | CalDAV and WebDAV filing with the seen store | component |
| `Bills` | bill record, Firefly, document | composes the record store with Firefly |
| `Receipts` | receipt record and document, on disk or on a server, or forwarded | composes two files |
| `Reservations` | legs in archive and calendar | composes two stores |
| `Reindex` | the archive of reservations being renamed | beside a watcher or a second `reindex` |
| `Tickets` | blob and sidecar, local and WebDAV | composes two files |
| `Parcels` | merge of status mails, history, trackers | composes the record with remote services |
| `Milter` | callbacks, deadline, blocking task | front-end |
| `ImapScan` | scan, watch, saved position | front-end |
| `JmapWatch` | paging, keyword, event source | front-end |
| `MaildirScan` | listing, prefilter and reading beside a mail client | front-end |
| `Matching` | forwards, signatures, dispatch hints | pure operators |
| `Pipeline` | one message through the extractors to the sinks | composes `Matching` with failing extractors and sinks |
| `ExtractorRun` | child, pipes, helper threads, deadline | component |
| `Discovery` | which extractors a command runs, what lint says | component |
| `Stats`, `StatsSummary` | appending and pruning; the sums | components |
| `OAuth2` | consent, cached token, the reconnects that need it | component |
| `Startup` | configuration, checks, resolution of sinks | component |
| `DashboardPages`, `Dashboard` | what a page is made of; requests beside filing daemons | operators, component |
| `Archives` | tickets, receipts, reservations, reindex and parcels, one at a time | composition |
| `FrontEnds` | milter, JMAP watch and Maildir scan, one at a time | composition |
| `Process` | tokens, pipeline, extractor run, discovery, statistics, start-up, dashboard, one at a time | composition |
| `*_proofs` | theorems about `RecordStore`, `DavFiling`, `Bills`, `ImapScan`, `Dashboard` and about the parts of `Archives`, `FrontEnds` and `Process` | proofs |
| `MC*` | values for the constants | model checking |

### How components share a run

`Archives`, `FrontEnds` and `Process` each compose several components that do
not share state. A variable `which` is chosen in Init from `Part`; the
component it names runs, and the variables of the others stay at one fixed
initial state, so that the state spaces add instead of multiplying. A property
of a component is trivially true in the behaviours of the others: for the
invariants the initial state satisfies them, and the actions whose fairness is
assumed without a condition are disabled in it (where they are not, as for the
extractor run, `Process` assumes its fairness only in the behaviours in which
it runs). Safety and liveness of the component itself are what its own
specification allows, neither more nor less. A reader interested in one of them
can set `Part` to it alone.

Each of the three EXTENDS one component - `Parcels`, `Milter` and `OAuth2` - and
INSTANCEs the others, their variables under a prefix (`t_` for tickets, `r_` for
receipts, and so on); the `MC` modules only give values to the constants. What a
run checks is therefore the definition the theorems are about, and the theorems
`ArchivesHold`, `FrontEndsHold` and `ProcessHolds` carry the result of each part
over to the composition.

Where a component has more than one way to run - how many workers, whether
anything fails, which variant of the sink, which command line options - a
variable (`setup`, `sink`, `how`, `company`, `config`, `run`) is chosen in Init
from a constant set and never changes, so that one run looks at all of them, and
a property that holds only for some says which.

### RecordStore

`file` is the directory's contents, `lock` the advisory locks, and `pc`, `msg`,
`found` are the locals of `update_file` in each worker. The actions are its
steps: `lock_dir`, `read_if_exists`, then `log_kept` (the merge declines) or
`write_tmp`, `persist` (the two halves of `write_atomic`) and
`log_file_outcome`. Every `?` on the way is `FailStart` or `FailLocked`; the
lock guard's drop is `Unlock`, part of each of them. `Crash` takes a whole
process: its locks go, its temporary files stay, the records do not change. A
record is the message it was filed from, since its date is all the merge looks
at; `Corrupt` is a file that does not parse. `settled` remembers what was
reported as filed.

`NewestWins` has the same promise without the mechanism: `Put` replaces a
record that is not newer in one step, `Settle` reports a message whose record
is on file or superseded. Under the mapping `onfile <- file`, `persist` is
`Put`, `log_kept` and `log_file_outcome` are `Settle`, everything else stutters.

The other modules use `update_file` as one step: that is what the lock, the
refinement and `NeverTruncated` justify.

### DavFiling

One worker's round is `get_if_exists`, `log_kept` or `Replace`, and a PUT that
lands, is repeated after a 5xx, is refused (412), fails, or is left on its way
(`Abandon`, `LandLate`) by a sender that timed out or died. `unless_changed`
is the precondition as the server evaluates it. `sink` says which sink it is;
for CalDAV (`Gated`) the round is wrapped in the seen store's
`SkipSeen`/`NotSeen` and `mark`; an undated event spares the GET and is PUT
unconditionally, as in `file_async`. The user's client saves versions that are
not older, or deletes, which `deleted` remembers.

### Bills, Receipts, Tickets

`Bills` keeps apart what `bills.rs` does apart: `write_unless_newer`, the
listing and the reading of the records one by one, `find_existing`, the call to
Firefly, the document. `newer` remembers the paths on which a newer
bill of the payee was on file when the worker filed its own, so that a property
can say what the scan guarantees.

`Receipts` does the same for a receipt and its document, which on a server are
four requests and no lock. A receipt that names no year is filed under the
current one each time it is asked for, so the year turning between record and
document is part of the model. Forwarding hands the message over, or fails, or
loses the answer.

`Tickets` has the two variants of `TicketSink`: under a lock, sidecar read,
blob, sidecar; on WebDAV, the sidecar's read-and-PUT rounds, then the blob's,
which re-reads the sidecar for each attempt.

### Reservations, Reindex

`Reservations` files events, then records, then cancels: `archived_records`
lists, `ReadLeg`/`KeepLeg` look at one record each, `write_atomic` replaces it
- in a step of its own, because the code does not hold the lock - and
`RecallEvent` cancels the calendar event of what was cancelled. A leg is
modelled by its date and whether it is cancelled.

`Reindex` goes through the files one at a time: read, parse, find the name the
record would have today, test whether it is free, compare, write, remove -
none of it under a lock, and it dies anywhere. Beside it runs nothing, a
watcher that files, or a second `reindex`. A dry run keeps the set of names it
would have filled; the model remembers what it foretold and holds the real run
to it. The order in which `walk_records` gives the files is any (`Rank`), and the
same for a dry run and the real one.

### Parcels

The record of one tracking number. A field of it, and an entry of its history,
is the mail it came from; `merge`, `is_stale`, `is_recorded` and the rest are
the functions of the same name; dropping repeated entries is a function that
walks the history, as `is_same_snapshot` compares each entry with those before
it. `Create` and `Update` are the two outcomes of
`update_file`; after `Create`, `register_best_effort` asks one tracker per step,
whatever it answers. An undated mail is a carrier poll, or a mail without a
usable date.

### Milter, ImapScan, JmapWatch, MaildirScan

`Milter` follows each callback; a header or body chunk is the message it
belongs to, so a message put together from parts of another is visible. The
pipeline is a task that files at some point and ends at some point or never.

`ImapScan` has the mailbox as `1..top` under a UIDVALIDITY; `Start`, `Search`,
`FetchChunk` and its failures, `checkpoint`, `SaveBackfill`, `watch_loop`,
`reconnect` are the functions of the same name. `processed` remembers which
extractor has seen which message. A changed extractor is another extractor.

`JmapWatch` numbers messages in the order the query sorts by; `PageOf` is the
query from a position, so a message that arrives or leaves in the middle of a
pass shifts the pages, as it does on a server.

`MaildirScan` lists `cur/` and `new/` of one folder after the other, drops by
header what the extractors cannot want (`could_match_any`) or `--since`
excludes, cuts at `--limit`, then opens what is left by the names it listed,
while `Client` moves, flags and removes messages at any time. `untouched` are
those it leaves alone.

### Matching, Pipeline, ExtractorRun, Discovery

`Matching` has the decisions that depend on the message alone, as operators on
a MIME tree of leaves and headers: `try_unwrap_forwarded` (an attached or quoted
message of a trusted forwarder), `passing_dkim_domains` (the topmost results
header only), `satisfies`, `received_before`, and the dispatch hints
`matches_headers` and `body_could_match`. `Pipeline` runs through the extractors in order -
skipped for its headers, for its parts, for want of a signature, failed, or run
with any output - and calls the sinks in passes over the output, one kind after
the other; `CallFails` is the failure of any one call. `tried` is the sequence of
calls, which is what its properties are about. What is left of the present pass is
a set, from which the earliest is due, and the artifacts of an output are a list
without repetitions, as files in a directory are. That the topmost results header
is our own server's is `OurMtaIsHonest`, an assumption the code documents.

`ExtractorRun` gives the child a script of operations (read, write to either
pipe, write an artifact, leave a process behind, succeed, fail, hang) and pipes
that hold `PipeCapacity` units: a writer blocks on a full one and a reader on an
empty one. The deadline passes only when nothing else can happen (`Blocks`,
`CanDrain`, `CanWrite`, `HelpersBusy` say what can), since ten seconds are long
against everything else.

`Discovery` is `discover` and `lint` over the same listings, entry by entry in
the order `read_dir` gives them, with every way a manifest can be broken. The
sort at the end leads to any arrangement that is in order, since equal keys are
not told apart.

### Stats, StatsSummary

A file is an inode and `path` names one, so that `prune`'s rename leaves an
appender with the old file open; what is in a file is the set of its events, as
nothing depends on their order. `StatsSummary` is the fold of `aggregate`.

### OAuth2

Lifetimes run down by two clocks, the server's and this host's monotonic one,
which stands still while the host is suspended; `Reusable` is the check with
`EXPIRY_MARGIN`. The session is `connect_and_authenticate` and `reconnect` of
the IMAP watch, as far as it asks for tokens and presents them.

### Startup, Dashboard

`Startup` goes through `load`, `validate` and the resolution of each target from
two layers, in the order of `ScanArgs::resolve`: the event sink, the dedup store,
the extractors, receipts, tickets, trackers, Firefly. A layer is the set of settings
that require or exclude each other, with who is named as a user in a URL (`url_user`)
or a block (`user`) and which password files there are. Each builder is the whole of
what it calls: a DAV sink parses its URL, reads its secret and goes through
`build_auth` (a user and a password, or Kerberos without either in a build that has
it); a forwarder parses its mailboxes, wants a recipient, and for SMTP wants the
feature, a URL that parses, and a user and a password or neither. What does not
parse is in `wrong`, what cannot be read in `unreadable`. The model ends when the
sinks are resolved (`running`); credentials of the mail source come after that, and
that an HTTP client can be made is taken for granted.

`Dashboard` is one reader who opens a page, leafs and follows a link, while
records are written, renamed and replaced; every request lists the directories,
then reads file by file. `DashboardPages` has the pure part: which files are
listed, by which date, in which order, on which page. A file's mtime is the day
it is written, that of a temporary file included, which the page of everything
and the tickets fall back on. The reader begins at the first page and leafs on
with the page's own links. `altered` remembers what may have moved a row since: a
replacement, a renaming, and on the page of everything a ticket's file
(`Retimed`), whose row takes its date from the file's time until the sidecar is
there.

## 3. What is checked

### Runs that pass

| Run | Shows | Bounds | Distinct states |
|---|---|---|---|
| `record_store` | `IInv`, newest wins, no truncation, refinement; whoever waits for a lock gets it | 3 workers of 2 processes, 2 files in one directory, 4 messages (older, newer, equal date, undated); any bill on file to start from | 90 thousand |
| `dav_filing` | no newer event is overwritten; `seen.db` vouches only for what is there | CalDAV and WebDAV; 2 workers, 2 versions of a dated event and an undated one, 2 rounds, 1 repeat, 1 abandoned PUT, a user who saves and deletes | 865 thousand |
| `bills` | what the unlocked scan still guarantees; record and document | 2 workers, 2 payees, 3 paths, 5 messages (one of them undated, one a reminder with the document again), with and without records that cannot be written | 356 thousand |
| `archives` | tickets, receipts, reservations, reindex, parcels (below) | 2 workers, 3 for the tickets | 418 thousand |
| `imap_scan` | the saved position, the quarantine, renumbering; nothing is missed under `--watch` | 3 UIDs on chunks of 2, 2 extractors, 2 UIDVALIDITYs, one garbled and one hopeless message | 158 thousand |
| `front_ends` | JMAP, milter, Maildir (below) | JMAP: 3 messages on pages of 2; milter: 2 connections, 2 messages of up to 2 parts; Maildir: 3 messages, two of them forwards, in three directories, each combination of options, 1 move by the client | 457 thousand |
| `process` | what surrounds the filing (below) | named at each part in `MCProcess` | 425 thousand |

A property of these three is often the conjunction of two or three that a
component needs together; its comment says of which, and the parts stand before
it under names of their own.

| Run | Property | Of | Says |
|---|---|---|---|
| `archives` | `TicketsAgree` | `Tickets` | blob and sidecar come from one message, vouch for and back each other; no blob gives way to an older one; in a directory and on a server |
| | `DocumentsKept` | `Receipts`, `Bills` (in `bills`) | a document beside a record is of that record's message or one before it, and the newest there was |
| | `CancelledForCause` | `Reservations` | what is cancelled was dropped by a complete itinerary, and stays cancelled |
| | `ItineraryHasItsWay` | `Reservations` | an itinerary that was filed is honoured, in archive and calendar if nothing fails, and touches only legs that are older |
| | `NewestCopySurvives` | `Reindex` | the newest copy of a leg is on file at every moment, wherever `reindex` dies |
| | `RunDelivers` | `Reindex` | a run that goes through leaves one copy of each leg in its place, and does what a dry run foretold |
| | `NewestHasTheSay`, `DeliveredStays` | `Parcels` | status and carrier are the newest mail's, in any order of arrival; a delivery stands until a mail dated after it says otherwise |
| | `HistoryHasEachOnce` | `Parcels` | a replay of all mails in another order doubles nothing |
| | `FanOutCompletes` | `Parcels` | every tracker is told once, whatever the others answered |
| `front_ends` | `GivenWhole`, `MailIsAccepted` | `Milter` | the pipeline is given each message as it was sent; every message is answered even if the pipeline hangs |
| | `PassEnds`, `NothingMissed` | `JmapWatch` | a pass ends, every message is found, though others come and go and notifications are lost |
| | `NothingOverlooked` | `MaildirScan` | every message with a use that the client left alone is given to the pipeline |
| `process` | `OnlyAuthenticatedFiled` | `Pipeline`, `Matching` | nothing of an extractor that asks for a signature is filed for a message nobody vouches for |
| | `NothingForgotten` | `Pipeline` | every artifact reaches every sink that is due it, once, in order, whatever else fails; one outcome per extractor |
| | `OutcomeIsTheChilds`, `RunReturns` | `ExtractorRun` | only a child that hangs is killed; all of its artifacts or none; the run returns |
| | `DiscoveryHolds` | `Discovery` | the first directory with an extractor that can be run wins; lint foretells refusals |
| | `RecentStayOnFile` | `Stats` | an event stays for RETENTION unless a prune overtook its append |
| | `RowAgrees` | `StatsSummary` | the sums agree with the lines in any order |
| | `NeverPresentsExpired`, `KeepsWatching` | `OAuth2` | what is presented is honoured; the watch comes back |
| | `NothingSkipped`, `AnswersAreTrue` | `Dashboard` | who leafs to the end has seen all that was on file; errors, links and sums are true |
| | `StartsAsConfigured` | `Startup` | the branch `Config::validate` rules out is not reached, whatever is on the command line; what runs has exactly the targets asked for; with none on the command line a run starts if and only if all the configuration names is there, parses and has its credentials (`Complete`) |

Every property of a passing run has a mutant in `PROJECT.json`: the model with
one plausible mistake in it (a lock not taken, a guard dropped, a position off
by one), under which the property fails. The mutants stand beside the
definition they replace, under names of their own.

Why these bounds are enough for the questions asked: an ordering property
needs an older and a newer message and someone between them, a race needs two
workers (three, to make one wait while another dies), a chunk or page of two
needs a third message behind it, two restarts with two sets of extractors
give every transition of the saved position, and a pipe is full and empty again
with a capacity of one or two. And all of the safety properties of these runs are
proved without bounds as well (section 4): the runs look for the mistakes, the
theorems say that there is none further out.

`bills`, `dav_filing` and `archives` treat workers as interchangeable
(SYMMETRY); none of them checks a liveness property - the temporal properties of
`archives` are about single steps. Deadlock is checked except in `process`,
where starting up, a child or a summary comes to its end.

### Runs that end in a violation

Each is a disagreement between the code and something the repository says of it
(`PROJECT.json`, findings):

| Run | What happens |
|---|---|
| `reservations_retry` | a crash between archive and calendar leaves the event booked for good |
| `reindex_race` | `reindex` writes an older copy over the newer one a watcher has just filed |
| `imap_scan_window` | `--watch --since` looks at the whole mailbox after an empty first search |
| `jmap_once` | a message whose extractor or sink failed is marked as done |
| `oauth2_dead_token` | a refresh token that was refused for good is tried again for as long as the watch runs |

Three more that no run is about, since a sequential reading of the code shows
them: `maildir_scan.rs` lines 5-8 speak of deduplication that the scan does not
do; `extractor.rs` line 822 says that "every pipe is at EOF" once the child has
exited, which a process that the child left behind makes untrue (`RunReturns`
has it as its exception); and `--receipts-webdav-password-file` is read by
nobody when the URL comes from the configuration (`main.rs` lines 973-976).

### Properties that hold on a condition

The code does not do more. The property's comment states the condition; without
it TLC finds the counterexample:

- `NeverOverwritesNewer` is for a server with strong entity tags. With weak
  tags or none (`StrongTags = FALSE`) the PUT is unconditional (`http_auth.rs`
  `unless_changed`), and what landed since the GET is overwritten.
- `SeenIsFiled` is for a user who deletes nothing. After a deletion an older
  version may be filed while `seen.db` still has the newer one's hash, and the
  newer one is then skipped.
- `RegisteredWasNewest` compares with the records of the time the worker filed
  its own, and only on paths that are dated. A worker that passed the scan may
  still register its bill after a newer one was filed and registered: Firefly
  goes back. And an undated message may replace a newer bill's record before the
  scan comes to it, which then finds nothing to compare with
  (`supersedes` lets an undated record through).
- `DocumentsKept` does not say that a document is on file: it is turned away
  because of a newer record even if that record's mail had none. It says nothing
  where a record could not be written, nor of a receipt without a year whose
  document is filed after New Year: its record lies in the old year's directory.
- `CancelledForCause` holds for any number of workers. `ItineraryHasItsWay` is for
  a lone one: two at once can overwrite a newer booking by a cancellation, since
  `cancel_superseded_legs` writes outside the lock.
- `NewestCopySurvives` and `RunDelivers` are for a `reindex` that is alone, and
  for legs whose copies are all dated; `reindex_race` shows what a watcher does.
- `TicketsAgree`: a worker that dies between blob and sidecar leaves them from
  different messages until the mail is filed again; and extensions share a
  sidecar, so a newer `.pkpass` keeps an older `.pdf` out that is not on file.
- `NewestHasTheSay` speaks of the status where every merged mail is dated, has a
  status and gives no delivery time later than its own date: a delivery that is
  dated into the future keeps newer mails out (`is_stale`). `DeliveredStays`
  counts as later a mail dated after any delivery time that some mail gave.
- `FanOutCompletes` is for workers that do not die: a parcel whose creator died
  before the trackers were asked is followed by none, since later mails update
  its record.
- `MailIsAccepted` says nothing of the filing: after the deadline the blocking
  task goes on, and what it extracts is filed.
- `NothingOverlooked` is for messages the client leaves alone. One that moves
  from `new/` to `cur/` between the two listings is in neither.
- `RunReturns`: a descendant that holds the pipes keeps a run for as long as it
  likes, since the helper threads are joined without a deadline.
- `RecentStayOnFile` leaves out an event appended while somebody prunes, which
  `stats.rs` documents as lost.
- `NeverPresentsExpired` is for tokens that are not withdrawn early and a host
  whose clock was not suspended; `KeepsWatching` is for all of them.
- `NothingSkipped` is for records that were not replaced or renamed under the
  reader, and on the page of everything for a time in which no ticket was filed
  and for records whose date is their own. Rows of one date come in the
  directory's order, which may differ from page to page; and a ticket's row is
  dated by its files' times until its sidecar is there, so that it changes places
  under the reader and another row with it.
- `AnswersAreTrue` allows an error when records are renamed under the request or
  a ticket's sidecar lands just as it is missed.

### Fairness

- `RecordStore`: weak fairness of each worker's steps (a thread that can run,
  runs) and strong fairness of `lock_dir`, since others may take the lock
  again and again in between; `flock` waiters are served eventually. Nothing
  is assumed of errors and crashes.
- `Milter`: weak fairness of the answer and of the deadline, which is a timer.
  None of the pipeline: it may hang.
- `ImapScan`: weak fairness of local steps and of reconnecting; strong
  fairness of server answers and of the watch search, since connections may
  drop again and again but not always at the same point.
- `JmapWatch`: weak fairness of the steps of a pass, of subscribing and of the
  resync timer. Only `MaxErrors` requests fail.
- `ExtractorRun`: weak fairness of the child's steps, the runner (its deadline
  is a timer) and each helper thread. None of the process left behind.
- `OAuth2`: weak fairness of time, of the process and of the provider's refusals;
  strong fairness of a minted token and of an accepted login, since the network
  does not fail every time.

### Bounds in the modules

`MaxAbandoned` (PUTs on their way without a sender), `MaxParts` (parts of a
mail), `MaxUid`, `MaxValidity`, `MaxMessage`, `MaxErrors`, `MaxHistory` (entries
of a parcel's history, which undated mails could repeat for ever), and the
numbers of filings, moves, visits, ticks and losses the modules' constants name.
`MaxAttempts`, `MaxResends`, `Batch`, `PageSize`, `PipeCapacity`, `RETENTION`
and the size limits are parameters of the code, set smaller.

## 4. What is proved

With TLAPS, for all values of the constants:

| Module | Theorem | Statement | Assumes |
|---|---|---|---|
| `RecordStore_proofs` | `Inductive` | `Spec => []IInv` | `RecordAssumption`, `StoreAssumption` |
| | `NewestWinsOnFile` | `Spec => []NewestOnFile` | |
| | `NoRegression` | `Spec => DateNeverRegresses` | |
| | `NoTruncation` | `Spec => NeverTruncated` | |
| | `Refinement` | `Spec => ImplementsNewestWins` | |
| `DavFiling_proofs` | `SeenVouchesRightly` | `Spec => []SeenIsFiled` | `DavAssumption`, `StrongTags` |
| | `NewerTakesStand` | `Spec => NeverOverwritesNewer` | `StrongTags` |
| `Bills_proofs` | `BillsTypeCorrect` | `Spec => []TypeOK` | `BillsAssumption`, `RecordAssumption` |
| | `OnlyNewestIsRegistered` | `Spec => []RegisteredWasNewest` | |
| | `DocumentsAreKept` | `Spec => DocumentsKept` | |
| `Archives_proofs` | `TicketsTypeCorrect` | `T!Spec => []T!TypeOK` | `TicketsAssumption` |
| | `TicketAndSidecarAgree` | `T!Spec => TicketsAgree` | |
| | `DocumentsStayWithRecords` | `R!Spec => DocumentsKept` | `ReceiptsAssumption` |
| | `CancelledWithCause` | `V!Spec => []CancelledForCause` | `ReservationsAssumption` |
| | `ItineraryPrevails` | `V!Spec => ItineraryHasItsWay` | |
| | `NewestSurvivesRenaming` | `X!Spec => []NewestCopySurvives` | `ReindexAssumption` |
| | `RenamingIsThorough` | `X!Spec => X!OneCopyEach` | |
| | `RenamingDelivers` | `X!Spec => RunDelivers` | |
| | `ParcelsTypeCorrect` | `Spec => []TypeOK` | `ParcelsAssumption` |
| | `RescansAddNothing` | `Spec => []HistoryHasEachOnce` | |
| | `NewestMailDecides` | `Spec => NewestHasTheSay` | |
| | `DeliveredParcelStays` | `Spec => []DeliveredStays` | |
| | `EveryTrackerIsTold` | `Spec => FanOutCompletes` | |
| | `ArchivesHold` | the properties of the five parts, of `ArchivesSpec` | `ArchivesAssumption` |
| `ImapScan_proofs` | `HopelessOnly` | `Spec => []OnlyHopelessSkipped` | |
| | `PositionVouches` | `Spec => []CursorMeansProcessed` | `ScanAssumption` |
| | `OnlyDueIsFetched` | `Spec => FetchesAreDue` | `ScanAssumption` |
| `FrontEnds_proofs` | `MessagesStayWhole` | `Spec => []GivenWhole` | `MilterAssumption` |
| | `NoMessageOverlooked` | `D!Spec => []NothingOverlooked` | `MaildirAssumption` |
| | `KeywordVouches` | `J!Spec => []KeywordMeansRun /\ PassIsThorough` | `JmapAssumption` |
| | `FrontEndsHold` | the three results above, of `FrontEndsSpec` | `FrontEndsAssumption` |
| `Dashboard_proofs` | `AnswersStayTrue` | `A!Spec => []AnswersAreTrue` | `DashboardAssumption` |
| | `LeafingSkipsNothing` | `A!Spec => []NothingSkipped` | |
| `Process_proofs` | `MarginSuffices` | `Spec => []NeverPresentsExpired` | `OAuth2Assumption` |
| | `FiledIsAuthenticated` | `L!Spec => []OnlyAuthenticatedFiled` | `PipelineAssumption` |
| | `EverythingIsFiled` | `L!Spec => []NothingForgotten` | |
| | `ChildDecides` | `E!Spec => []OutcomeIsTheChilds` | `ExtractorRunAssumption` |
| | `DiscoveryKeepsFaith` | `C!Spec => []DiscoveryHolds` | `DiscoveryAssumption` |
| | `RecentEventsStay` | `S!Spec => []RecentStayOnFile` | `StatsAssumption` |
| | `SummaryAgrees` | `M!Spec => []RowAgrees` | `StatsSummaryAssumption` |
| | `StartDecidedByConfig` | `U!Spec => []StartsAsConfigured` | `StartupAssumption` |
| | `ProcessHolds` | the properties of the eight parts, of `ProcessSpec` | `ProcessAssumption` |

The named assumptions are the types of the constants and that the special
values (`NoDate`, `NoFile`, ...) are not ordinary ones, and for OAuth2 that the
margin covers one reply and one login and no lifetime is shorter than these.
TLC evaluates them in the runs, and checks there the very definitions the
theorems state. `T!`, `R!` and so on are the instances of the parts in
`Archives`, `FrontEnds` and `Process`.

**RecordStore.** `NewestOnFile` alone is not inductive: a step of `persist` keeps
it only if the worker's record is not older than what is on file *now*, while
the worker compared it with what it *read*. `ReadIsCurrent` bridges the two,
and holds because between read and rename nobody else writes the file; that is
`LockHeld`: a worker between `lock_dir` and its return is the one its
directory's lock names, so two of them are never in one directory. The
comparison itself is carried from `write_tmp` to `persist` by `MayReplace`,
and from `persist` to the report by `Landed`. `Filed` (a path holds records of
that path) makes the dates comparable at all, and `AllDated` excludes paths on
which undated records may legally replace anything. `IInv` is the conjunction,
and is also checked by TLC. The action properties follow from `IInv` and
`[Next]_vars`; the refinement maps `persist` to `Put` and the reports to
`Settle`.

**DavFiling.** There is no lock, so the comparison has to travel with the PUT:
every PUT that may still land is conditional on the content it was compared with
(`PutsCompared`), and with strong tags the server applies it only while that
content is there. `SeenIsFiled` adds that whoever is about to mark an event has
seen it, or a newer take, on the calendar, and that takes only get newer while
the user deletes nothing.

**Bills.** Both theorems rest on the dates at a path, which never go back as long
as everything there is dated (`update_file`). A newer bill that was on file when
the worker filed its own is therefore still a newer bill whenever the scan comes
to it (`StillNewer`), under whatever record then lies there; until then it is
among what is left to scan, and afterwards nobody is past the scan
(`NotYetScanned`). For the documents: from the filing of its record on, what is
on file is the worker's record or one that is no older (`RecordIsNoOlder`), so
the document it then writes is no newer than the record beside it, and what it
replaces was beside a record that let it through.

**Tickets.** In a directory the lock makes it an argument about one worker:
`LockHeld` says that whoever is between its two writes has the lock, and
`BlobFirst` and `NewestLast` what that worker knows - its blob is on file, and
no sidecar is newer. On WebDAV there is no lock, and the date of the sidecar,
which only grows, carries the argument: a worker that writes a blob has put a
sidecar that is not older (`SidecarVouches`, `RoundTrip`), and whatever blob it
replaces was vouched for when it asked the sidecar again.

**Receipts.** The date of the record at a place only grows as long as it is dated,
so a record that stands up for a document does so for good (`BackedForGood`), and
a worker that is about to file a document knows of one.

**Reservations.** What is on file of a leg is never older than its last
cancellation (`RevokedBefore`), whoever wrote it, since `cancel_superseded_legs`
passes over newer bookings and `update_file` keeps them. A lone worker leaves
behind it only legs of which its mail has nothing to say (`ScanSettles`).
Calendar and archive go through the same changes, one before the other: apart
from the legs the worker is at they say the same (`CalendarFollows`).

**Reindex.** What a lone process has read is where it was, under another name than
it goes to (`AtHand`); what it removes is at its target by then, or older than
what is there (`Supplanted`); behind it no leg is under an old name
(`PassedOver`). That a dry run foretells the real one is a statement about two
runs: what a process reports follows from the files it began with and the order
of their names, wherever it is, and two reports of the same files are the same
list (`Foretells`).

**Parcels.** All of it rests on the history. `HistoryKept` says that every dated
mail that was merged is in it and that it has no repetitions; then dropping
repetitions drops nothing but an entry appended a second time
(`RepetitionsDropped`, by induction along the history, from the smallest
position at which the function would drop something). Therefore
`newest_received_at`, which is computed from it, is the newest date of all
merged mails, and `is_stale` compares with that (`FieldsFromMails` relates each
field to the mail it came from). The history's bound, which the code does not
have, is no part of the argument. `OneRegisters` has the trackers: a record is
created once, and only its creator tells them.

**ImapScan.** Of a run that works in the mailbox it examined, every message up
to `after` that one of its extractors wants was seen or is on the list
(`ProgressOK`). A chunk is the beginning of the list - lemmas about `First`,
`Min` and `Max` of sets of UIDs, from well-foundedness and cardinalities - so
what is left when a position is saved lies past it. A backfill's list is only
for the extractors that are new, and the position it started from stands until
the list is done (`BackfillOK`): then the two together cover all of them. After
a renumbering nothing that is saved or under way claims anything. That a fetch
asks for nothing that is done, and never under another UIDVALIDITY, rests on the
list: while the session is current, it lies past what the run has done and
within what it searched (`DueInv`).

**Milter.** What a connection has collected belongs to the message begun last on
it, since MAIL starts from nothing; a task is given what was collected when it
was begun.

**MaildirScan.** A message that is wanted and left alone is, at every stage, where
that stage will find it: in a directory not yet listed, among what was listed,
among what was kept (`AllTracked`). What `--limit` cuts off has as many messages
before it as the limit allows, all of them given or due, if nothing was moved
(`CutOff`, `Quiet`).

**JmapWatch.** The keyword says that the pipeline was run on the message, and no
more: the run `jmap_once` shows one whose filing had failed. `KeywordMeansRun`
states the half that holds, also across a crash, or a lost answer, between the
run and the keyword. `PassIsThorough` is the safety side of `NothingMissed`: a
pass that is no dry run ends only when all that is in the mailbox at that moment
carries the keyword. It skips nothing, so its position stays 0 (`JmapInv`), and the
first page then has the first message that is left (`FirstPage`): an empty page
means an empty rest. Both are stated in `FrontEnds_proofs`, and no run lists them.

**Pipeline.** A sink is called only for an extractor that has been run, and that
only for a message somebody vouched for (`VouchedBeforeRun`). That nothing is
forgotten is a matter of order: passes times artifacts are ordered, the next call
is the least of what is left (`TurnIsFirst`, by well-foundedness), what has been
called lies before what has not, and nothing is called twice (`CallsInv`).

**ExtractorRun.** The helper threads stay at the pipes while somebody may write to
them (`ReadersStay`), so a child that is blocked for good blocks itself; how it
ends is in its script (`EndsAsScripted`), and what the runner has seen is so
(`RunnerKnows`). The deadline then passes only for a child that hangs.

**Discovery.** What has been found is the first place of each name among those the
command has come past (`FirstsFound`), and lint has complained of all that it has
come past (`Reported`); a refusal has a cause that lint would have found.

**Stats, StatsSummary.** What is recorded and not overtaken is in the log, and in
the hands of everybody who is about to replace it (`PrunesKeep`). The sums are
folds over sets: such a fold does not depend on the order in which the members
are chosen (`SumPeels`, from a smallest set for which it would), nor on lines
outside of the set (`SumAgrees`).

**OAuth2.** A token's life by the provider's clock and by ours differ by at most
the time its reply was under way; the invariant relates the two clocks through
each state of a session, and the margin covers the difference and the login.

**Startup.** Each phase leaves behind what it has settled (`Progress`): the
configuration is one the check accepts, the target is the one asked for, and if the
command line asks for none, what the configuration needed for it was there. A phase
that is passed cannot be what fails later, so a failure is missing something of
`Complete`, and a run that gets to the end has missed nothing. What the check leaves
of a configuration (`Checked`) is what makes the target taken the one asked for
(`TargetIsAsked`); what a server or a forwarder needs is lemmas of their own
(`Connected`, `ForwarderBuilt`).

**Dashboard.** What has been listed, and every link of every row, leads to a file
that is there, or was until a reservation was renamed (`FilesInv`, `Leads`); the
link that is being followed is one of them (`LinkInv`). An overview on a quiet
archive has every entry exactly once, to be listed, to be read, or among the
rows (`OnceEach`), so cards and rows are in bijection.

That leafing skips nothing (`NothingSkipped`) is not inductive: it speaks of the
last page, and what keeps a record from being skipped happens on all of those
before it. `FarEnough` says it of each page: whatever was on file at the beginning
and has not been shown has at least as many entries ahead of it as there were
rows on the pages behind the reader. Nobody takes an entry from the list as long
as nothing is replaced or renamed, and nobody gives one another date
(`Kept`, `Steady`), so what is ahead of a record only grows (`AheadGrows`). When a
page is made its rows are those of the entries, one for each (`Gathered`,
`NoneForgotten`); a row comes after exactly the rows that precede it (`Position`),
and if it is past the pages before, it is on this one or past it, and past none
when this one is the last (`OnPage`). Rows of one date on the page of everything
have no such place; `Level` leaves them out as the property does (`Tied`), and
what is upcoming has a place on the first page only.

**The compositions.** A step of the whole is a step of one part and leaves the
others' variables unchanged, so the whole implements each part's specification.

Every inductive invariant was checked by TLC on the bounds of its component's run
before it was proved. The proofs have one step per action and, below it, one per
conjunct that the action can disturb.

Proving changed the model in three places where it was wrong. The order of calls in
`Pipeline` was stated by a CASE whose arms overlapped. And `NothingSkipped` did
not hold with more days than the run has: on the page of everything a ticket's
row changes its date when its sidecar lands, and the row that was to come first
on the next page takes its place on the one just left. The search did not apply to
the events on the page of everything, where `list_all` filters the whole feed
(`web.rs` line 658).

Only model-checked:

- liveness (`EveryFilingEnds`, `MailIsAccepted`, `NothingMissed`, `PassEnds`,
  `RunReturns`, `KeepsWatching`), since fairness is out of the prover's reach;
- the runs that end in a violation;
- what the recursive functions of `Matching` return for every tree, which is
  induction over data.

## 5. What is not modelled

- The conversion of reservations to events (`reservation.rs`), HTTP clients and
  Kerberos: pure data or no state of their own. The UID and the leg that the
  conversion derives are taken as given.
- HTML, CSS, the calendar layout and the editing of configuration files in the
  dashboard; option parsing and usage texts; SMTP, SASL, MIME and header syntax,
  the arithmetic of signatures, PKCE; query texts and backoff lengths.
- Power failure: `write_atomic` syncs the file and not the directory
  (`sink.rs` line 149), so a reported filing may be undone; a crash here is that
  of a process.
- Servers without strong tags, beyond the remark above (`http_auth.rs` line
  255).
- An edited list of trusted forwarders changes what an extractor is given, but
  not its fingerprint (`imap_scan.rs` line 504), so no backfill follows.
- A temporary file of a ticket may be taken for a ticket without a sidecar by
  the dashboard (`web.rs` line 2782) in the moment it exists; the model lists it
  and the properties leave it out by name (`NoStem`).
- Two ways for the discovery of extractors to fail or to skip: a directory entry
  that cannot be read, and a file name that is not UTF-8.
- The 401 round trip, discovery of calendars and creation of parent collections.
- The extractors themselves.

## 6. Plan

Done: the record store with its promise, refinement and proofs; all sinks that
compose stores, all front-ends, the pipeline from matching to the sinks, and what
surrounds it, with proofs of the safety properties the runs check.

Left, most important first:

1. **Refinement**: the document protocols of bills, receipts and tickets as
   implementations of one abstract pair of record and document.
2. **Composition**: one mail through `Pipeline` into a record store that crashes,
   to state what filing the mail again repairs.
3. **Pure algorithms** against reference definitions over bounded inputs:
   `uid_set`, `slugify`, `sanitize_uid`, `grow_backoff`.
