------------------------------- MODULE Process -------------------------------
(***************************************************************************)
(* What every command does around the mail it is given: start, find its    *)
(* extractors, run them, decide what of their output to file, keep         *)
(* statistics and stay connected; and the dashboard that shows the archives. *)
(* They share no state: a behaviour picks one of these parts, and the      *)
(* others stay as they begin.  The access tokens are extended and the      *)
(* others instantiated.                                                    *)
(***************************************************************************)
EXTENDS OAuth2, Sequences

CONSTANTS
    Part,           \* the parts that are looked at
    NoDomain, NoSubject, NoName, NoMessage, Garbled, Unknown,   \* Matching
    Extractor, Mail, Output, Config,                            \* Pipeline
    Scripts, PipeCapacity, Stdin,                               \* ExtractorRun
    Listing, Only, Unlistable,                                  \* Discovery
    Writer, RETENTION, PRUNE_INTERVAL, PRUNE_MIN, MaxTime, MaxEvents,   \* Stats
    Event, NoDuration, RECENT_DOMAINS_KEEP, MaxLines,           \* StatsSummary
    Input, Nothing,                                             \* Startup
    PAGE_SIZE, FEED_HOMEPAGE_LIMIT, Configs, Disks, Filings, Queries,
    MaxFilings, MaxMoves, MaxVisits, LastDay                    \* Dashboard

VARIABLES
    which,      \* the part that runs; the others stay as they begin
    l_mail, l_config, l_ex, l_stage, l_queue, l_made, l_explain, l_log,
    l_tried,
    e_script, e_at, e_child, e_lingers, e_pipe, e_unsent, e_helper,
    e_runner, e_found,
    c_listing, c_only, c_dir, c_entry, c_out, c_command, c_issues, c_lints,
    s_now, s_files, s_path, s_stamp, s_writer, s_event, s_open, s_copy,
    s_events, s_recorded, s_overtaken,
    m_lines, m_acc,
    u_run, u_phase, u_code, u_sinks, u_seen,
    a_config, a_disk, a_writing, a_temp, a_filings, a_moves, a_visits,
    a_today, a_query, a_stage, a_dirs, a_todo, a_rows, a_cards, a_answer,
    a_link, a_before, a_seen, a_altered, a_quiet, a_lacking

lvars == <<
    l_mail, l_config, l_ex, l_stage, l_queue, l_made, l_explain, l_log,
    l_tried>>
evars == <<
    e_script, e_at, e_child, e_lingers, e_pipe, e_unsent, e_helper,
    e_runner, e_found>>
cvars == <<
    c_listing, c_only, c_dir, c_entry, c_out, c_command, c_issues, c_lints>>
svars == <<
    s_now, s_files, s_path, s_stamp, s_writer, s_event, s_open, s_copy,
    s_events, s_recorded, s_overtaken>>
mvars == <<
    m_lines, m_acc>>
uvars == <<
    u_run, u_phase, u_code, u_sinks, u_seen>>
avars == <<
    a_config, a_disk, a_writing, a_temp, a_filings, a_moves, a_visits,
    a_today, a_query, a_stage, a_dirs, a_todo, a_rows, a_cards, a_answer,
    a_link, a_before, a_seen, a_altered, a_quiet, a_lacking>>

L == INSTANCE Pipeline WITH
    mail <- l_mail,
    config <- l_config, ex <- l_ex, stage <- l_stage, queue <- l_queue,
    made <- l_made, explain <- l_explain, log <- l_log, tried <- l_tried

E == INSTANCE ExtractorRun WITH
    Script <- Scripts, Input <- Stdin, script <- e_script,
    at <- e_at, child <- e_child, lingers <- e_lingers, pipe <- e_pipe,
    unsent <- e_unsent, helper <- e_helper, runner <- e_runner,
    found <- e_found

C == INSTANCE Discovery WITH
    listing <- c_listing, only <- c_only, dir <- c_dir, entry <- c_entry,
    out <- c_out, command <- c_command, issues <- c_issues,
    lints <- c_lints

S == INSTANCE Stats WITH
    now <- s_now,
    files <- s_files, path <- s_path, stamp <- s_stamp, writer <- s_writer,
    event <- s_event, open <- s_open, copy <- s_copy, events <- s_events,
    recorded <- s_recorded, overtaken <- s_overtaken

M == INSTANCE StatsSummary WITH
    lines <- m_lines, acc <- m_acc

U == INSTANCE Startup WITH
    run <- u_run, phase <- u_phase,
    code <- u_code, sinks <- u_sinks, seen <- u_seen

A == INSTANCE Dashboard WITH
    config <- a_config, disk <- a_disk, writing <- a_writing,
    temp <- a_temp, filings <- a_filings, moves <- a_moves,
    visits <- a_visits, today <- a_today, query <- a_query,
    stage <- a_stage, dirs <- a_dirs, todo <- a_todo, rows <- a_rows,
    cards <- a_cards, answer <- a_answer, link <- a_link,
    before <- a_before, seen <- a_seen, altered <- a_altered,
    quiet <- a_quiet, lacking <- a_lacking

parts == <<which, lvars, evars, cvars, svars, mvars, vars, uvars, avars>>

\* What a part that does not run begins with.
AMail == CHOOSE m \in Mail : TRUE
AConfig == CHOOSE c \in Config : TRUE
AnInput == CHOOSE r \in Input : TRUE
ASetOfSinks == CHOOSE c \in Configs : TRUE

ProcessInit ==
    /\ which \in Part
    /\ U!Init
    /\ which # "startup" => u_run = AnInput
    /\ L!Init
    /\ which # "pipeline" => l_mail = AMail
    /\ which # "pipeline" => l_config = AConfig
    /\ E!Init
    /\ which # "extractor" => e_script = <<"nospawn">>
    /\ C!Init
    /\ which # "discovery" => c_listing = <<Unlistable>>
    /\ which # "discovery" => c_only = {}
    /\ S!Init
    /\ M!Init
    /\ Init
    /\ A!Init
    /\ which # "dashboard" => a_disk = <<>>
    /\ which # "dashboard" => a_config = ASetOfSinks

PipelineStep ==
    /\ which = "pipeline"
    /\ L!Next
    /\ UNCHANGED <<which, evars, cvars, svars, mvars, vars, uvars, avars>>

ExtractorRunStep ==
    /\ which = "extractor"
    /\ E!Next
    /\ UNCHANGED <<which, lvars, cvars, svars, mvars, vars, uvars, avars>>

DiscoveryStep ==
    /\ which = "discovery"
    /\ C!Next
    /\ UNCHANGED <<which, lvars, evars, svars, mvars, vars, uvars, avars>>

StatsStep ==
    /\ which = "stats"
    /\ S!Next
    /\ UNCHANGED <<which, lvars, evars, cvars, mvars, vars, uvars, avars>>

StatsSummaryStep ==
    /\ which = "summary"
    /\ M!Next
    /\ UNCHANGED <<which, lvars, evars, cvars, svars, vars, uvars, avars>>

OAuth2Step ==
    /\ which = "oauth2"
    /\ Next
    /\ UNCHANGED <<which, lvars, evars, cvars, svars, mvars, uvars, avars>>

StartupStep ==
    /\ which = "startup"
    /\ U!Next
    /\ UNCHANGED <<which, lvars, evars, cvars, svars, mvars, vars, avars>>

DashboardStep ==
    /\ which = "dashboard"
    /\ A!Next
    /\ UNCHANGED <<which, lvars, evars, cvars, svars, mvars, vars, uvars>>

ProcessNext ==
    \/ PipelineStep
    \/ ExtractorRunStep
    \/ DiscoveryStep
    \/ StatsStep
    \/ StatsSummaryStep
    \/ OAuth2Step
    \/ StartupStep
    \/ DashboardStep

ProcessSpec == ProcessInit /\ [][ProcessNext]_parts

(* Where it begins, OAuth2 asks for no step it is fair to.                 *)
FairProcess ==
    /\ ProcessSpec
    /\ which = "extractor" => E!Fairness
    /\ Fairness

ASSUME ProcessAssumption ==
    /\ L!PipelineAssumption
    /\ E!ExtractorRunAssumption
    /\ C!DiscoveryAssumption
    /\ S!StatsAssumption
    /\ M!StatsSummaryAssumption
    /\ OAuth2Assumption
    /\ U!StartupAssumption
    /\ A!DashboardAssumption

-----------------------------------------------------------------------------
(* The properties of the other parts, stated and explained in their modules. *)

OnlyAuthenticatedFiled == L!OnlyAuthenticatedFiled
NothingForgotten == L!NothingForgotten
OutcomeIsTheChilds == E!OutcomeIsTheChilds
RunReturns == which = "extractor" => E!RunReturns
DiscoveryHolds == C!DiscoveryHolds
RecentStayOnFile == S!RecentStayOnFile
RowAgrees == M!RowAgrees
StartsAsConfigured == U!StartsAsConfigured
NothingSkipped == A!NothingSkipped
AnswersAreTrue == A!AnswersAreTrue
============================================================================
