------------------------------- MODULE Milter -------------------------------
(***************************************************************************)
(* The Postfix front-end (milter.rs): a message is put together from the   *)
(* callbacks of one connection, handed to the pipeline on a blocking       *)
(* thread when it is complete, and accepted when the pipeline is done or   *)
(* the deadline has passed, whichever comes first.                         *)
(*                                                                         *)
(* The MTA is modelled from the callbacks it makes: several messages one   *)
(* after another on a connection, any of them aborted at any point.  A     *)
(* header or a body chunk is abstracted to the message it belongs to.      *)
(***************************************************************************)
EXTENDS Naturals, Sequences

CONSTANTS
    Connection,
    Message,        \* what the MTA will deliver
    MaxParts,       \* bound: headers and body chunks of one message
    NoMessage,
    Separator       \* the blank line between headers and body

MilterAssumption ==
    /\ MaxParts \in Nat
    /\ NoMessage \notin Message
    /\ Separator \notin Message

VARIABLES
    mta,        \* [Connection -> Protocol]: where the MTA is
    current,    \* [Connection -> Message \cup {NoMessage}]
    sent,       \* history, [Connection -> Seq]: what was sent of the message
    known,      \* [Connection -> BOOLEAN]: there is a MessageState
    buf,        \* [Connection -> Seq]: MessageState.buf
    headers_done, \* [Connection -> BOOLEAN]
    task,       \* [Message -> {"none", "runs", "done"}]: its blocking task
    given,      \* [Message -> Seq]: what the pipeline was given
    answer,     \* [Message -> {"none", "accepted", "timeout"}]
    filed       \* messages whose artifacts the pipeline has filed

vars == <<mta, current, sent, known, buf, headers_done, task, given, answer, filed>>
state == <<known, buf, headers_done>>
work == <<task, given, answer, filed>>

Protocol == {"connected", "mail", "headers", "body", "eom"}

Fresh(m) == task[m] = "none" /\ answer[m] = "none" /\ \A c \in Connection : current[c] # m

Goto(c, where) == mta' = [mta EXCEPT ![c] = where]
Send(c, part) == sent' = [sent EXCEPT ![c] = Append(@, part)]

-----------------------------------------------------------------------------
(***************************************************************************)
(* MessageState                                                            *)
(***************************************************************************)

finish_headers(done, bytes) ==
    IF done THEN bytes ELSE Append(bytes, Separator)

\* MessageState::reset, if there is a state.
reset(c) ==
    /\ buf' = [buf EXCEPT ![c] = <<>>]
    /\ headers_done' = [headers_done EXCEPT ![c] = FALSE]
    /\ UNCHANGED known

-----------------------------------------------------------------------------

Init ==
    /\ mta = [c \in Connection |-> "connected"]
    /\ current = [c \in Connection |-> NoMessage]
    /\ sent = [c \in Connection |-> <<>>]
    /\ known = [c \in Connection |-> FALSE]
    /\ buf = [c \in Connection |-> <<>>]
    /\ headers_done = [c \in Connection |-> FALSE]
    /\ task = [m \in Message |-> "none"]
    /\ given = [m \in Message |-> <<>>]
    /\ answer = [m \in Message |-> "none"]
    /\ filed = {}

\* Mutant: a new message does not reset the state.
on_mail_NoReset(c, m) ==
    /\ mta[c] = "connected"
    /\ Fresh(m)
    /\ current' = [current EXCEPT ![c] = m]
    /\ sent' = [sent EXCEPT ![c] = <<>>]
    /\ Goto(c, "mail")
    /\ UNCHANGED state
    /\ UNCHANGED work

\* MAIL FROM starts a message.
on_mail(c, m) ==
    /\ mta[c] = "connected"
    /\ Fresh(m)
    /\ current' = [current EXCEPT ![c] = m]
    /\ sent' = [sent EXCEPT ![c] = <<>>]
    /\ Goto(c, "mail")
    /\ reset(c)
    /\ UNCHANGED work

on_header(c) ==
    /\ mta[c] \in {"mail", "headers"}
    /\ Len(sent[c]) < MaxParts
    /\ Send(c, current[c])
    /\ known' = [known EXCEPT ![c] = TRUE]
    /\ buf' = [buf EXCEPT ![c] = Append(@, current[c])]
    /\ Goto(c, "headers")
    /\ UNCHANGED <<current, headers_done>>
    /\ UNCHANGED work

on_eoh(c) ==
    /\ mta[c] \in {"mail", "headers"}
    /\ Send(c, Separator)
    /\ known' = [known EXCEPT ![c] = TRUE]
    /\ buf' = [buf EXCEPT ![c] = finish_headers(headers_done[c], @)]
    /\ headers_done' = [headers_done EXCEPT ![c] = TRUE]
    /\ Goto(c, "body")
    /\ UNCHANGED current
    /\ UNCHANGED work

\* push_body.
on_body(c) ==
    /\ mta[c] = "body"
    /\ Len(sent[c]) <= MaxParts
    /\ Send(c, current[c])
    /\ known' = [known EXCEPT ![c] = TRUE]
    /\ buf' = [buf EXCEPT ![c] = Append(finish_headers(headers_done[c], @), current[c])]
    /\ headers_done' = [headers_done EXCEPT ![c] = TRUE]
    /\ UNCHANGED <<mta, current>>
    /\ UNCHANGED work

(***************************************************************************)
(* handle_eom: the buffer is taken and the pipeline started.  headers_done *)
(* stays as it is: only the next MAIL or ABORT clears it.                  *)
(***************************************************************************)
on_eom(c) ==
    /\ mta[c] \in {"mail", "body"}
    /\ known[c]
    /\ given' = [given EXCEPT ![current[c]] = finish_headers(headers_done[c], buf[c])]
    /\ task' = [task EXCEPT ![current[c]] = "runs"]
    /\ buf' = [buf EXCEPT ![c] = <<>>]
    /\ headers_done' = [headers_done EXCEPT ![c] = TRUE]
    /\ Goto(c, "eom")
    /\ UNCHANGED <<current, sent, known, answer, filed>>

\* handle_eom on a connection that never sent a part of a message.
EomWithoutState(c) ==
    /\ mta[c] = "mail"
    /\ ~ known[c]
    /\ answer' = [answer EXCEPT ![current[c]] = "accepted"]
    /\ current' = [current EXCEPT ![c] = NoMessage]
    /\ Goto(c, "connected")
    /\ sent' = [sent EXCEPT ![c] = <<>>]
    /\ UNCHANGED <<task, given, filed>>
    /\ UNCHANGED state

\* The MTA gives up on the message it is sending.
on_abort(c) ==
    /\ mta[c] \in {"mail", "headers", "body"}
    /\ current' = [current EXCEPT ![c] = NoMessage]
    /\ Goto(c, "connected")
    /\ reset(c)
    /\ sent' = [sent EXCEPT ![c] = <<>>]
    /\ UNCHANGED work

\* The MTA closes the connection and opens another one.
Reconnect(c) ==
    /\ mta[c] # "eom"
    /\ current' = [current EXCEPT ![c] = NoMessage]
    /\ Goto(c, "connected")
    /\ known' = [known EXCEPT ![c] = FALSE]
    /\ buf' = [buf EXCEPT ![c] = <<>>]
    /\ headers_done' = [headers_done EXCEPT ![c] = FALSE]
    /\ sent' = [sent EXCEPT ![c] = <<>>]
    /\ UNCHANGED work

\* The blocking task files what it extracted.
FileArtifacts(m) ==
    /\ task[m] = "runs"
    /\ filed' = filed \cup {m}
    /\ UNCHANGED <<mta, current, sent, task, given, answer>>
    /\ UNCHANGED state

\* pipeline::run returns, with or without having found anything.
TaskEnds(m) ==
    /\ task[m] = "runs"
    /\ task' = [task EXCEPT ![m] = "done"]
    /\ UNCHANGED <<mta, current, sent, given, answer, filed>>
    /\ UNCHANGED state

\* The task is done before the deadline: Status::Continue.
Accept(c) ==
    /\ mta[c] = "eom"
    /\ task[current[c]] = "done"
    /\ answer' = [answer EXCEPT ![current[c]] = "accepted"]
    /\ current' = [current EXCEPT ![c] = NoMessage]
    /\ Goto(c, "connected")
    /\ sent' = [sent EXCEPT ![c] = <<>>]
    /\ UNCHANGED <<task, given, filed>>
    /\ UNCHANGED state

\* Mutant: the deadline ends the wait only if nothing was filed yet.
Timeout_OnlyUnfiled(c) ==
    /\ mta[c] = "eom"
    /\ task[current[c]] = "runs"
    /\ current[c] \notin filed
    /\ answer' = [answer EXCEPT ![current[c]] = "timeout"]
    /\ current' = [current EXCEPT ![c] = NoMessage]
    /\ Goto(c, "connected")
    /\ sent' = [sent EXCEPT ![c] = <<>>]
    /\ UNCHANGED <<task, given, filed>>
    /\ UNCHANGED state

\* The deadline passes: Status::Continue too, and the task goes on.
Timeout(c) ==
    /\ mta[c] = "eom"
    /\ task[current[c]] = "runs"
    /\ answer' = [answer EXCEPT ![current[c]] = "timeout"]
    /\ current' = [current EXCEPT ![c] = NoMessage]
    /\ Goto(c, "connected")
    /\ sent' = [sent EXCEPT ![c] = <<>>]
    /\ UNCHANGED <<task, given, filed>>
    /\ UNCHANGED state

Next ==
    \/ \E c \in Connection, m \in Message : on_mail(c, m)
    \/ \E c \in Connection :
          \/ on_header(c) \/ on_eoh(c) \/ on_body(c) \/ on_abort(c)
          \/ on_eom(c) \/ EomWithoutState(c)
          \/ Accept(c) \/ Timeout(c)
          \/ Reconnect(c)
    \/ \E m \in Message : FileArtifacts(m) \/ TaskEnds(m)

Spec == Init /\ [][Next]_vars

(***************************************************************************)
(* The deadline is a clock and passes whatever the pipeline does; a task   *)
(* that is done is noticed.  A task need never end.                        *)
(***************************************************************************)
Fairness == \A c \in Connection : WF_vars(Accept(c)) /\ WF_vars(Timeout(c))

FairSpec == Spec /\ Fairness

-----------------------------------------------------------------------------

Parts == Message \cup {Separator}

TypeOK ==
    /\ mta \in [Connection -> Protocol]
    /\ current \in [Connection -> Message \cup {NoMessage}]
    /\ known \in [Connection -> BOOLEAN]
    /\ headers_done \in [Connection -> BOOLEAN]
    /\ task \in [Message -> {"none", "runs", "done"}]
    /\ answer \in [Message -> {"none", "accepted", "timeout"}]
    /\ filed \subseteq Message
    /\ \A c \in Connection : buf[c] \in Seq(Parts) /\ sent[c] \in Seq(Parts)
    /\ \A m \in Message : given[m] \in Seq(Parts)

(***************************************************************************)
(* The pipeline is given the message as the MTA sent it - its own headers, *)
(* one blank line, its own body - whatever was sent, aborted or accepted   *)
(* on the connection before (milter.rs MessageState).  A message that has  *)
(* no parts at all is the blank line alone or nothing.                     *)
(***************************************************************************)
GivenWhole ==
    \A c \in Connection :
        mta[c] = "eom" /\ sent[c] # <<>> => given[current[c]] = sent[c]

(***************************************************************************)
(* A connection that has delivered its message gets its answer: extraction *)
(* "must not block mail delivery" (milter.rs), even if the pipeline hangs. *)
(***************************************************************************)
MailIsAccepted == \A c \in Connection : mta[c] = "eom" ~> mta[c] = "connected"
=============================================================================
