------------------------------- MODULE OAuth2 -------------------------------
(***************************************************************************)
(* XOAUTH2 for a watched mailbox: the one-time consent that obtains a      *)
(* refresh token (oauth2.rs consent), the access tokens that are minted    *)
(* from it and cached (TokenProvider::access_token), and the connections   *)
(* of imap-scan --watch that present them (imap_scan.rs                    *)
(* connect_and_authenticate, reconnect).                                   *)
(*                                                                         *)
(* Time is counted in units of the HTTP timeout.  Lifetimes run down by    *)
(* the server's clock, and by the monotonic clock of this host, which      *)
(* stands still while the host is suspended.                               *)
(***************************************************************************)
EXTENDS Naturals

CONSTANTS
    Lifetime,       \* what expires_in may be, or DEFAULT_EXPIRY without one
    EXPIRY_MARGIN,  \* a token closer to its expiry than this is not reused
    MaxTrip,        \* a request to the token endpoint takes at most this long,
    MaxLogin,       \* presenting a token to the server at most this,
    MaxLosses       \* bound: tokens lost to a suspend or a revocation

OAuth2Assumption ==
    /\ MaxTrip + MaxLogin <= EXPIRY_MARGIN
    /\ \A l \in Lifetime : l \in Nat /\ l > MaxTrip + MaxLogin
    /\ {EXPIRY_MARGIN, MaxTrip, MaxLogin, MaxLosses} \subseteq Nat

VARIABLES
    consented,  \* how far imap-auth is: "asking", "exchanging", "saved", "failed"
    answer,     \* the redirect it got: [state, code], or NoAnswer
    grant,      \* the provider honours the refresh token: "alive" or "dead"
    session,    \* "starting", "refreshing", "login", "connected", "lost", "exited"
    first,      \* this is the first connection of the process
    spent,      \* how long the request, or the login, has taken
    cached,     \* how long this host holds the cached token usable, 0 for none
    valid,      \* how long the server will
    losses,     \* how often a token became useless before its time
    refused     \* how often the provider refused the refresh token for good

vars == <<consented, answer, grant, session, first, spent, cached, valid, losses, refused>>

NoAnswer == [state |-> "none", code |-> FALSE]

Init ==
    /\ consented = "asking"
    /\ answer = NoAnswer
    /\ grant = "alive"
    /\ session = "starting"
    /\ first = TRUE
    /\ spent = 0
    /\ cached = 0
    /\ valid = 0
    /\ losses = 0
    /\ refused = 0

-----------------------------------------------------------------------------
(***************************************************************************)
(* imap-auth                                                               *)
(***************************************************************************)

\* "error" stands for a redirect with error=, "pasted" for a bare code that
\* the user typed: it carries no state to compare.
parse_redirect_query(a) == a.state \in {"ours", "pasted"} /\ a.code

\* The one request that the loopback listener accepts, whoever makes it, or
\* the line read from stdin.
Redirected(a) ==
    /\ consented = "asking"
    /\ answer' = a
    /\ consented' = IF parse_redirect_query(a) THEN "exchanging" ELSE "failed"
    /\ UNCHANGED <<grant, session, first, spent, cached, valid, losses, refused>>

\* A reply without a refresh token is a failure; so is any error.
exchange_code ==
    /\ consented = "exchanging"
    /\ consented' \in {"saved", "failed"}
    /\ UNCHANGED <<answer, grant, session, first, spent, cached, valid, losses, refused>>

-----------------------------------------------------------------------------
(***************************************************************************)
(* imap-scan --watch                                                       *)
(***************************************************************************)

Goto(where) ==
    /\ session' = where
    /\ spent' = 0
    /\ UNCHANGED <<consented, answer, grant>>

\* The first connection failing ends the process, a later one is tried again.
Failed == IF first THEN "exited" ELSE "lost"

\* Mutants: a token is used to its last second; a reconnect takes whatever
\* token there is.
Reusable_ToTheEnd == cached > 0
Reusable_ForEver == session = "lost"

Reusable == cached > EXPIRY_MARGIN

\* access_token: the cached token, or a new one.
connect_and_authenticate ==
    /\ consented = "saved" /\ session \in {"starting", "lost"}
    /\ Goto(IF Reusable THEN "login" ELSE "refreshing")
    /\ UNCHANGED <<first, cached, valid, losses, refused>>

\* Its expiry is counted from when the reply is here.
Minted(lifetime) ==
    /\ session = "refreshing" /\ grant = "alive"
    /\ Goto("login")
    /\ cached' = lifetime
    /\ valid' = lifetime - spent
    /\ UNCHANGED <<first, losses, refused>>

\* No network, 5xx, or no JSON.
TransientError ==
    /\ session = "refreshing"
    /\ Goto(Failed)
    /\ UNCHANGED <<first, cached, valid, losses, refused>>

\* 400 with invalid_grant or its like.  main exits with 75 if it hears of it;
\* reconnect treats it like every other error.
PermanentRefreshError ==
    /\ session = "refreshing" /\ grant = "dead"
    /\ Goto(Failed)
    /\ refused' = IF refused < 2 THEN refused + 1 ELSE refused
    /\ UNCHANGED <<first, cached, valid, losses>>

Accepted ==
    /\ session = "login" /\ valid > 0
    /\ Goto("connected")
    /\ first' = FALSE
    /\ UNCHANGED <<cached, valid, losses, refused>>

\* The server rejects a useless token, or the connection breaks.
Rejected ==
    /\ session = "login"
    /\ Goto(Failed)
    /\ UNCHANGED <<first, cached, valid, losses, refused>>

Disconnected ==
    /\ session = "connected"
    /\ Goto("lost")
    /\ UNCHANGED <<first, cached, valid, losses, refused>>

-----------------------------------------------------------------------------

Less(n) == IF n > 0 THEN n - 1 ELSE 0

Tick ==
    /\ session \notin {"exited"}
    /\ session = "refreshing" => spent < MaxTrip
    /\ session = "login" => spent < MaxLogin
    /\ cached > 0 \/ valid > 0 \/ session \in {"refreshing", "login"}
    /\ cached' = Less(cached)
    /\ valid' = Less(valid)
    /\ spent' = IF session \in {"refreshing", "login"} THEN spent + 1 ELSE 0
    /\ UNCHANGED <<consented, answer, grant, session, first, losses, refused>>

\* The host sleeps while the server's clock runs, or the token is revoked.
Loses ==
    /\ losses < MaxLosses
    /\ valid > 0
    /\ valid' \in 0..(valid - 1)
    /\ losses' = losses + 1
    /\ UNCHANGED <<consented, answer, grant, session, first, spent, cached, refused>>

\* The refresh token expires, or access is withdrawn.
Withdrawn ==
    /\ consented = "saved" /\ grant = "alive"
    /\ grant' = "dead"
    /\ UNCHANGED <<consented, answer, session, first, spent, cached, valid, losses, refused>>

Over == (consented = "failed" \/ session = "exited") /\ UNCHANGED vars

Next ==
    \/ \E state \in {"ours", "other", "missing", "error", "pasted"}, code \in BOOLEAN :
          Redirected([state |-> state, code |-> code])
    \/ exchange_code
    \/ connect_and_authenticate
    \/ \E lifetime \in Lifetime : Minted(lifetime)
    \/ TransientError \/ PermanentRefreshError
    \/ Accepted \/ Rejected \/ Disconnected
    \/ Tick \/ Loses \/ Withdrawn
    \/ Over

Spec == Init /\ [][Next]_vars

\* Time passes, the process goes on, and the network does not fail every time.
Fairness ==
    /\ WF_vars(Tick)
    /\ WF_vars(connect_and_authenticate)
    /\ WF_vars(TransientError \/ PermanentRefreshError \/ Rejected)
    /\ SF_vars(\E lifetime \in Lifetime : Minted(lifetime))
    /\ SF_vars(Accepted)

FairSpec == Spec /\ Fairness

-----------------------------------------------------------------------------

(***************************************************************************)
(* "Refreshing a little early avoids a race where the token is still       *)
(* nominally valid when we send it but expires in flight": unless a token  *)
(* became useless before its time, the server still honours it all the     *)
(* while it is presented, although the provider's reply was under way for  *)
(* part of its life (TokenProvider::access_token, EXPIRY_MARGIN).          *)
(***************************************************************************)
NeverPresentsExpired ==
    session = "login" /\ losses = 0 => valid > 0

(***************************************************************************)
(* A watched mailbox is never lost for good: as long as the provider       *)
(* honours the refresh token and the first connection came about, it is    *)
(* connected again and again, even after a cached token became useless and *)
(* is presented until it runs out (reconnect, access_token).               *)
(***************************************************************************)
KeepsWatching ==
    ~ first ~> (session = "connected" \/ grant = "dead")

(***************************************************************************)
(* "A dead refresh token can't be fixed by retrying, only by re-consent"   *)
(* (main.rs main): once the provider has refused it for good, the process  *)
(* does not ask again.                                                     *)
(***************************************************************************)
DeadTokenIsNotRetried == refused < 2
=============================================================================
