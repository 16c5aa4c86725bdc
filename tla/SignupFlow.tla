------------------------------ MODULE SignupFlow ------------------------------
(***************************************************************************)
(* One signup by the protocol driver: the sessions a worker opens for its  *)
(* task (free_register_runtime._worker), each a run of                     *)
(* run_free_protocol_flow with at most one rebuild, and what becomes of    *)
(* the mailbox row when the task fails.  The lease of the row is kept; its *)
(* confirmation is the marker of MailboxLease.                             *)
(*                                                                         *)
(* External is the site: it may answer every request with any page or      *)
(* failure, and may have acted on a request whose answer is lost.          *)
(***************************************************************************)
EXTENDS Integers

CONSTANTS
    RetryLimit,     \* proxy_retry_count, at most 5
    SwitchLimit,    \* proxy_challenge_switch_limit, at most 6
    PageLimit,      \* _MAX_PAGE_TRANSITIONS
    RoundLimit,     \* max_attempts of one code
    ResendLimit     \* controlled resends of a whole run

ASSUME SignupAssumption ==
    /\ RetryLimit \in Nat /\ SwitchLimit \in Nat
    /\ PageLimit \in Nat \ {0} /\ RoundLimit \in Nat \ {0} /\ ResendLimit \in Nat

VARIABLES
    site,       \* external: what the site has of this address
    flow,       \* the run of the protocol under way
    signup,     \* the worker: its budgets and its row
    stopAsked   \* the operator's stop

signupVars == <<site, flow, signup, stopAsked>>

OtpPages == {"otp", "login_otp", "mfa"}
PasswordPages == {"signup_password", "login_password", "unknown_password"}
SitePages == OtpPages \cup PasswordPages \cup {"profile", "phone", "consent", "callback", "other"}
ReadyPages == SitePages \ {"other"}

PreAuth == {"oauth", "identifier"}
ProxyNodes == PreAuth \cup {"preflight"}
FailureNodes == ProxyNodes \cup {"lease", "otp", "page", "callback", "stop", "challenge", "binding"}
FailureCodes == {"limited", "invalid", "html", "denied", "failed"}
\* retry: proxy_retryable; net: evidence against the proxy.
Failures == [node : FailureNodes, code : FailureCodes, retry : BOOLEAN, net : BOOLEAN]
Failure(node, code) == [node |-> node, code |-> code, retry |-> FALSE, net |-> FALSE]
NoFailure == Failure("page", "failed")

FlowPlaces == {"bootstrap", "prelude", "oauth", "confirm", "post", "page", "send", "wait",
               "resend", "verify", "callback", "failed", "over"}
Flows == [at : FlowPlaces, page : SitePages, pages : 0..PageLimit, round : 0..RoundLimit,
          used : 0..ResendLimit, rebuilt : BOOLEAN, boundary : BOOLEAN, asked : BOOLEAN,
          profile : BOOLEAN, consent : BOOLEAN, failure : Failures]

Workers == [row : {"running", "available", "pending_rerun", "registered"},
            marker : BOOLEAN, tripped : BOOLEAN, attempt : 0..RetryLimit,
            switches : 0..SwitchLimit, sessions : Nat,
            last : [node : FailureNodes, code : FailureCodes], same : Nat]

SignupTypeOK ==
    /\ site \in [posts : Nat, hinted : BOOLEAN]
    /\ flow \in Flows
    /\ signup \in Workers
    /\ stopAsked \in BOOLEAN

NewFlow == [at |-> "bootstrap", page |-> "other", pages |-> 0, round |-> 0, used |-> 0,
            rebuilt |-> FALSE, boundary |-> FALSE, asked |-> FALSE, profile |-> FALSE,
            consent |-> FALSE, failure |-> NoFailure]

SignupInit ==
    /\ site = [posts |-> 0, hinted |-> FALSE]
    /\ flow = NewFlow
    /\ signup = [row |-> "running", marker |-> FALSE, tripped |-> FALSE, attempt |-> 0,
                 switches |-> 0, sessions |-> 1,
                 last |-> [node |-> "binding", code |-> "failed"], same |-> 0]
    /\ stopAsked = FALSE

-----------------------------------------------------------------------------
(* A call of the transport.                                                *)

\* What _call_transport and _raise_response make of an answer that is no page of the
\* state machine, and of an exception.
CallFailures(node) ==
    {Failure(node, "limited"), Failure(node, "failed"), Failure(node, "invalid"),
     Failure("challenge", "failed")}
    \cup (IF node \notin PreAuth THEN {}
          ELSE {[Failure(node, c) EXCEPT !.retry = TRUE] : c \in {"denied", "invalid"}})
    \cup (IF node # "oauth" THEN {} ELSE {[Failure(node, "failed") EXCEPT !.net = TRUE]})

\* An HTML page instead of a session: the proxy may be to blame.
HtmlFailures(node) == {[Failure(node, "html") EXCEPT !.retry = r] : r \in BOOLEAN}

StopSeen == Failure("stop", "failed")
FailsWith(f) == flow' = [flow EXCEPT !.at = "failed", !.failure = f]

At(place) == flow.at = place /\ signup.row = "running"

\* A call from a step of the flow.  A stop is seen before it, and after it, when the
\* answer is lost.
SiteCall(node, next) ==
    /\ UNCHANGED <<site, signup>>
    /\ \/ stopAsked /\ FailsWith(StopSeen) /\ UNCHANGED stopAsked
       \/ ~stopAsked /\ flow' \in next /\ UNCHANGED stopAsked
       \/ /\ ~stopAsked
          /\ \/ \E f \in CallFailures(node) : FailsWith(f) /\ UNCHANGED stopAsked
             \/ FailsWith(StopSeen) /\ stopAsked' = TRUE

Fails(f) == FailsWith(f) /\ UNCHANGED <<site, signup, stopAsked>>
Moves(next) == flow' = next /\ UNCHANGED <<site, signup, stopAsked>>

\* The page a handled one leads to.
Turned(f) == {[f EXCEPT !.at = "page", !.page = p, !.pages = @ + 1] : p \in SitePages}

-----------------------------------------------------------------------------
(* A session.                                                              *)

\* prepare_reference_bootstrap: the preflight of a new transport, then its warm-up,
\* which never fails.
Bootstrap ==
    /\ At("bootstrap")
    /\ \/ ~stopAsked /\ Moves([flow EXCEPT !.at = "prelude"])
       \/ stopAsked /\ Fails(StopSeen)
       \/ Fails(Failure("challenge", "failed"))
       \/ Fails([Failure("preflight", "denied") EXCEPT !.retry = TRUE])
       \/ \E net \in BOOLEAN : Fails([Failure("preflight", "failed") EXCEPT !.net = net])

\* run_autoregister_prelude signs in with the address as a hint; a page of the state
\* machine is taken as it is, any other answer falls back to the plain authorization.
Prelude ==
    /\ At("prelude")
    /\ \/ stopAsked /\ Fails(StopSeen)
       \/ /\ ~stopAsked
          /\ site' = [site EXCEPT !.hinted = TRUE]
          /\ \E p \in ReadyPages : flow' = [flow EXCEPT !.at = "page", !.page = p]
          /\ UNCHANGED <<signup, stopAsked>>
       \/ ~stopAsked /\ Moves([flow EXCEPT !.at = "oauth"])
       \/ Fails(Failure("oauth", "limited"))
       \/ \E net \in BOOLEAN : Fails([Failure("oauth", "failed") EXCEPT !.net = net])

InitiateOauth ==
    /\ At("oauth")
    /\ \/ SiteCall("oauth", {[flow EXCEPT !.at = "confirm"]})
       \/ ~stopAsked /\ \E f \in HtmlFailures("oauth") : Fails(f)

\* confirm_mailbox_for_submission: a callback that fails may have written the marker.
ConfirmMailbox ==
    /\ At("confirm")
    /\ UNCHANGED <<site, stopAsked>>
    /\ \/ /\ flow' = [flow EXCEPT !.at = "post", !.boundary = TRUE]
          /\ signup' = [signup EXCEPT !.marker = TRUE]
       \/ /\ FailsWith(Failure("lease", "failed"))
          /\ \E wrote \in BOOLEAN : signup' = [signup EXCEPT !.marker = @ \/ wrote]

\* The transport was not entered: the confirmation is taken back, if storage agrees.
AbortConfirmation ==
    /\ At("post") /\ stopAsked
    /\ \E back \in BOOLEAN :
         /\ flow' = [flow EXCEPT !.at = "failed", !.failure = StopSeen, !.boundary = ~back]
         /\ signup' = [signup EXCEPT !.marker = ~back]
    /\ UNCHANGED <<site, stopAsked>>

PostIdentifier ==
    LET posted == [site EXCEPT !.posts = @ + 1]
        next == {[flow EXCEPT !.at = "page", !.page = p] : p \in SitePages}
    IN  /\ At("post") /\ ~stopAsked
        /\ site' = posted
        /\ UNCHANGED signup
        /\ \/ flow' \in next /\ UNCHANGED stopAsked
           \/ /\ \E f \in CallFailures("identifier") \cup HtmlFailures("identifier") : FailsWith(f)
              /\ UNCHANGED stopAsked
           \/ FailsWith(StopSeen) /\ stopAsked' = TRUE

-----------------------------------------------------------------------------
(* The pages.                                                              *)

OnPage(pages) == At("page") /\ flow.page \in pages /\ flow.pages < PageLimit

TooManyPages == /\ At("page") /\ flow.pages = PageLimit
                /\ Fails(Failure("oauth", "failed"))

OtpPage == /\ OnPage(OtpPages)
           /\ Moves([flow EXCEPT !.at = IF flow.page = "mfa" THEN "send" ELSE "wait",
                                 !.round = 0])

\* A signup registers its password; a login asks for a code instead.  Neither is done
\* twice.
PasswordPage ==
    /\ OnPage(PasswordPages)
    /\ LET asked == [flow EXCEPT !.asked = TRUE]
       IN  IF flow.asked \/ flow.page = "unknown_password" THEN Fails(NoFailure)
           ELSE IF flow.page = "login_password"
           THEN Moves([asked EXCEPT !.at = "send", !.round = 0])
           ELSE SiteCall("page", Turned(asked))

ProfilePage ==
    /\ OnPage({"profile"}) /\ ~flow.profile
    /\ SiteCall("page", Turned([flow EXCEPT !.profile = TRUE]))

ConsentPage ==
    /\ OnPage({"consent"}) /\ ~flow.consent
    /\ SiteCall("callback", Turned([flow EXCEPT !.consent = TRUE]))

\* What is left: a phone, which ends the signup, or a page that leads to the callback or
\* nowhere known.
LastPage ==
    /\ \/ OnPage({"phone", "callback", "other"})
       \/ OnPage({"profile"}) /\ flow.profile
       \/ OnPage({"consent"}) /\ flow.consent
    /\ \/ Fails(NoFailure)
       \/ flow.page # "phone" /\ Moves([flow EXCEPT !.at = "callback"])

\* The callback and the tokens.
Callback ==
    /\ At("callback")
    /\ \/ SiteCall("callback", {[flow EXCEPT !.at = "over"]})
       \/ Fails(Failure("callback", "failed"))

-----------------------------------------------------------------------------
(* The code.                                                               *)

SendOtp == At("send") /\ SiteCall("otp", {[flow EXCEPT !.at = "wait"]})

\* A round that came to nothing: another one, with a new code while the budget lasts.
AnotherRound ==
    /\ flow.round + 1 < RoundLimit
    /\ Moves([flow EXCEPT !.round = @ + 1,
                          !.at = IF flow.used < ResendLimit THEN "resend" ELSE "wait"])

\* The mailbox has a code, or asks for another to be sent, or has none in time.
WaitOtp ==
    /\ At("wait")
    /\ IF stopAsked THEN Fails(StopSeen)
       ELSE \/ Moves([flow EXCEPT !.at = "verify"])
            \/ flow.used < ResendLimit /\ Moves([flow EXCEPT !.at = "resend"])
            \/ AnotherRound
            \/ Fails(Failure("otp", "failed"))

ResendOtp == /\ At("resend")
             /\ SiteCall("otp", {[flow EXCEPT !.at = "wait", !.used = @ + 1]})

VerifyOtp ==
    /\ At("verify")
    /\ \/ SiteCall("otp", Turned(flow))
       \/ ~stopAsked /\ AnotherRound

-----------------------------------------------------------------------------
(* The end of a session.                                                   *)

\* mutant: a rebuild does not ask whether the address was submitted
RebuildsAnyway(f) == ~flow.rebuilt /\ f.code \in {"invalid", "html"}

Rebuilds(f) == ~flow.rebuilt /\ ~flow.boundary /\ f.code \in {"invalid", "html"}

RebuildSession ==
    /\ At("failed") /\ Rebuilds(flow.failure)
    /\ flow' = [NewFlow EXCEPT !.rebuilt = TRUE, !.used = flow.used]
    /\ signup' = [signup EXCEPT !.sessions = @ + 1]
    /\ UNCHANGED <<site, stopAsked>>

\* _mailbox_confirmed: a marker that cannot be read counts.
ConfirmedSeen == {signup.marker, TRUE}

\* proxy_attempts: a switch of the proxy leaves an entry of its own before the attempt's.
Noted(w, f, switched) ==
    LET e == [node |-> f.node, code |-> f.code]
    IN  [w EXCEPT !.last = e,
                  !.same = IF ~switched /\ signup.last = e THEN @ + 1 ELSE 1]
SameFailures(f) == IF signup.last = [node |-> f.node, code |-> f.code] THEN signup.same ELSE 0

\* _can_reuse_mailbox_after_failure; a limit counts as one when the status says so.
Reusable(f) ==
    IF f.node \in {"stop", "preflight", "binding"} \/ (f.node \in PreAuth /\ f.retry) THEN {TRUE}
    ELSE IF f.node \in PreAuth /\ f.code = "limited" THEN BOOLEAN ELSE {FALSE}

\* The row when the task fails: kept for an explicit rerun, or free again; the marker
\* is read twice.
Ends(w, f) ==
    /\ \E seen \in ConfirmedSeen, again \in ConfirmedSeen, reuse \in Reusable(f) :
         signup' = [w EXCEPT !.row = IF ~seen /\ reuse /\ ~again THEN "available"
                                     ELSE "pending_rerun"]
    /\ UNCHANGED <<site, flow, stopAsked>>

StartsAgain(w) ==
    /\ flow' = NewFlow
    /\ signup' = [w EXCEPT !.sessions = @ + 1]
    /\ UNCHANGED <<site, stopAsked>>

\* A challenge burns the exit, which may trip the breaker; another exit is tried as long
\* as the address was not confirmed.
Challenged ==
    LET f == flow.failure
    IN  /\ At("failed") /\ f.node = "challenge"
        /\ \E trips \in BOOLEAN, seen \in ConfirmedSeen :
             LET w == [signup EXCEPT !.tripped = @ \/ trips]
             IN  IF stopAsked \/ seen \/ signup.switches >= SwitchLimit \/ w.tripped
                 THEN Ends(w, f)
                 ELSE \E switched \in BOOLEAN :
                        LET v == Noted([w EXCEPT !.switches = @ + 1], f, switched)
                        IN  IF switched THEN StartsAgain(v) ELSE Ends(v, f)

\* mutant: the attempts are not counted
UncountedAttempt(w) == w

CountedAttempt(w) == [w EXCEPT !.attempt = @ + 1]

\* Before the address is submitted a failure of the route is tried again, on another
\* proxy if there is one; after three that are the same it is given up.
Retried ==
    LET f == flow.failure
    IN  /\ At("failed") /\ f.node # "challenge" /\ ~Rebuilds(f)
        /\ \E seen \in ConfirmedSeen :
             LET can == ~seen /\ f.node \in ProxyNodes /\ (f.net \/ f.retry)
             IN  IF ~can \/ signup.attempt >= RetryLimit \/ stopAsked THEN Ends(signup, f)
                 ELSE IF SameFailures(f) >= 2 THEN Ends(signup, [f EXCEPT !.retry = FALSE])
                 ELSE \E switched \in BOOLEAN :
                        LET w == Noted(CountedAttempt(signup), f, switched)
                        IN  IF f.retry /\ ~switched THEN Ends(w, f) ELSE StartsAgain(w)

Registers ==
    /\ At("over")
    /\ signup' = [signup EXCEPT !.row = "registered"]
    /\ UNCHANGED <<site, flow, stopAsked>>

StopSignup == /\ ~stopAsked /\ signup.row = "running"
              /\ stopAsked' = TRUE
              /\ UNCHANGED <<site, flow, signup>>

SignupNext ==
    \/ Bootstrap \/ Prelude \/ InitiateOauth \/ ConfirmMailbox
    \/ AbortConfirmation \/ PostIdentifier
    \/ TooManyPages \/ OtpPage \/ PasswordPage \/ ProfilePage \/ ConsentPage
    \/ LastPage \/ Callback
    \/ SendOtp \/ WaitOtp \/ ResendOtp \/ VerifyOtp
    \/ RebuildSession \/ Challenged \/ Retried
    \/ Registers \/ StopSignup

SignupSpec == SignupInit /\ [][SignupNext]_signupVars

-----------------------------------------------------------------------------
(* Properties.                                                             *)

\* The address is posted at most once, however often the session is rebuilt, the exit
\* switched or the attempt repeated, and a row given back to the pool was never posted.
AddressIsPostedOnce ==
    /\ site.posts <= 1
    /\ signup.row = "available" => site.posts = 0

\* Rebuilds, switches and retries together open a bounded number of sessions.
SessionsAreBounded == signup.sessions <= 2 * (1 + RetryLimit + SwitchLimit)

\* A switch to another exit replays no submitted address, as the comment of _worker on
\* its challenge branch says.
SwitchReplaysNothing ==
    [][signup'.switches # signup.switches /\ flow'.at = "bootstrap"
           => ~site.hinted /\ site.posts = 0]_signupVars

\* A mailbox that returns to the pool is unconsumed, as the docstring of
\* _restore_mailbox_after_pre_registration_failure says.
ReturnedIsUnconsumed == signup.row = "available" => ~site.hinted
=============================================================================
