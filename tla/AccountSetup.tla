----------------------------- MODULE AccountSetup -----------------------------
(***************************************************************************)
(* What the protocol driver does with an account once it is registered:    *)
(* the password of a passwordless signup (free_protocol_password), the     *)
(* second factor (free_protocol_twofa), the milestones saved on the way    *)
(* (free_register_runtime._persist_partial_result), and the continuations  *)
(* of an account left half set up, by the operator or automatic            *)
(* (free_register_retry).  One account; its jobs follow one another.       *)
(*                                                                         *)
(* External is the server: the password and the second factor it holds,    *)
(* and the enrollments it issues, each a secret shown once with a session  *)
(* that activates it.  Its answers may be lost, and so may a save.         *)
(***************************************************************************)
EXTENDS Integers, Common

CONSTANTS
    MaxEnroll,      \* enrollments the server issues
    MaxManual,      \* the operator's continuations
    MaxSetupCrashes,
    AutoPassword, AutoTwofa,                    \* auto_set_password, auto_set_2fa
    TwofaLimit, PasswordLimit, ThrottleLimit    \* *_auto_retry_attempts

ASSUME SetupAssumption ==
    /\ MaxEnroll \in Nat /\ MaxManual \in Nat /\ MaxSetupCrashes \in Nat
    /\ AutoPassword \in BOOLEAN /\ AutoTwofa \in BOOLEAN
    /\ TwofaLimit \in Nat /\ PasswordLimit \in Nat /\ ThrottleLimit \in Nat

VARIABLES
    account,    \* external: the account at the server
    saved,      \* the account's row of results
    rowStatus,  \* the mailbox row
    job,        \* the task at work, or the last one
    timers,     \* tasks with a throttle cool-down running
    lostSave,   \* a milestone could not be written
    manuals, setupCrashes

setupVars == <<account, saved, rowStatus, job, timers, lostSave, manuals, setupCrashes>>

Enrollments == 0..MaxEnroll     \* 0 is none
FailKinds == {"none", "transient", "blocked", "throttle"}   \* of a failed step
SetupModes == {"register", "twofa", "password"}
SetupPlaces == {"flow", "password", "added", "callback", "twofa", "reauthed", "enrolled",
           "activate", "finish", "over"}

\* The fields of a result that a continuation depends on.
AccountResult == [token : BOOLEAN, password : BOOLEAN, used : BOOLEAN,
           pwStatus : {"", "disabled", "pending", "enabled"},
           faStatus : {"", "disabled", "pending", "enabled"},
           pwFail : FailKinds, faFail : FailKinds,
           secret : Enrollments, session : Enrollments]

NoResult == [token |-> FALSE, password |-> FALSE, used |-> FALSE, pwStatus |-> "",
             faStatus |-> "", pwFail |-> "none", faFail |-> "none",
             secret |-> 0, session |-> 0]

SetupJob == [mode : SetupModes, at : SetupPlaces, prior : AccountResult, env : AccountResult,
        fresh : Enrollments, tries : Nat, pwTries : Nat, cooled : Nat, links : Nat]

SetupTypeOK ==
    /\ account \in [password : BOOLEAN, mfa : Enrollments, issued : Enrollments]
    /\ saved \in AccountResult
    /\ rowStatus \in {"running", "queued", "twofa_pending", "partial_success", "success",
                      "pending_rerun", "available"}
    /\ job \in SetupJob
    /\ timers \subseteq SetupJob
    /\ lostSave \in BOOLEAN
    /\ manuals \in 0..MaxManual /\ setupCrashes \in 0..MaxSetupCrashes

NewJob == [mode |-> "register", at |-> "flow", prior |-> NoResult, env |-> NoResult,
           fresh |-> 0, tries |-> 0, pwTries |-> 0, cooled |-> 0, links |-> 0]

SetupInit ==
    /\ account = [password |-> FALSE, mfa |-> 0, issued |-> 0]
    /\ saved = NoResult
    /\ rowStatus = "running"
    /\ job = NewJob
    /\ timers = {}
    /\ lostSave = FALSE
    /\ manuals = 0 /\ setupCrashes = 0

-----------------------------------------------------------------------------
(* Results.                                                                *)

\* Private fields and account state are filled in from the older result; the
\* session of an enrollment is neither.
MergedResult(old, new) ==
    [new EXCEPT !.token = @ \/ old.token,
                !.password = @ \/ old.password,
                !.secret = IF @ # 0 THEN @ ELSE old.secret,
                !.pwStatus = IF @ # "" THEN @ ELSE old.pwStatus,
                !.faStatus = IF @ # "" THEN @ ELSE old.faStatus]

\* password_status_from_result
NormalResult(r) == IF r.pwStatus = "pending" THEN r
             ELSE [r EXCEPT !.pwStatus = IF r.used \/ r.password THEN "enabled"
                                         ELSE IF @ = "" THEN "disabled" ELSE @]

PasswordRetryAllowed(r) ==
    \/ r.pwStatus = "pending"
    \/ r.pwStatus = "disabled" /\ ~r.password /\ ~r.used

\* What mfa_info says: a failed read counts as not enabled.
MfaSeen == IF account.mfa # 0 THEN BOOLEAN ELSE {FALSE}

-----------------------------------------------------------------------------
(* The password.                                                           *)

ToTwofa(j) == IF j.mode = "twofa" \/ (j.mode = "register" /\ AutoTwofa)
              THEN [j EXCEPT !.at = "twofa"]
              ELSE IF j.mode = "register"
              THEN [j EXCEPT !.at = "finish", !.env.faStatus = "disabled"]
              ELSE [j EXCEPT !.at = "finish"]

\* The account exists; a signup may have passed the password page.
Registered(used) ==
    LET env == [NoResult EXCEPT !.token = TRUE, !.used = used, !.password = used,
                                !.pwStatus = IF used THEN "enabled" ELSE "disabled"]
        j == [job EXCEPT !.env = env]
    IN  /\ job.at = "flow"
        /\ account' = [account EXCEPT !.password = used]
        /\ job' = IF AutoPassword /\ ~used THEN [j EXCEPT !.at = "password"] ELSE ToTwofa(j)
        /\ UNCHANGED <<saved, rowStatus, timers, lostSave, manuals, setupCrashes>>

OnJob == UNCHANGED <<account, saved, rowStatus, timers, lostSave, manuals, setupCrashes>>

\* add_password/eligibility denies an account that has a password.
PasswordIneligible ==
    /\ job.at = "password" /\ account.password
    /\ job' = ToTwofa([job EXCEPT !.env.pwStatus = "disabled"])
    /\ OnJob

PasswordFailed(kind) == ToTwofa([job EXCEPT !.env.pwStatus = "pending", !.env.pwFail = kind])

\* The re-authentication, its code, or the answers up to the new password; with
\* a second factor but no stored secret it ends here.
PasswordFails(kind) ==
    /\ job.at \in {"password", "callback"}
    /\ job' = PasswordFailed(kind)
    /\ OnJob

PasswordAdds ==
    /\ job.at = "password" /\ ~account.password
    /\ account.mfa \in {0, job.prior.secret}
    /\ account' = [account EXCEPT !.password = TRUE]
    /\ \/ job' = [job EXCEPT !.at = "added"]
       \/ job' = PasswordFailed("transient")        \* the answer is lost
    /\ UNCHANGED <<saved, rowStatus, timers, lostSave, manuals, setupCrashes>>

\* _persist_partial_result overlays the milestone; a failure is swallowed.
Persisted(values) ==
    \/ saved' = values /\ UNCHANGED lostSave
    \/ lostSave' = TRUE /\ UNCHANGED saved

PasswordPersists ==
    /\ job.at = "added"
    /\ Persisted([saved EXCEPT !.token = TRUE, !.password = TRUE, !.pwStatus = "enabled"])
    /\ job' = [job EXCEPT !.at = "callback"]
    /\ UNCHANGED <<account, rowStatus, timers, manuals, setupCrashes>>

PasswordDone ==
    /\ job.at = "callback"
    /\ job' = ToTwofa([job EXCEPT !.env.pwStatus = "enabled", !.env.password = TRUE])
    /\ OnJob

-----------------------------------------------------------------------------
(* The second factor.                                                      *)

TwofaEnabled(s) == [job EXCEPT !.at = "finish", !.env.faStatus = "enabled",
                               !.env.secret = IF s # 0 THEN s ELSE @]
TwofaPending(kind) == [job EXCEPT !.at = "finish", !.env.faStatus = "pending",
                                    !.env.faFail = kind]

TwofaFails(kind) ==
    /\ job.at \in {"twofa", "reauthed"}
    /\ job' = TwofaPending(kind)
    /\ OnJob

\* Activation of secret s with session e: the server wants the session the secret
\* was issued with.  An answer that says no, or none, is checked once more.
Activates(s, e) ==
    \/ /\ account.mfa = 0 /\ e = s
       /\ account' = [account EXCEPT !.mfa = s]
       /\ job' \in {TwofaEnabled(s), TwofaPending("transient")}
    \/ /\ UNCHANGED account
       /\ \E seen \in MfaSeen :
            job' = IF seen THEN TwofaEnabled(s) ELSE TwofaPending("transient")

\* A secret left by an earlier attempt is activated without a new enrollment.
FastPath ==
    /\ job.at = "twofa" /\ job.prior.secret # 0
    /\ FALSE \in MfaSeen
    /\ Activates(job.prior.secret, job.prior.session)
    /\ UNCHANGED <<saved, rowStatus, timers, lostSave, manuals, setupCrashes>>

Reauthenticates ==
    /\ job.at = "twofa"
    /\ job.prior.secret = 0 \/ TRUE \in MfaSeen
    /\ job' = [job EXCEPT !.at = "reauthed"]
    /\ OnJob

AlreadyEnabled ==
    /\ job.at = "reauthed" /\ TRUE \in MfaSeen
    /\ job' = TwofaEnabled(0)
    /\ OnJob

Enrolls ==
    /\ job.at = "reauthed" /\ account.mfa = 0 /\ account.issued < MaxEnroll
    /\ account' = [account EXCEPT !.issued = @ + 1]
    /\ \/ job' = [job EXCEPT !.at = "enrolled", !.fresh = account.issued + 1]
       \/ job' = TwofaPending("transient")          \* the answer is lost
    /\ UNCHANGED <<saved, rowStatus, timers, lostSave, manuals, setupCrashes>>

\* mutant: the secret is not saved before it works
TwofaPersistsLater ==
    /\ job.at = "enrolled"
    /\ job' = [job EXCEPT !.at = "activate"]
    /\ OnJob

TwofaPersists ==
    /\ job.at = "enrolled"
    /\ Persisted([saved EXCEPT !.faStatus = "pending", !.secret = job.fresh,
                               !.session = job.fresh])
    /\ job' = [job EXCEPT !.at = "activate"]
    /\ UNCHANGED <<account, rowStatus, timers, manuals, setupCrashes>>

TwofaActivates ==
    /\ job.at = "activate"
    /\ Activates(job.fresh, job.fresh)
    /\ UNCHANGED <<saved, rowStatus, timers, lostSave, manuals, setupCrashes>>

-----------------------------------------------------------------------------
(* The end of a job and its continuations.                                 *)

\* The result a worker saves: a registration keeps the password of a signup that
\* used or added one, a continuation fills up from the older result.  A failure
\* is kept as long as its step is pending.
SetupResult(j) ==
    LET used == j.env.used \/ j.env.pwStatus = "enabled"
        r == NormalResult(IF j.mode = "register"
                          THEN [j.env EXCEPT !.password = used, !.used = used]
                          ELSE MergedResult(j.prior, j.env))
        Kept(status, kind) == IF status # "pending" THEN "none"
                              ELSE IF kind = "none" THEN "transient" ELSE kind
    IN  [r EXCEPT !.pwFail = Kept(r.pwStatus, @), !.faFail = Kept(r.faStatus, @)]

StatusOf(r) == IF r.faStatus = "pending" THEN "twofa_pending"
               ELSE IF r.pwStatus = "pending" THEN "partial_success" ELSE "success"

\* mutant: only the attempts of the second factor count
AttemptUncounted(mode) == 0

PasswordAttempt(mode) == IF mode = "password" THEN 1 ELSE 0

\* _enqueue_retry: the counters move on, the result is the saved one filled up
\* from the task's.
Continuation(j, mode, auto) ==
    LET r == MergedResult(j.env, saved')
    IN  [NewJob EXCEPT
            !.mode = mode,
            !.at = IF mode = "password" \/ (AutoPassword /\ PasswordRetryAllowed(saved'))
                   THEN "password" ELSE "twofa",
            !.prior = [r EXCEPT !.pwStatus = IF mode = "password" THEN "pending" ELSE @],
            !.env = saved',
            !.tries = j.tries + 1,
            !.pwTries = j.pwTries + PasswordAttempt(mode),
            !.cooled = j.cooled,
            !.links = IF auto THEN j.links + 1 ELSE 0]

EnqueueRetry(j, mode, auto) == /\ job' = Continuation(j, mode, auto)
                           /\ rowStatus' = "queued"

\* Nothing to retry, or a retry that could not be submitted and was rolled back.
NotEnqueued(j, status) == /\ job' = j
                          /\ rowStatus' = status

\* What _worker schedules after its result: a cool-down, an automatic
\* continuation (best effort), or nothing.
Schedules(j, r, status) ==
    LET twofa == status = "twofa_pending"
        kind == IF twofa THEN r.faFail ELSE r.pwFail
        left == IF twofa THEN j.tries < TwofaLimit
                ELSE r.pwStatus = "pending" /\ j.pwTries < PasswordLimit
    IN  \/ /\ kind = "throttle" /\ j.cooled < ThrottleLimit
           /\ job' = [j EXCEPT !.cooled = @ + 1]
           /\ timers' = timers \cup {job'}
           /\ rowStatus' = status
        \/ /\ kind = "throttle" => j.cooled >= ThrottleLimit
           /\ NotEnqueued(j, status)
           /\ UNCHANGED timers
        \/ /\ kind = "transient" /\ left
           /\ EnqueueRetry(j, IF twofa THEN "twofa" ELSE "password", TRUE)
           /\ UNCHANGED timers

Finishes ==
    LET r == SetupResult(job)
        j == [job EXCEPT !.at = "over", !.env = r, !.prior = NoResult, !.fresh = 0]
    IN  /\ job.at = "finish"
        /\ saved' = MergedResult(saved, r)
        /\ Schedules(j, r, StatusOf(r))
        /\ UNCHANGED <<account, lostSave, manuals, setupCrashes>>

\* retry_password and _enqueue_retry: what the durable result, filled up from the
\* task's, still lacks.
PasswordRetryable(j) ==
    LET r == MergedResult(j.env, saved)
    IN  rowStatus \notin {"queued", "running"} /\ r.token /\ PasswordRetryAllowed(r)

TwofaRow == rowStatus \in {"twofa_pending", "available", "pending_rerun"}

\* retry_twofa: of a task left with the factor pending, else of the durable result.
TwofaOfTask == StatusOf(job.env) = "twofa_pending"
TwofaRetryable == /\ TwofaRow
                  /\ ~TwofaOfTask => saved.token /\ saved.faStatus # "enabled"
FromResult == [NewJob EXCEPT !.at = "over", !.env = saved]

OperatorRetries(mode) ==
    /\ job.at = "over" /\ manuals < MaxManual
    /\ manuals' = manuals + 1
    /\ UNCHANGED <<account, saved, timers, lostSave, setupCrashes>>
    /\ \/ mode = "password" /\ PasswordRetryable(job) /\ EnqueueRetry(job, mode, FALSE)
       \/ /\ mode = "twofa" /\ TwofaRetryable
          /\ EnqueueRetry(IF TwofaOfTask THEN job ELSE FromResult, mode, FALSE)

\* batch_retry of the task whose cool-down is over; a tripped breaker, or a failure
\* that is not to be replayed in bulk, ends it.
ThrottleFires(j) ==
    /\ timers' = timers \ {j}
    /\ UNCHANGED <<account, saved, lostSave, manuals, setupCrashes>>
    /\ \/ UNCHANGED <<job, rowStatus>>
       \/ /\ job.at = "over" /\ PasswordRetryAllowed(j.env) /\ PasswordRetryable(j)
          /\ EnqueueRetry(j, "password", TRUE)
       \/ /\ job.at = "over" /\ ~PasswordRetryAllowed(j.env) /\ TwofaRow
          /\ StatusOf(j.env) = "twofa_pending"
          /\ EnqueueRetry(j, "twofa", TRUE)

\* The process dies: the cool-downs are lost, and so is the work of a job; its row
\* is recovered.
SetupCrash ==
    /\ setupCrashes < MaxSetupCrashes
    /\ job' = IF job.at = "over" THEN job ELSE [job EXCEPT !.at = "over", !.env = job.prior,
                                                !.prior = NoResult, !.fresh = 0]
    /\ timers' = {}
    /\ rowStatus' = IF rowStatus \in {"queued", "running"} THEN "pending_rerun" ELSE rowStatus
    /\ setupCrashes' = setupCrashes + 1
    /\ UNCHANGED <<account, saved, lostSave, manuals>>

SetupNext ==
    \/ \E used \in BOOLEAN : Registered(used)
    \/ PasswordIneligible
    \/ \E kind \in FailKinds \ {"none"} : PasswordFails(kind) \/ TwofaFails(kind)
    \/ PasswordAdds \/ PasswordPersists \/ PasswordDone
    \/ FastPath \/ Reauthenticates \/ AlreadyEnabled
    \/ Enrolls \/ TwofaPersists \/ TwofaActivates
    \/ Finishes
    \/ \E mode \in {"twofa", "password"} : OperatorRetries(mode)
    \/ \E j \in timers : ThrottleFires(j)
    \/ SetupCrash

SetupSpec == SetupInit /\ [][SetupNext]_setupVars

-----------------------------------------------------------------------------
(* Properties.                                                             *)

\* The secret of an active second factor, shown once by the server, is in the
\* account's result whatever failed or died since, unless its save was refused;
\* and a result never claims a factor or a password the server does not hold.
CredentialsAreKept ==
    /\ account.mfa # 0 /\ ~lostSave => saved.secret = account.mfa
    /\ saved.faStatus = "enabled" => account.mfa # 0
    /\ saved.pwStatus = "enabled" => account.password

\* Nobody continues an account automatically for ever: every chain of automatic
\* retries, cool-downs included, uses up its budgets.
RetriesAreBounded == job.links <= TwofaLimit + PasswordLimit + ThrottleLimit

\* An enrollment left for the fast path comes with the session that activates it,
\* as _enroll_twofa's comment on its milestone says.
FastPathIsReady ==
    job.at = "over" /\ ~lostSave /\ account.mfa = 0 /\ saved.secret # 0
        => saved.session = saved.secret
=============================================================================
