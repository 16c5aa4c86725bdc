---------------------------- MODULE MC_FreeFair -----------------------------
(***************************************************************************)
(* A task completes, an idle manager gives its ownership up, and the outbox*)
(* of the notifications drains. The components keep no state in common, so *)
(* one behaviour runs one of them.                                         *)
(***************************************************************************)
EXTENDS MC_MailboxLease, ManagerOwner, RunNotices, TLC

VARIABLE focus     \* the component that runs in this behaviour

suiteVars == <<vars, ownerVars, noticeVars, focus>>

SuiteInit ==
    /\ focus \in {"mailbox", "owner", "notices"}
    /\ Init
    /\ OwnerInit
    /\ NoticeInit

OnlyMailbox == focus = "mailbox" /\ UNCHANGED <<ownerVars, noticeVars, focus>>
OnlyOwner == focus = "owner" /\ UNCHANGED <<vars, noticeVars, focus>>
OnlyNotices == focus = "notices" /\ UNCHANGED <<vars, ownerVars, focus>>

SuiteNext ==
    \/ OnlyMailbox /\ Next
    \/ OnlyOwner /\ OwnerNext
    \/ OnlyNotices /\ NoticeNext

SuiteSpec == SuiteInit /\ [][SuiteNext]_suiteVars

\* The fairness the components assume, each in the behaviours it runs in: threads
\* that can go on do, and time passes.
FairMailbox ==
    /\ \A t \in Tasks :
         /\ WF_suiteVars(OnlyMailbox /\ Advance(t))
         /\ WF_suiteVars(OnlyMailbox /\ (Renew(t) \/ RenewRead(t)))
         /\ SF_suiteVars(OnlyMailbox /\ ConfirmStart(t))
         /\ SF_suiteVars(OnlyMailbox /\ ReleaseStart(t))
         /\ SF_suiteVars(OnlyMailbox /\ (Submit(t) \/ Fail(t)))
    /\ WF_suiteVars(OnlyMailbox /\ Reserve)
    /\ WF_suiteVars(OnlyMailbox /\ (Enqueue \/ StartupFails))
    /\ WF_suiteVars(OnlyMailbox /\ boot # "up" /\ Recover)
    /\ WF_suiteVars(OnlyMailbox /\ Tick)

FairOwner ==
    /\ WF_suiteVars(OnlyOwner /\ Age)
    /\ \A m \in Managers :
         /\ WF_suiteVars(OnlyOwner /\ (Launch(m) \/ StartFails(m)))
         /\ WF_suiteVars(OnlyOwner /\ AskIdle(m))
         /\ WF_suiteVars(OnlyOwner /\ (RetryLaunch(m) \/ RetryRefused(m) \/ RetryFails(m)))
         /\ WF_suiteVars(OnlyOwner /\ RenewOwner(m))
         /\ WF_suiteVars(OnlyOwner /\ BatchEnd(m))
         /\ \A c \in Closers : /\ WF_suiteVars(OnlyOwner /\ ReleaseClear(m, c))
                               /\ WF_suiteVars(OnlyOwner /\ ReleaseDelete(m, c))

FairNotices == WF_suiteVars(OnlyNotices /\ MailerStep)

SuiteFairSpec == SuiteSpec /\ FairMailbox /\ FairOwner /\ FairNotices
=============================================================================
