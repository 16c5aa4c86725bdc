-------------------------- MODULE MC_ServiceFair ----------------------------
(***************************************************************************)
(* What must happen in the end: the gate reopens, an account check is      *)
(* answered and a dead browser is replaced. The components keep no state in*)
(* common, so one behaviour runs one of them.                              *)
(***************************************************************************)
EXTENDS ConnectivityGuard, AccountChecks, BrowserPool, TLC

VARIABLE focus     \* the component that runs in this behaviour

suiteVars == <<guardVars, checkVars, poolVars, focus>>

SuiteInit ==
    /\ focus \in {"guard", "checks", "browsers"}
    /\ GuardInit
    /\ CheckInit
    /\ PoolInit

OnlyGuard == focus = "guard" /\ UNCHANGED <<checkVars, poolVars, focus>>
OnlyChecks == focus = "checks" /\ UNCHANGED <<guardVars, poolVars, focus>>
OnlyBrowsers == focus = "browsers" /\ UNCHANGED <<guardVars, checkVars, focus>>

SuiteNext ==
    \/ OnlyGuard /\ GuardNext
    \/ OnlyChecks /\ CheckNext
    \/ OnlyBrowsers /\ PoolNext

SuiteSpec == SuiteInit /\ [][SuiteNext]_suiteVars

\* The fairness the components assume, each in the behaviours it runs in: threads
\* that can go on do, time passes, and a probe that may always succeed does.
FairGuard ==
    /\ \A r \in Requests : WF_suiteVars(OnlyGuard /\ RequestStep(r))
    /\ WF_suiteVars(OnlyGuard /\ ProbeStep)
    /\ \A n \in 0 .. RecoveryRounds - 1 : SF_suiteVars(OnlyGuard /\ guard.rounds = n /\ ProbeSucceeded)
    /\ WF_suiteVars(OnlyGuard /\ SwitchSet) /\ WF_suiteVars(OnlyGuard /\ SwitchResume)
    /\ WF_suiteVars(OnlyGuard /\ CooldownPasses) /\ WF_suiteVars(OnlyGuard /\ SpacingPasses)


FairChecks == /\ \A s \in Services : WF_suiteVars(OnlyChecks /\ ServiceStep(s))
              /\ WF_suiteVars(OnlyChecks /\ RecoverChecks)

FairBrowsers == WF_suiteVars(OnlyBrowsers /\ RecyclerStep)

SuiteFairSpec == SuiteSpec /\ FairGuard /\ FairChecks /\ FairBrowsers
=============================================================================
