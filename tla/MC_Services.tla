---------------------------- MODULE MC_Services -----------------------------
(***************************************************************************)
(* What a task is given: the gate that admits it, a place in a browser,    *)
(* and the numbers it buys. They keep no state in common, so one behaviour *)
(* runs one of them.                                                       *)
(***************************************************************************)
EXTENDS AdaptiveGate, BrowserPool, SmsOrders, TLC

VARIABLE focus     \* the component that runs in this behaviour

suiteVars == <<adaptVars, poolVars, smsVars, focus>>

SuiteInit ==
    /\ focus \in {"admission", "browsers", "sms"}
    /\ AdaptInit
    /\ PoolInit
    /\ SmsInit

OnlyAdmission == focus = "admission" /\ UNCHANGED <<poolVars, smsVars, focus>>
OnlyBrowsers == focus = "browsers" /\ UNCHANGED <<adaptVars, smsVars, focus>>
OnlySms == focus = "sms" /\ UNCHANGED <<adaptVars, poolVars, focus>>

SuiteNext ==
    \/ OnlyAdmission /\ AdaptNext
    \/ OnlyBrowsers /\ PoolNext
    \/ OnlySms /\ SmsNext

SuiteSpec == SuiteInit /\ [][SuiteNext]_suiteVars

\* Swaps the two tasks that buy numbers, at the gate too.
ServiceSymmetry == Permutations(SmsTasks)
=============================================================================
