----------------------------- MODULE MC_Upkeep ------------------------------
(***************************************************************************)
(* What the free manager keeps up: the rows of its tasks under one manager *)
(* after the other, the codes typed by hand, and the proxy pool with its   *)
(* leases. They keep no state in common, so one behaviour runs one of them.*)
(***************************************************************************)
EXTENDS FreeTasks, ManualVerification, ProxyPool, ProxyLeases, TLC

VARIABLE focus     \* the component that runs in this behaviour

suiteVars == <<freeVars, manualVars, poolRowVars, leaseVars, focus>>

SuiteInit ==
    /\ focus \in {"work", "manual", "exits", "leases"}
    /\ FreeInit
    /\ ManualInit
    /\ ProxyInit
    /\ LeaseInit

OnlyWork == focus = "work" /\ UNCHANGED <<manualVars, poolRowVars, leaseVars, focus>>
OnlyManual == focus = "manual" /\ UNCHANGED <<freeVars, poolRowVars, leaseVars, focus>>
OnlyExits == focus = "exits" /\ UNCHANGED <<freeVars, manualVars, leaseVars, focus>>
OnlyLeases == focus = "leases" /\ UNCHANGED <<freeVars, manualVars, poolRowVars, focus>>

SuiteNext ==
    \/ OnlyWork /\ FreeNext
    \/ OnlyManual /\ ManualNext
    \/ OnlyExits /\ ProxyNext
    \/ OnlyLeases /\ LeaseNext

SuiteSpec == SuiteInit /\ [][SuiteNext]_suiteVars

UpkeepSymmetry == Permutations(Managers) \cup Permutations(ProxyTasks)
=============================================================================
