------------------------ MODULE MC_FreeRegistration -------------------------
(***************************************************************************)
(* The free registration: the lease of a mailbox row, the owner of the     *)
(* database, the guard with its gate, the sessions of a signup, and what   *)
(* completes a registered account. They keep no state in common, so one    *)
(* behaviour runs one of them.                                             *)
(***************************************************************************)
EXTENDS MC_MailboxLease, ManagerOwner, ConnectivityGuard, SignupFlow, AccountSetup,
        TLC

CONSTANT Components \* those a run is about

VARIABLE focus     \* the component that runs in this behaviour

suiteVars == <<vars, ownerVars, guardVars, signupVars, setupVars, focus>>

SuiteInit ==
    /\ focus \in Components
    /\ Init
    /\ OwnerInit
    /\ GuardInit
    /\ SignupInit
    /\ SetupInit

OnlyMailbox == focus = "mailbox" /\ UNCHANGED <<ownerVars, guardVars, signupVars, setupVars, focus>>
OnlyOwner == focus = "owner" /\ UNCHANGED <<vars, guardVars, signupVars, setupVars, focus>>
OnlyGuard == focus = "guard" /\ UNCHANGED <<vars, ownerVars, signupVars, setupVars, focus>>
OnlySignup == focus = "signup" /\ UNCHANGED <<vars, ownerVars, guardVars, setupVars, focus>>
OnlySetup == focus = "setup" /\ UNCHANGED <<vars, ownerVars, guardVars, signupVars, focus>>

SuiteNext ==
    \/ OnlyMailbox /\ Next
    \/ OnlyOwner /\ OwnerNext
    \/ OnlyGuard /\ GuardNext
    \/ OnlySignup /\ SignupNext
    \/ OnlySetup /\ SetupNext

SuiteSpec == SuiteInit /\ [][SuiteNext]_suiteVars

RaceSymmetry == Symmetry \cup Permutations(Managers) \cup Permutations(Requests)
=============================================================================
