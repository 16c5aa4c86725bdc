-------------------------- MODULE MC_WorkbenchRun ---------------------------
(***************************************************************************)
(* A run of the SMS workbench: its batches over the mailboxes, and its     *)
(* notices. They keep no state in common, so one behaviour runs one of     *)
(* them.                                                                   *)
(***************************************************************************)
EXTENDS ImporterBatch, RunNotices, TLC

VARIABLE focus     \* the component that runs in this behaviour

suiteVars == <<importVars, noticeVars, focus>>

SuiteInit ==
    /\ focus \in {"importer", "notices"}
    /\ ImportInit
    /\ NoticeInit

OnlyImporter == focus = "importer" /\ UNCHANGED <<noticeVars, focus>>
OnlyNotices == focus = "notices" /\ UNCHANGED <<importVars, focus>>

SuiteNext ==
    \/ OnlyImporter /\ ImportNext
    \/ OnlyNotices /\ NoticeNext

SuiteSpec == SuiteInit /\ [][SuiteNext]_suiteVars

MailboxSymmetry == Permutations(Mailboxes)
=============================================================================
