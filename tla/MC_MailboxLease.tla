-------------------------- MODULE MC_MailboxLease --------------------------
(* Small instances of MailboxLease for TLC.                                *)
EXTENDS MailboxLease, TLC

CONSTANTS r1, r2, t1, t2, t3, b1, b2

OneRow   == [t \in Tasks |-> r1]
TwoRows  == [t \in Tasks |-> IF t = t3 THEN r2 ELSE r1]
SharedBatch == [t \in Tasks |-> b1]

\* Tasks that share their row and their batch are interchangeable.
Symmetry == Permutations(Tasks)
RowSymmetry == Permutations({t1, t2})
=============================================================================
