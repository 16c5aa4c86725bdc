------------------------------ MODULE UpkeepProofs ------------------------------
(***************************************************************************)
(* What holds of the upkeep of the registration for every value of the    *)
(* constants: the snapshots of the proxy pool implement a table of leases, *)
(* the refills keep the pool's size, and the codes a person types go to    *)
(* the wait they were typed for.                                           *)
(***************************************************************************)
EXTENDS ManualVerification, ProxyPool, ProxyLeases, FiniteSetTheorems, SequenceTheorems, TLAPS

(***************************************************************************)
(* The leases.  What an operation has loaded of another task's lease is    *)
(* never more than the table holds of it, and once that lease is gone from *)
(* the table the operation knows that the row has moved; so _save leaves   *)
(* it alone.                                                               *)
(***************************************************************************)

\* What the operation of task t knows of its own lease, by its kind.
OwnCopy(t) ==
  /\ pending[t].kind = "lease" =>
       /\ stage[t] = "new"
       /\ pending[t].wanted[t] > 0 /\ pending[t].seen[t] = NoRow
  /\ pending[t].kind = "heartbeat" =>
       /\ stage[t] = "working"
       /\ pending[t].wanted[t] > 0 /\ table[t] <= pending[t].wanted[t]
  /\ pending[t].kind = "release" =>
       /\ stage[t] = "working"
       /\ pending[t].wanted[t] = NoRow
       /\ pending[t].seen[t] # NoRow /\ table[t] <= pending[t].seen[t]
  /\ pending[t].kind = "report" => stage[t] # "dead"

\* Task t's operation only copies the lease of task o.
Copies(t, o) == pending[t].kind # "idle" /\ (t # o \/ pending[t].kind = "report")

\* Such a copy is behind the table, and knows that it is when the lease is gone.
CopyIsBehind(t, o) ==
  Copies(t, o) =>
    /\ pending[t].wanted[o] = pending[t].seen[o]
    /\ table[o] # NoRow => pending[t].wanted[o] <= table[o]
    /\ table[o] = NoRow /\ pending[t].seen[o] # NoRow => pending[t].moved
    /\ pending[o].kind \in {"lease", "heartbeat"} => pending[t].wanted[o] <= pending[o].wanted[o]

NothingHeld == \A t \in LeaseTasks : stage[t] \in {"new", "done"} => table[t] = NoRow

LeaseInv == /\ LeaseTypeOK
            /\ WorkingHoldsLease
            /\ NothingHeld
            /\ \A t \in LeaseTasks : OwnCopy(t)
            /\ \A t, o \in LeaseTasks : CopyIsBehind(t, o)

-------------------------------------------------------------------------------
LEMMA EntryFacts == /\ NoRow \in Entry /\ NoRow = 0 - 1 /\ Entry \subseteq Int
                    /\ LeaseTerm \in Entry /\ LeaseTerm > 0
                    /\ \A n \in Entry : n >= NoRow /\ n <= LeaseTerm
                    /\ \A n \in Entry : n # NoRow => n >= 0
  BY LeaseTermAssumption DEF Entry, NoRow, Left

LEMMA TickFacts ==
  /\ \A n \in Entry : TickOff(n) \in Entry
  /\ TickOff(NoRow) = NoRow
  /\ \A n \in Entry : n # NoRow => TickOff(n) # NoRow
  /\ \A m, n \in Entry : m <= n => TickOff(m) <= TickOff(n)
  /\ \A n \in Entry : n > 0 /\ n # 1 => TickOff(n) > 0
  BY LeaseTermAssumption DEF TickOff, OneLess, Greater, Entry, NoRow, Left

\* The fields of an operation.
LEMMA OperationFields ==
  ASSUME LeaseTypeOK, NEW t \in LeaseTasks
  PROVE  /\ pending[t] \in Operation /\ pending[t].kind \in Kinds
         /\ pending[t].seen \in [LeaseTasks -> Entry]
         /\ pending[t].wanted \in [LeaseTasks -> Entry]
         /\ pending[t].moved \in BOOLEAN
         /\ table[t] \in Entry /\ stage[t] \in Stages
         /\ \A o \in LeaseTasks : pending[t].seen[o] \in Entry /\ pending[t].wanted[o] \in Entry
<1>1. pending[t] \in Operation /\ table[t] \in Entry /\ stage[t] \in Stages
  BY DEF LeaseTypeOK
<1> QED BY <1>1 DEF Operation

LEMMA IdleIsOperation ==
  IdleStage \in Operation /\ IdleStage.kind = "idle" /\ NoCopy \in [LeaseTasks -> Entry]
  BY EntryFacts DEF IdleStage, Operation, Kinds, NoCopy

\* A load copies what has not expired.
LEMMA LoadedCopies ==
  ASSUME LeaseTypeOK
  PROVE  /\ Loaded \in [LeaseTasks -> Entry]
         /\ \A o \in LeaseTasks : /\ table[o] # NoRow => Loaded[o] <= table[o]
                                  /\ table[o] = NoRow => Loaded[o] = NoRow
                                  /\ table[o] > 0 => Loaded[o] = table[o]
                                  /\ Loaded[o] <= LeaseTerm
<1>1. \A o \in LeaseTasks : table[o] \in Entry
  BY DEF LeaseTypeOK
<1>2. \A o \in LeaseTasks : Loaded[o] = IF table[o] > 0 THEN table[o] ELSE NoRow
  BY DEF Loaded
<1>3. \A o \in LeaseTasks : Loaded[o] \in Entry
  BY <1>1, <1>2, EntryFacts
<1>4. Loaded \in [LeaseTasks -> Entry]
  BY <1>3 DEF Loaded
<1> HIDE DEF Loaded
<1>5. ASSUME NEW o \in LeaseTasks
      PROVE  /\ table[o] # NoRow => Loaded[o] <= table[o]
             /\ table[o] = NoRow => Loaded[o] = NoRow
             /\ table[o] > 0 => Loaded[o] = table[o]
             /\ Loaded[o] <= LeaseTerm
  <2>1. table[o] \in Int /\ NoRow = 0 - 1 /\ table[o] >= NoRow /\ table[o] <= LeaseTerm /\ LeaseTerm > 0
        /\ LeaseTerm \in Int
    BY <1>1, EntryFacts
  <2> QED BY <1>2, <2>1
<1> QED BY <1>4, <1>5

\* What a commit leaves of the operations that wait.
LEMMA MovedFields ==
  ASSUME LeaseTypeOK, NEW mine \in LeaseTasks, pending' = Moved(mine)
  PROVE  /\ pending' \in [LeaseTasks -> Operation]
         /\ \A t \in LeaseTasks :
              IF t = mine \/ pending[t].kind = "idle" THEN pending'[t] = IdleStage
              ELSE /\ pending'[t].kind = pending[t].kind
                   /\ pending'[t].seen = pending[t].seen
                   /\ pending'[t].wanted = pending[t].wanted
                   /\ pending'[t].moved
<1>1. ASSUME NEW t \in LeaseTasks
      PROVE  LET p == [pending[t] EXCEPT !.moved = TRUE]
             IN  /\ p \in Operation /\ p.kind = pending[t].kind /\ p.seen = pending[t].seen
                 /\ p.wanted = pending[t].wanted /\ p.moved
  <2>1. pending[t] \in Operation
    BY OperationFields
  <2> QED BY <2>1 DEF Operation
<1>2. \A t \in LeaseTasks :
         pending'[t] = IF t = mine \/ pending[t].kind = "idle" THEN IdleStage
                       ELSE [pending[t] EXCEPT !.moved = TRUE]
  BY DEF Moved
<1>3. \A t \in LeaseTasks : pending'[t] \in Operation
  BY <1>1, <1>2, IdleIsOperation
<1>4. pending' = [t \in LeaseTasks |-> pending'[t]]
  BY DEF Moved
<1> QED BY <1>1, <1>2, <1>3, <1>4

\* A tick ages the copies of an operation as it ages the table.
LEMMA AgedFields ==
  ASSUME LeaseTypeOK, Ages
  PROVE  /\ pending' \in [LeaseTasks -> Operation]
         /\ table' \in [LeaseTasks -> Entry]
         /\ \A t \in LeaseTasks : table'[t] = TickOff(table[t])
         /\ \A t, o \in LeaseTasks : /\ pending'[t].kind = pending[t].kind
                                     /\ pending'[t].seen[o] = TickOff(pending[t].seen[o])
                                     /\ pending'[t].wanted[o] = TickOff(pending[t].wanted[o])
                                     /\ pending'[t].moved = pending[t].moved
<1>1. ASSUME NEW copy \in [LeaseTasks -> Entry]
      PROVE  Aged(copy) \in [LeaseTasks -> Entry] /\ \A o \in LeaseTasks : Aged(copy)[o] = TickOff(copy[o])
  BY <1>1, TickFacts DEF Aged
<1>2. table' = Aged(table) /\ table \in [LeaseTasks -> Entry]
  BY DEF Ages, LeaseTypeOK
<1>3. ASSUME NEW t \in LeaseTasks
      PROVE  /\ pending'[t] = [pending[t] EXCEPT !.seen = Aged(@), !.wanted = Aged(@)]
             /\ pending'[t] \in Operation
             /\ pending'[t].kind = pending[t].kind /\ pending'[t].moved = pending[t].moved
             /\ pending'[t].seen = Aged(pending[t].seen)
             /\ pending'[t].wanted = Aged(pending[t].wanted)
  <2>1. pending'[t] = [pending[t] EXCEPT !.seen = Aged(@), !.wanted = Aged(@)]
    BY DEF Ages
  <2>2. pending[t] \in Operation
    BY OperationFields
  <2>3. Aged(pending[t].seen) \in [LeaseTasks -> Entry] /\ Aged(pending[t].wanted) \in [LeaseTasks -> Entry]
    BY <1>1, OperationFields
  <2> HIDE DEF Aged
  <2> QED BY <2>1, <2>2, <2>3 DEF Operation
<1>4. pending' = [t \in LeaseTasks |-> pending'[t]]
  BY DEF Ages
<1>5. \A t \in LeaseTasks : pending[t].seen \in [LeaseTasks -> Entry] /\ pending[t].wanted \in [LeaseTasks -> Entry]
  BY OperationFields
<1>6. table' \in [LeaseTasks -> Entry] /\ \A t \in LeaseTasks : table'[t] = TickOff(table[t])
  BY <1>1, <1>2
<1>7. pending' \in [LeaseTasks -> Operation]
  BY <1>3, <1>4
<1>8. ASSUME NEW t \in LeaseTasks, NEW o \in LeaseTasks
      PROVE  /\ pending'[t].seen[o] = TickOff(pending[t].seen[o])
             /\ pending'[t].wanted[o] = TickOff(pending[t].wanted[o])
  <2>1. pending'[t].seen = Aged(pending[t].seen) /\ pending'[t].wanted = Aged(pending[t].wanted)
    BY <1>3
  <2>2. /\ Aged(pending[t].seen)[o] = TickOff(pending[t].seen[o])
        /\ Aged(pending[t].wanted)[o] = TickOff(pending[t].wanted[o])
    BY <1>1, <1>5
  <2> QED BY <2>1, <2>2
<1>9. ASSUME NEW t \in LeaseTasks, NEW o \in LeaseTasks
      PROVE  pending'[t].kind = pending[t].kind /\ pending'[t].moved = pending[t].moved
  BY <1>3
<1> QED BY <1>6, <1>7, <1>8, <1>9

\* The heart of it: the lease of a task that the operation only copies survives
\* the merge, up to a row that has expired.
LEMMA OthersSpared ==
  ASSUME LeaseInv, NEW t \in LeaseTasks, NEW o \in LeaseTasks, Copies(t, o)
  PROVE  \/ MergedLease(pending[t], o) = table[o]
         \/ table[o] = 0 /\ MergedLease(pending[t], o) = NoRow
<1> DEFINE op == pending[t]
<1>1. /\ op.wanted[o] = op.seen[o]
      /\ table[o] # NoRow => op.wanted[o] <= table[o]
      /\ table[o] = NoRow /\ op.seen[o] # NoRow => op.moved
  BY DEF LeaseInv, CopyIsBehind
<1>2. op.seen[o] \in Entry /\ op.wanted[o] \in Entry /\ table[o] \in Entry /\ op.moved \in BOOLEAN
  BY OperationFields DEF LeaseInv
<1> HIDE DEF op
<1>4. /\ op.seen[o] \in Int /\ op.wanted[o] \in Int /\ table[o] \in Int /\ NoRow = 0 - 1
      /\ op.wanted[o] >= NoRow /\ table[o] >= NoRow
  BY <1>2, EntryFacts
<1>3. \/ MergedLease(op, o) = table[o]
      \/ table[o] = 0 /\ MergedLease(op, o) = NoRow
  BY <1>1, <1>2, <1>4 DEF MergedLease, Renewed, Withheld, Longer, Greater
<1> QED BY <1>3 DEF op

\* What a commit makes of the task's own lease.
LEMMA OwnMerged ==
  ASSUME LeaseInv, NEW t \in LeaseTasks
  PROVE  /\ pending[t].kind = "lease" => MergedLease(pending[t], t) = pending[t].wanted[t]
         /\ pending[t].kind = "heartbeat" => MergedLease(pending[t], t) = pending[t].wanted[t]
         /\ pending[t].kind = "release" => MergedLease(pending[t], t) = NoRow
<1> DEFINE op == pending[t]
<1>1. OwnCopy(t) /\ (stage[t] = "working" => table[t] > 0) /\ (stage[t] = "new" => table[t] = NoRow)
  BY DEF LeaseInv, WorkingHoldsLease, NothingHeld
<1>2. /\ op.seen[t] \in Int /\ op.wanted[t] \in Int /\ table[t] \in Int /\ NoRow = 0 - 1
      /\ op.moved \in BOOLEAN
  BY OperationFields, EntryFacts DEF LeaseInv
<1>3. /\ op.kind = "lease" => op.wanted[t] > 0 /\ op.seen[t] = NoRow /\ table[t] = NoRow
      /\ op.kind = "heartbeat" => op.wanted[t] > 0 /\ table[t] <= op.wanted[t] /\ table[t] > 0
      /\ op.kind = "release" => op.wanted[t] = NoRow /\ op.seen[t] # NoRow /\ table[t] <= op.seen[t] /\ table[t] > 0
  BY <1>1 DEF OwnCopy
<1> HIDE DEF op
<1>4. /\ op.kind = "lease" => MergedLease(op, t) = op.wanted[t]
      /\ op.kind = "heartbeat" => MergedLease(op, t) = op.wanted[t]
      /\ op.kind = "release" => MergedLease(op, t) = NoRow
  BY <1>2, <1>3 DEF MergedLease, Renewed, Withheld, Longer, Greater
<1> QED BY <1>4 DEF op

-------------------------------------------------------------------------------
\* Every step keeps the types.
LEMMA TypeKept ==
  ASSUME LeaseInv, [LeaseNext]_leaseVars PROVE LeaseTypeOK'
<1>1. LeaseTypeOK /\ \A t \in LeaseTasks : OwnCopy(t)
  BY DEF LeaseInv
<1>2. \A t \in LeaseTasks : pending[t] \in Operation /\ table[t] \in Entry /\ stage[t] \in Stages
  BY <1>1 DEF LeaseTypeOK
<1>3. ASSUME NEW t \in LeaseTasks, NEW kind \in Kinds, NEW wanted \in [LeaseTasks -> Entry],
             Start(t, kind, wanted)
      PROVE  LeaseTypeOK'
  <2>1. Loaded \in [LeaseTasks -> Entry]
    BY <1>1, LoadedCopies
  <2> HIDE DEF Loaded
  <2>2. [kind |-> kind, seen |-> Loaded, wanted |-> wanted, moved |-> FALSE] \in Operation
    BY <2>1 DEF Operation
  <2>3. pending' \in [LeaseTasks -> Operation]
    BY <1>1, <1>3, <2>2 DEF Start, LeaseTypeOK
  <2> QED BY <1>1, <1>3, <2>3 DEF Start, LeaseTypeOK
<1>4. ASSUME NEW t \in LeaseTasks, NEW n \in Entry
      PROVE  [Loaded EXCEPT ![t] = n] \in [LeaseTasks -> Entry]
  BY <1>1, LoadedCopies
<1>5. CASE \E t \in LeaseTasks : StartLease(t)
  BY <1>3, <1>4, <1>5, EntryFacts DEF StartLease, Kinds
<1>6. CASE \E t \in LeaseTasks : StartHeartbeat(t)
  BY <1>3, <1>4, <1>6, EntryFacts DEF StartHeartbeat, Kinds
<1>7. CASE \E t \in LeaseTasks : StartRelease(t)
  BY <1>3, <1>4, <1>7, EntryFacts DEF StartRelease, Kinds
<1>8. CASE \E t \in LeaseTasks : StartReport(t)
  BY <1>1, <1>3, <1>8, LoadedCopies DEF StartReport, Kinds
<1>9. ASSUME NEW t \in LeaseTasks, Commit(t) PROVE LeaseTypeOK'
  <2>1. pending' \in [LeaseTasks -> Operation]
    BY <1>1, <1>9, MovedFields DEF Commit
  <2>2. StageAfter(t) \in Stages
    BY <1>2 DEF StageAfter, Stages
  <2>3. stage' \in [LeaseTasks -> Stages]
    BY <1>1, <1>9, <2>2 DEF Commit, LeaseTypeOK
  <2>4. ASSUME NEW o \in LeaseTasks PROVE MergedLease(pending[t], o) \in Entry
    <3>1. CASE Copies(t, o)
      BY <1>2, <3>1, OthersSpared, EntryFacts
    <3>2. CASE ~Copies(t, o)
      <4>1. pending[t].kind \in {"lease", "heartbeat", "release"} /\ o = t
        BY <1>1, <1>9, <3>2, OperationFields DEF Commit, Copies, Kinds
      <4> QED BY <1>1, <4>1, OwnMerged, OperationFields, EntryFacts
    <3> QED BY <3>1, <3>2
  <2>5. table' \in [LeaseTasks -> Entry]
    BY <1>9, <2>4 DEF Commit, Merged
  <2> QED BY <1>1, <1>9, <2>1, <2>3, <2>5 DEF Commit, LeaseTypeOK
<1>10. ASSUME NEW t \in LeaseTasks, Again(t) PROVE LeaseTypeOK'
  BY <1>1, <1>10 DEF Again, LeaseTypeOK, Stages
<1>11. ASSUME NEW t \in LeaseTasks, Vanishes(t) PROVE LeaseTypeOK'
  BY <1>1, <1>11, IdleIsOperation, MaxVanishedAssumption DEF Vanishes, LeaseTypeOK, Stages
<1>12. ASSUME NEW t \in LeaseTasks, Reclaims(t) PROVE LeaseTypeOK'
  <2>1. pending' \in [LeaseTasks -> Operation]
    BY <1>1, <1>12, MovedFields DEF Reclaims
  <2> QED BY <1>1, <1>12, <2>1, EntryFacts DEF Reclaims, LeaseTypeOK
<1>13. CASE Ages
  <2>1. pending' \in [LeaseTasks -> Operation] /\ table' \in [LeaseTasks -> Entry]
    BY <1>1, <1>13, AgedFields
  <2> QED BY <1>1, <1>13, <2>1 DEF Ages, LeaseTypeOK
<1>14. CASE UNCHANGED leaseVars
  BY <1>1, <1>14 DEF leaseVars, LeaseTypeOK
<1> QED BY <1>5, <1>6, <1>7, <1>8, <1>9, <1>10, <1>11, <1>12, <1>13, <1>14 DEF LeaseNext

\* A step of one task's operation, seen by the leases: what a commit does to every lease.
LEMMA CommitSpares ==
  ASSUME LeaseInv, NEW t \in LeaseTasks, Commit(t), NEW o \in LeaseTasks
  PROVE  /\ table'[o] = MergedLease(pending[t], o)
         /\ o # t => stage'[o] = stage[o]
         /\ Copies(t, o) \/ (o = t /\ pending[t].kind \in {"lease", "heartbeat", "release"})
<1>1. table'[o] = MergedLease(pending[t], o)
  BY DEF Commit, Merged
<1>2. o # t => stage'[o] = stage[o]
  BY DEF Commit, LeaseInv, LeaseTypeOK
<1>3. Copies(t, o) \/ (o = t /\ pending[t].kind \in {"lease", "heartbeat", "release"})
  BY OperationFields DEF Commit, Copies, Kinds, LeaseInv
<1> QED BY <1>1, <1>2, <1>3

\* The operation that starts, and the ones that wait.
LEMMA StartFields ==
  ASSUME LeaseTypeOK, NEW t \in LeaseTasks, NEW kind, NEW wanted, Start(t, kind, wanted)
  PROVE  /\ pending[t].kind = "idle" /\ table' = table /\ stage' = stage
         /\ pending'[t].kind = kind /\ pending'[t].seen = Loaded
         /\ pending'[t].wanted = wanted /\ pending'[t].moved = FALSE
         /\ \A o \in LeaseTasks \ {t} : pending'[o] = pending[o]
  BY DEF Start, LeaseTypeOK

\* A task that works has a live lease after every step, one that does not work none.
LEMMA HeldKept ==
  ASSUME LeaseInv, [LeaseNext]_leaseVars PROVE WorkingHoldsLease' /\ NothingHeld'
<1> USE DEF LeaseInv
<1>1. \A o \in LeaseTasks : table[o] \in Entry /\ stage[o] \in Stages
  BY DEF LeaseTypeOK
<1>2. \A o \in LeaseTasks : /\ stage[o] = "working" => table[o] > 0
                            /\ stage[o] \in {"new", "done"} => table[o] = NoRow
  BY DEF WorkingHoldsLease, NothingHeld
<1>3. ASSUME table' = table, stage' = stage PROVE WorkingHoldsLease' /\ NothingHeld'
  BY <1>3 DEF WorkingHoldsLease, NothingHeld
<1>4. ASSUME NEW t \in LeaseTasks, StartLease(t) \/ StartHeartbeat(t) \/ StartRelease(t) \/ StartReport(t)
      PROVE  WorkingHoldsLease' /\ NothingHeld'
  BY <1>3, <1>4 DEF StartLease, StartHeartbeat, StartRelease, StartReport, Start
<1>5. ASSUME NEW t \in LeaseTasks, Commit(t), NEW o \in LeaseTasks
      PROVE  /\ stage'[o] = "working" => table'[o] > 0
             /\ stage'[o] \in {"new", "done"} => table'[o] = NoRow
  <2>1. CASE Copies(t, o)
    <3>1. table'[o] = table[o] \/ (table[o] = 0 /\ table'[o] = NoRow)
      BY <1>5, <2>1, OthersSpared, CommitSpares
    <3>2. stage'[o] = stage[o]
      BY <1>5, <2>1, CommitSpares DEF Copies, Commit, StageAfter, LeaseTypeOK
    <3> QED BY <1>1, <1>2, <3>1, <3>2, EntryFacts
  <2>2. CASE ~Copies(t, o)
    <3>1. o = t /\ pending[t].kind \in {"lease", "heartbeat", "release"}
          /\ table'[t] = MergedLease(pending[t], t) /\ OwnCopy(t)
      BY <1>5, <2>2, CommitSpares
    <3>2. stage'[t] = StageAfter(t)
      BY <1>5 DEF Commit, LeaseTypeOK
    <3> QED BY <3>1, <3>2, OwnMerged DEF StageAfter, OwnCopy
  <2> QED BY <2>1, <2>2
<1>6. ASSUME NEW t \in LeaseTasks, Again(t) \/ Vanishes(t) \/ Reclaims(t)
      PROVE  WorkingHoldsLease' /\ NothingHeld'
  BY <1>1, <1>2, <1>6 DEF Again, Vanishes, Reclaims, WorkingHoldsLease, NothingHeld, LeaseTypeOK
<1>7. CASE Ages
  <2>1. stage' = stage /\ \A o \in LeaseTasks : table'[o] = TickOff(table[o])
    BY <1>7, AgedFields DEF Ages
  <2>2. \A o \in LeaseTasks : stage[o] = "working" => table[o] # 1
    BY <1>7 DEF Ages, Prompt
  <2> QED BY <1>1, <1>2, <2>1, <2>2, TickFacts DEF WorkingHoldsLease, NothingHeld
<1>8. CASE UNCHANGED leaseVars
  BY <1>3, <1>8 DEF leaseVars
<1> QED BY <1>4, <1>5, <1>6, <1>7, <1>8 DEF LeaseNext, WorkingHoldsLease, NothingHeld

\* What an operation asks for its own task stays fit to be committed.
LEMMA OwnKept ==
  ASSUME LeaseInv, [LeaseNext]_leaseVars, NEW x \in LeaseTasks PROVE OwnCopy(x)'
<1> USE DEF LeaseInv
<1>1. table[x] \in Entry /\ stage[x] \in Stages /\ LeaseTypeOK
  BY DEF LeaseTypeOK
<1>2. /\ stage[x] = "working" => table[x] > 0
      /\ stage[x] \in {"new", "done"} => table[x] = NoRow
      /\ OwnCopy(x)
  BY DEF WorkingHoldsLease, NothingHeld
<1>3. ASSUME pending'[x].kind = "idle" PROVE OwnCopy(x)'
  BY <1>3 DEF OwnCopy
<1>4. ASSUME pending'[x] = pending[x], stage'[x] = stage[x], table'[x] = table[x] PROVE OwnCopy(x)'
  BY <1>2, <1>4 DEF OwnCopy
<1>5. ASSUME NEW t \in LeaseTasks, NEW kind, NEW wanted, Start(t, kind, wanted), t # x PROVE OwnCopy(x)'
  BY <1>1, <1>4, <1>5, StartFields
<1>6. CASE \E t \in LeaseTasks : StartLease(t)
  <2>1. PICK t \in LeaseTasks : StartLease(t)
    BY <1>6
  <2>2. CASE t = x
    <3>1. /\ stage'[x] = "new" /\ pending'[x].kind = "lease" /\ pending'[x].seen = Loaded
          /\ pending'[x].wanted = [Loaded EXCEPT ![x] = LeaseTerm]
      BY <1>1, <2>1, <2>2, StartFields DEF StartLease
    <3>2. Loaded[x] = NoRow /\ Loaded \in [LeaseTasks -> Entry]
      BY <1>1, <1>2, <2>1, <2>2, LoadedCopies DEF StartLease
    <3>3. pending'[x].wanted[x] = LeaseTerm
      BY <3>1, <3>2
    <3> QED BY <3>1, <3>2, <3>3, EntryFacts DEF OwnCopy
  <2> QED BY <1>5, <2>1, <2>2 DEF StartLease
<1>7. CASE \E t \in LeaseTasks : StartHeartbeat(t)
  <2>1. PICK t \in LeaseTasks : StartHeartbeat(t)
    BY <1>7
  <2>2. CASE t = x
    <3>1. /\ stage'[x] = "working" /\ pending'[x].kind = "heartbeat" /\ table'[x] = table[x]
          /\ pending'[x].wanted = [Loaded EXCEPT ![x] = LeaseTerm]
      BY <1>1, <2>1, <2>2, StartFields DEF StartHeartbeat
    <3>2. Loaded \in [LeaseTasks -> Entry]
      BY <1>1, LoadedCopies
    <3> HIDE DEF Loaded
    <3>3. pending'[x].wanted[x] = LeaseTerm
      BY <3>1, <3>2
    <3> QED BY <1>1, <3>1, <3>3, EntryFacts DEF OwnCopy
  <2> QED BY <1>5, <2>1, <2>2 DEF StartHeartbeat
<1>8. CASE \E t \in LeaseTasks : StartRelease(t)
  <2>1. PICK t \in LeaseTasks : StartRelease(t)
    BY <1>8
  <2>2. CASE t = x
    <3>1. /\ stage'[x] = "working" /\ pending'[x].kind = "release" /\ table'[x] = table[x]
          /\ pending'[x].seen = Loaded /\ pending'[x].wanted = [Loaded EXCEPT ![x] = NoRow] /\ table[x] > 0
      BY <1>1, <2>1, <2>2, StartFields DEF StartRelease
    <3>2. Loaded \in [LeaseTasks -> Entry] /\ Loaded[x] = table[x]
      BY <1>1, <3>1, LoadedCopies
    <3> HIDE DEF Loaded
    <3>3. pending'[x].wanted[x] = NoRow
      BY <3>1, <3>2
    <3>4. table[x] \in Int /\ NoRow = 0 - 1
      BY <1>1, EntryFacts
    <3> QED BY <1>1, <3>1, <3>2, <3>3, <3>4 DEF OwnCopy
  <2> QED BY <1>5, <2>1, <2>2 DEF StartRelease
<1>9. CASE \E t \in LeaseTasks : StartReport(t)
  <2>1. PICK t \in LeaseTasks : StartReport(t)
    BY <1>9
  <2>2. CASE t = x
    <3>1. stage' = stage /\ stage[x] # "dead" /\ pending'[x].kind = "report"
      BY <1>1, <2>1, <2>2, StartFields DEF StartReport
    <3> QED BY <3>1 DEF OwnCopy
  <2> QED BY <1>5, <2>1, <2>2 DEF StartReport
<1>10. ASSUME NEW t \in LeaseTasks, Commit(t) PROVE OwnCopy(x)'
  <2>1. CASE t = x
    BY <1>1, <1>3, <1>10, <2>1, MovedFields, IdleIsOperation DEF Commit
  <2>2. CASE t # x
    <3>1. CASE pending[x].kind = "idle"
      BY <1>1, <1>3, <1>10, <3>1, MovedFields, IdleIsOperation DEF Commit
    <3>2. CASE pending[x].kind # "idle"
      <4>1. /\ pending'[x].kind = pending[x].kind /\ pending'[x].seen = pending[x].seen
            /\ pending'[x].wanted = pending[x].wanted
        BY <1>1, <1>10, <2>2, <3>2, MovedFields DEF Commit
      <4>2. stage'[x] = stage[x] /\ (table'[x] = table[x] \/ table[x] = 0)
        BY <1>10, <2>2, CommitSpares, OthersSpared
      <4> QED BY <1>2, <4>1, <4>2 DEF OwnCopy
    <3> QED BY <3>1, <3>2
  <2> QED BY <2>1, <2>2
<1>11. ASSUME NEW t \in LeaseTasks, Again(t) PROVE OwnCopy(x)'
  <2>1. pending' = pending /\ table' = table /\ (t # x => stage'[x] = stage[x]) /\ pending[t].kind = "idle"
    BY <1>11 DEF Again, LeaseTypeOK
  <2> QED BY <1>3, <1>4, <2>1
<1>12. ASSUME NEW t \in LeaseTasks, Vanishes(t) PROVE OwnCopy(x)'
  <2>1. CASE t = x
    BY <1>3, <1>12, <2>1, IdleIsOperation DEF Vanishes, LeaseTypeOK
  <2>2. CASE t # x
    BY <1>4, <1>12, <2>2 DEF Vanishes, LeaseTypeOK
  <2> QED BY <2>1, <2>2
<1>13. ASSUME NEW t \in LeaseTasks, Reclaims(t) PROVE OwnCopy(x)'
  <2>1. CASE t = x \/ pending[x].kind = "idle"
    BY <1>1, <1>3, <1>13, <2>1, MovedFields, IdleIsOperation DEF Reclaims
  <2>2. CASE ~(t = x \/ pending[x].kind = "idle")
    <3>1. /\ pending'[x].kind = pending[x].kind /\ pending'[x].seen = pending[x].seen
          /\ pending'[x].wanted = pending[x].wanted
      BY <1>1, <1>13, <2>2, MovedFields DEF Reclaims
    <3>2. stage'[x] = stage[x] /\ table'[x] = table[x]
      BY <1>13, <2>2 DEF Reclaims, LeaseTypeOK
    <3> QED BY <1>2, <3>1, <3>2 DEF OwnCopy
  <2> QED BY <2>1, <2>2
<1>14. CASE Ages
  <2>1. /\ stage' = stage /\ table'[x] = TickOff(table[x]) /\ pending'[x].kind = pending[x].kind
        /\ pending'[x].seen[x] = TickOff(pending[x].seen[x])
        /\ pending'[x].wanted[x] = TickOff(pending[x].wanted[x])
    BY <1>1, <1>14, AgedFields DEF Ages
  <2>2. pending[x].kind \in {"lease", "heartbeat"} => pending[x].wanted[x] # 1
    BY <1>14 DEF Ages, Prompt
  <2>3. pending[x].seen[x] \in Entry /\ pending[x].wanted[x] \in Entry
    BY <1>1, OperationFields
  <2> QED BY <1>1, <1>2, <2>1, <2>2, <2>3, TickFacts DEF OwnCopy
<1>15. CASE UNCHANGED leaseVars
  BY <1>4, <1>15 DEF leaseVars
<1> QED BY <1>6, <1>7, <1>8, <1>9, <1>10, <1>11, <1>12, <1>13, <1>14, <1>15 DEF LeaseNext

\* An operation that starts copies the others' leases as they are, and what waits stays behind.
LEMMA StartKeepsBehind ==
  ASSUME LeaseInv, NEW t \in LeaseTasks, NEW kind, NEW wanted \in [LeaseTasks -> Entry],
         Start(t, kind, wanted),
         \A y \in LeaseTasks \ {t} : wanted[y] = Loaded[y],
         kind = "report" => wanted = Loaded,
         kind \in {"lease", "heartbeat"} => wanted[t] = LeaseTerm,
         NEW x \in LeaseTasks, NEW o \in LeaseTasks
  PROVE  CopyIsBehind(x, o)'
<1> USE DEF LeaseInv
<1>1. /\ table' = table
      /\ pending'[t].kind = kind /\ pending'[t].seen = Loaded
      /\ pending'[t].wanted = wanted /\ pending'[t].moved = FALSE
      /\ \A y \in LeaseTasks \ {t} : pending'[y] = pending[y]
  BY StartFields
<1>2. CopyIsBehind(x, o)
  OBVIOUS
<1>3. table[o] \in Int /\ NoRow = 0 - 1 /\ table[o] >= NoRow /\ table[o] <= LeaseTerm
  BY OperationFields, EntryFacts
<1>4. /\ table[o] # NoRow => Loaded[o] <= table[o]
      /\ table[o] = NoRow => Loaded[o] = NoRow
      /\ Loaded[o] <= LeaseTerm
      /\ table[o] > 0 => Loaded[o] = table[o]
      /\ Loaded[o] \in Entry
  BY LoadedCopies
<1> HIDE DEF Loaded
<1>5. CASE x = t
  <2>1. ASSUME Copies(x, o)' PROVE wanted[o] = Loaded[o] /\ (o = t => kind = "report")
    BY <1>1, <1>5, <2>1 DEF Copies
  <2>2. ASSUME o # t, pending[o].kind \in {"lease", "heartbeat"} PROVE Loaded[o] <= pending[o].wanted[o]
    <3>1. OwnCopy(o) /\ pending[o].wanted[o] \in Int
      BY OperationFields, EntryFacts
    <3>2. /\ stage[o] = "working" => table[o] > 0
          /\ stage[o] = "new" => table[o] = NoRow
      BY DEF WorkingHoldsLease, NothingHeld
    <3> QED BY <1>3, <1>4, <2>2, <3>1, <3>2 DEF OwnCopy
  <2>3. o # t => pending'[o] = pending[o]
    BY <1>1
  <2> QED BY <1>1, <1>4, <1>5, <2>1, <2>2, <2>3 DEF CopyIsBehind
<1>6. CASE x # t /\ o = t
  <2>1. pending'[x] = pending[x] /\ pending[x].wanted[o] <= LeaseTerm
    BY <1>1, <1>6, OperationFields, EntryFacts
  <2> QED BY <1>1, <1>2, <1>6, <2>1 DEF CopyIsBehind, Copies
<1>7. CASE x # t /\ o # t
  <2>1. pending'[x] = pending[x] /\ pending'[o] = pending[o]
    BY <1>1, <1>7
  <2> QED BY <1>1, <1>2, <2>1 DEF CopyIsBehind, Copies
<1> QED BY <1>5, <1>6, <1>7

\* What an operation copies of another task's lease stays behind the table.
LEMMA BehindKept ==
  ASSUME LeaseInv, [LeaseNext]_leaseVars, NEW x \in LeaseTasks, NEW o \in LeaseTasks
  PROVE  CopyIsBehind(x, o)'
<1> USE DEF LeaseInv
<1>1. CopyIsBehind(x, o) /\ LeaseTypeOK
  OBVIOUS
<1>2. Loaded \in [LeaseTasks -> Entry] /\ LeaseTerm \in Entry /\ NoRow \in Entry
  BY LoadedCopies, EntryFacts
<1> HIDE DEF Loaded
<1>3. ASSUME NEW t \in LeaseTasks, NEW n \in Entry
      PROVE  LET w == [Loaded EXCEPT ![t] = n]
             IN  /\ w \in [LeaseTasks -> Entry] /\ w[t] = n
                 /\ \A y \in LeaseTasks \ {t} : w[y] = Loaded[y]
  BY <1>2
<1>4. CASE \E t \in LeaseTasks : StartLease(t)
  BY <1>2, <1>3, <1>4, StartKeepsBehind DEF StartLease
<1>5. CASE \E t \in LeaseTasks : StartHeartbeat(t)
  BY <1>2, <1>3, <1>5, StartKeepsBehind DEF StartHeartbeat
<1>6. CASE \E t \in LeaseTasks : StartRelease(t)
  BY <1>2, <1>3, <1>6, StartKeepsBehind DEF StartRelease
<1>7. CASE \E t \in LeaseTasks : StartReport(t)
  BY <1>2, <1>7, StartKeepsBehind DEF StartReport
<1>8. ASSUME pending'[x].kind = "idle" PROVE CopyIsBehind(x, o)'
  BY <1>8 DEF CopyIsBehind, Copies
<1>9. ASSUME NEW t \in LeaseTasks, pending' = Moved(t), pending'[x].kind # "idle"
      PROVE  /\ x # t /\ pending'[x].kind = pending[x].kind
             /\ pending'[x].seen = pending[x].seen /\ pending'[x].wanted = pending[x].wanted
             /\ pending'[x].moved
             /\ pending'[o].kind # "idle" => /\ o # t /\ pending'[o].kind = pending[o].kind
                                             /\ pending'[o].wanted = pending[o].wanted
  BY <1>9, MovedFields, IdleIsOperation
<1>10. ASSUME NEW t \in LeaseTasks, Commit(t) PROVE CopyIsBehind(x, o)'
  <2>1. CASE pending'[x].kind = "idle"
    BY <1>8, <2>1
  <2>2. CASE pending'[x].kind # "idle"
    <3>1. /\ x # t /\ pending'[x].kind = pending[x].kind
          /\ pending'[x].seen = pending[x].seen /\ pending'[x].wanted = pending[x].wanted
          /\ pending'[x].moved
          /\ pending'[o].kind # "idle" => /\ o # t /\ pending'[o].kind = pending[o].kind
                                          /\ pending'[o].wanted = pending[o].wanted
      BY <1>9, <1>10, <2>2 DEF Commit
    <3>2. ASSUME Copies(x, o), table'[o] # NoRow PROVE pending[x].wanted[o] <= table'[o]
      <4>1. CASE Copies(t, o)
        <5>1. table'[o] = table[o]
          BY <1>10, <3>2, <4>1, OthersSpared, CommitSpares
        <5> QED BY <1>1, <3>2, <5>1 DEF CopyIsBehind
      <4>2. CASE ~Copies(t, o)
        <5>1. /\ o = t /\ pending[t].kind \in {"lease", "heartbeat", "release"}
              /\ table'[t] = MergedLease(pending[t], t)
          BY <1>10, <4>2, CommitSpares
        <5>2. pending[t].kind \in {"lease", "heartbeat"} /\ table'[t] = pending[t].wanted[t]
          BY <3>2, <5>1, OwnMerged
        <5> QED BY <1>1, <3>2, <5>1, <5>2 DEF CopyIsBehind
      <4> QED BY <4>1, <4>2
    <3> QED BY <1>1, <3>1, <3>2 DEF CopyIsBehind, Copies
  <2> QED BY <2>1, <2>2
<1>11. ASSUME NEW t \in LeaseTasks, Again(t) PROVE CopyIsBehind(x, o)'
  BY <1>1, <1>11 DEF Again, CopyIsBehind, Copies
<1>12. ASSUME NEW t \in LeaseTasks, Vanishes(t) PROVE CopyIsBehind(x, o)'
  <2>1. /\ table' = table /\ pending'[t] = IdleStage
        /\ \A y \in LeaseTasks \ {t} : pending'[y] = pending[y]
    BY <1>12 DEF Vanishes, LeaseTypeOK
  <2>2. CASE x = t
    BY <1>8, <2>1, <2>2, IdleIsOperation
  <2>3. CASE x # t
    <3>1. pending'[x] = pending[x]
      BY <2>1, <2>3
    <3>2. pending'[o] = pending[o] \/ pending'[o].kind = "idle"
      BY <2>1, IdleIsOperation
    <3> QED BY <1>1, <2>1, <3>1, <3>2 DEF CopyIsBehind, Copies
  <2> QED BY <2>2, <2>3
<1>13. ASSUME NEW t \in LeaseTasks, Reclaims(t) PROVE CopyIsBehind(x, o)'
  <2>1. CASE pending'[x].kind = "idle"
    BY <1>8, <2>1
  <2>2. CASE pending'[x].kind # "idle"
    <3>1. /\ x # t /\ pending'[x].kind = pending[x].kind
          /\ pending'[x].seen = pending[x].seen /\ pending'[x].wanted = pending[x].wanted
          /\ pending'[x].moved
          /\ pending'[o].kind # "idle" => /\ o # t /\ pending'[o].kind = pending[o].kind
                                          /\ pending'[o].wanted = pending[o].wanted
      BY <1>9, <1>13, <2>2 DEF Reclaims
    <3>2. table'[o] = table[o] \/ table'[o] = NoRow
      BY <1>13 DEF Reclaims, LeaseTypeOK
    <3> QED BY <1>1, <3>1, <3>2 DEF CopyIsBehind, Copies
  <2> QED BY <2>1, <2>2
<1>14. CASE Ages
  <2>1. /\ table'[o] = TickOff(table[o])
        /\ pending'[x].kind = pending[x].kind /\ pending'[o].kind = pending[o].kind
        /\ pending'[x].seen[o] = TickOff(pending[x].seen[o])
        /\ pending'[x].wanted[o] = TickOff(pending[x].wanted[o])
        /\ pending'[o].wanted[o] = TickOff(pending[o].wanted[o])
        /\ pending'[x].moved = pending[x].moved
    BY <1>14, AgedFields
  <2>2. /\ table[o] \in Entry /\ pending[x].seen[o] \in Entry
        /\ pending[x].wanted[o] \in Entry /\ pending[o].wanted[o] \in Entry
    BY OperationFields
  <2>3. ASSUME Copies(x, o)
        PROVE  /\ pending[x].wanted[o] = pending[x].seen[o]
               /\ table[o] # NoRow => pending[x].wanted[o] <= table[o]
               /\ table[o] = NoRow /\ pending[x].seen[o] # NoRow => pending[x].moved
               /\ pending[o].kind \in {"lease", "heartbeat"} => pending[x].wanted[o] <= pending[o].wanted[o]
    BY <1>1, <2>3 DEF CopyIsBehind
  <2>4. Copies(x, o)' <=> Copies(x, o)
    BY <2>1 DEF Copies
  <2>5. ASSUME Copies(x, o)
        PROVE  /\ TickOff(pending[x].wanted[o]) = TickOff(pending[x].seen[o])
               /\ TickOff(table[o]) # NoRow => TickOff(pending[x].wanted[o]) <= TickOff(table[o])
               /\ TickOff(table[o]) = NoRow => table[o] = NoRow
               /\ TickOff(pending[x].seen[o]) # NoRow => pending[x].seen[o] # NoRow
               /\ pending[o].kind \in {"lease", "heartbeat"} =>
                    TickOff(pending[x].wanted[o]) <= TickOff(pending[o].wanted[o])
    BY <2>2, <2>3, <2>5, TickFacts
  <2> QED BY <2>1, <2>3, <2>4, <2>5 DEF CopyIsBehind
<1>15. CASE UNCHANGED leaseVars
  BY <1>1, <1>15 DEF leaseVars, CopyIsBehind, Copies
<1> QED BY <1>4, <1>5, <1>6, <1>7, <1>10, <1>11, <1>12, <1>13, <1>14, <1>15 DEF LeaseNext

LEMMA InvInit == LeaseInit => LeaseInv
<1> SUFFICES ASSUME LeaseInit PROVE LeaseInv
  OBVIOUS
<1>1. \A t \in LeaseTasks : table[t] = NoRow /\ stage[t] = "new" /\ pending[t] = IdleStage
  BY DEF LeaseInit, NoCopy
<1>2. LeaseTypeOK
  BY IdleIsOperation, MaxVanishedAssumption DEF LeaseInit, LeaseTypeOK, Stages
<1>3. WorkingHoldsLease /\ NothingHeld
  BY <1>1 DEF WorkingHoldsLease, NothingHeld
<1>4. \A t \in LeaseTasks : pending[t].kind = "idle"
  BY <1>1, IdleIsOperation
<1> QED BY <1>2, <1>3, <1>4 DEF LeaseInv, OwnCopy, CopyIsBehind, Copies

LEMMA InvKept == LeaseInv /\ [LeaseNext]_leaseVars => LeaseInv'
<1> SUFFICES ASSUME LeaseInv, [LeaseNext]_leaseVars PROVE LeaseInv'
  OBVIOUS
<1>1. LeaseTypeOK'
  BY TypeKept
<1>2. WorkingHoldsLease' /\ NothingHeld'
  BY HeldKept
<1>3. \A t \in LeaseTasks : OwnCopy(t)'
  BY OwnKept
<1>4. \A t, o \in LeaseTasks : CopyIsBehind(t, o)'
  BY BehindKept
<1> QED BY <1>1, <1>2, <1>3, <1>4 DEF LeaseInv

LEMMA InvAlways == LeaseSpec => []LeaseInv
  BY InvInit, InvKept, PTL DEF LeaseSpec

\* Every variable has its type (FreeProxyPool's rows, for any number of processes).
THEOREM LeaseTypes == LeaseSpec => []LeaseTypeOK
<1>1. LeaseInv => LeaseTypeOK
  BY DEF LeaseInv
<1> QED BY <1>1, InvAlways, PTL

\* Whatever copies other processes write back through _save, a working task keeps its lease.
THEOREM LeaseIsNeverLost == LeaseSpec => []WorkingHoldsLease
<1>1. LeaseInv => WorkingHoldsLease
  BY DEF LeaseInv
<1> QED BY <1>1, InvAlways, PTL

\* Whatever copies other processes write back through _save, a released lease stays released.
THEOREM LeaseIsNeverRevived == LeaseSpec => []ReleasedStaysReleased
<1>1. LeaseInv => ReleasedStaysReleased
  BY DEF LeaseInv, NothingHeld, ReleasedStaysReleased
<1> QED BY <1>1, InvAlways, PTL

-------------------------------------------------------------------------------
\* The refinement.  A function that changes at one point is an EXCEPT.
LEMMA OneChanges ==
  ASSUME NEW S, NEW f, NEW g, f = [x \in S |-> f[x]], g = [x \in S |-> g[x]],
         NEW t \in S, NEW v, g[t] = v, \A o \in S \ {t} : g[o] = f[o]
  PROVE  g = [f EXCEPT ![t] = v]
  OBVIOUS

LEMMA NoneChange ==
  ASSUME NEW S, NEW f, NEW g, f = [x \in S |-> f[x]], g = [x \in S |-> g[x]],
         \A o \in S : g[o] = f[o]
  PROVE  g = f
  OBVIOUS

\* The refinement mapping, point by point.
LEMMA Mapping ==
  /\ Believing = [t \in LeaseTasks |-> Believing[t]] /\ TicksLeft = [t \in LeaseTasks |-> TicksLeft[t]]
  /\ \A t \in LeaseTasks : /\ Believing[t] = (stage[t] = "working")
                           /\ TicksLeft[t] = IF table[t] = NoRow THEN 0 ELSE table[t]
  BY DEF Believing, TicksLeft

LEMMA MappingPrime ==
  /\ Believing' = [t \in LeaseTasks |-> Believing'[t]] /\ TicksLeft' = [t \in LeaseTasks |-> TicksLeft'[t]]
  /\ \A t \in LeaseTasks : /\ Believing'[t] = (stage'[t] = "working")
                           /\ TicksLeft'[t] = IF table'[t] = NoRow THEN 0 ELSE table'[t]
  BY DEF Believing, TicksLeft

LEMMA InitImplements == LeaseInit => Promise!TableInit
<1> SUFFICES ASSUME LeaseInit PROVE Promise!TableInit
  OBVIOUS
<1>1. \A t \in LeaseTasks : table[t] = NoRow /\ stage[t] = "new"
  BY DEF LeaseInit, NoCopy
<1>2. Believing = [t \in LeaseTasks |-> FALSE]
  BY <1>1 DEF Believing
<1>3. TicksLeft = [t \in LeaseTasks |-> 0]
  BY <1>1 DEF TicksLeft
<1> QED BY <1>2, <1>3 DEF Promise!TableInit

\* A step that changes nobody's stage or ticks is a stutter of the table.
LEMMA StutterImplements ==
  ASSUME \A o \in LeaseTasks : stage'[o] = "working" <=> stage[o] = "working",
         \A o \in LeaseTasks : TicksLeft'[o] = TicksLeft[o]
  PROVE  UNCHANGED Promise!tableVars
<1>1. \A o \in LeaseTasks : Believing'[o] = Believing[o]
  BY Mapping, MappingPrime
<1>2. Believing' = Believing
  BY <1>1, Mapping, MappingPrime, NoneChange
<1>3. TicksLeft' = TicksLeft
  BY Mapping, MappingPrime, NoneChange
<1> QED BY <1>2, <1>3 DEF Promise!tableVars

\* The commit of an operation is the table's operation, or a stutter.
LEMMA CommitImplements ==
  ASSUME LeaseInv, NEW t \in LeaseTasks, Commit(t)
  PROVE  Promise!TableNext \/ UNCHANGED Promise!tableVars
<1> USE DEF LeaseInv
<1>1. ASSUME NEW o \in LeaseTasks, Copies(t, o)
      PROVE  /\ TicksLeft'[o] = TicksLeft[o] /\ stage'[o] = stage[o]
  <2>1. table'[o] = table[o] \/ (table[o] = 0 /\ table'[o] = NoRow)
    BY <1>1, OthersSpared, CommitSpares
  <2>2. stage'[o] = stage[o]
    BY <1>1, CommitSpares DEF Copies, Commit, StageAfter, LeaseTypeOK
  <2> QED BY <2>1, <2>2, Mapping, MappingPrime
<1>2. \A o \in LeaseTasks \ {t} : Copies(t, o)
  BY DEF Copies, Commit
<1>3. \A o \in LeaseTasks \ {t} : Believing'[o] = Believing[o] /\ TicksLeft'[o] = TicksLeft[o]
  BY <1>1, <1>2, Mapping, MappingPrime
<1>4. CASE Copies(t, t)
  BY <1>1, <1>2, <1>4, StutterImplements
<1>5. CASE ~Copies(t, t)
  <2>1. /\ pending[t].kind \in {"lease", "heartbeat", "release"}
        /\ table'[t] = MergedLease(pending[t], t) /\ OwnCopy(t)
    BY <1>5, CommitSpares
  <2>2. stage'[t] = StageAfter(t)
    BY DEF Commit, LeaseTypeOK
  <2>3. /\ pending[t].wanted[t] \in Int /\ pending[t].wanted[t] <= LeaseTerm /\ LeaseTerm \in Int
        /\ table[t] \in Int /\ NoRow = 0 - 1
    BY OperationFields, EntryFacts
  <2>4. CASE pending[t].kind = "lease"
    <3>1. table'[t] = pending[t].wanted[t] /\ pending[t].wanted[t] > 0
      BY <2>1, <2>4, OwnMerged DEF OwnCopy
    <3>2. TicksLeft'[t] \in 1..LeaseTerm
      BY <2>3, <3>1, MappingPrime
    <3>3. stage'[t] = "working" /\ stage[t] = "new"
      BY <2>1, <2>2, <2>4 DEF StageAfter, OwnCopy
    <3>4. Believing'[t] = TRUE /\ ~Believing[t]
      BY <3>3, Mapping, MappingPrime
    <3>5. Believing' = [Believing EXCEPT ![t] = TRUE]
      BY <1>3, <3>4, Mapping, MappingPrime, OneChanges
    <3>6. TicksLeft' = [TicksLeft EXCEPT ![t] = TicksLeft'[t]]
      BY <1>3, Mapping, MappingPrime, OneChanges
    <3>7. Promise!Take(t)
      BY <3>2, <3>4, <3>5, <3>6 DEF Promise!Take
    <3> QED BY <3>7 DEF Promise!TableNext
  <2>5. CASE pending[t].kind = "heartbeat"
    <3>1. table'[t] = pending[t].wanted[t] /\ pending[t].wanted[t] > 0 /\ table[t] <= pending[t].wanted[t]
      BY <2>1, <2>5, OwnMerged DEF OwnCopy
    <3>2. TicksLeft'[t] \in 1..LeaseTerm /\ TicksLeft'[t] >= TicksLeft[t]
      BY <2>3, <3>1, Mapping, MappingPrime
    <3>3. stage'[t] = "working" /\ stage[t] = "working"
      BY <2>1, <2>2, <2>5 DEF StageAfter, OwnCopy
    <3>4. Believing'[t] = Believing[t] /\ Believing[t]
      BY <3>3, Mapping, MappingPrime
    <3>5. \A o \in LeaseTasks : Believing'[o] = Believing[o]
      BY <1>3, <3>4
    <3>8. Believing' = Believing
      BY <3>5, Mapping, MappingPrime, NoneChange
    <3>6. TicksLeft' = [TicksLeft EXCEPT ![t] = TicksLeft'[t]]
      BY <1>3, Mapping, MappingPrime, OneChanges
    <3>7. Promise!Keep(t)
      BY <3>2, <3>4, <3>6, <3>8 DEF Promise!Keep
    <3> QED BY <3>7 DEF Promise!TableNext
  <2>6. CASE pending[t].kind = "release"
    <3>1. table'[t] = NoRow
      BY <2>1, <2>6, OwnMerged
    <3>2. TicksLeft'[t] = 0
      BY <3>1, MappingPrime
    <3>3. stage'[t] = "done" /\ stage[t] = "working"
      BY <2>1, <2>2, <2>6 DEF StageAfter, OwnCopy
    <3>4. Believing'[t] = FALSE /\ Believing[t]
      BY <3>3, Mapping, MappingPrime
    <3>5. Believing' = [Believing EXCEPT ![t] = FALSE]
      BY <1>3, <3>4, Mapping, MappingPrime, OneChanges
    <3>6. TicksLeft' = [TicksLeft EXCEPT ![t] = 0]
      BY <1>3, <3>2, Mapping, MappingPrime, OneChanges
    <3>7. Promise!Give(t)
      BY <3>4, <3>5, <3>6 DEF Promise!Give
    <3> QED BY <3>7 DEF Promise!TableNext
  <2> QED BY <2>1, <2>4, <2>5, <2>6
<1> QED BY <1>4, <1>5

LEMMA StepImplements ==
  LeaseInv /\ [LeaseNext]_leaseVars => [Promise!TableNext]_(Promise!tableVars)
<1> SUFFICES ASSUME LeaseInv, [LeaseNext]_leaseVars
             PROVE  Promise!TableNext \/ UNCHANGED Promise!tableVars
  OBVIOUS
<1> USE DEF LeaseInv
<1>1. ASSUME table' = table, \A o \in LeaseTasks : stage'[o] = "working" <=> stage[o] = "working"
      PROVE  UNCHANGED Promise!tableVars
  BY <1>1, StutterImplements, Mapping, MappingPrime
<1>2. ASSUME NEW t \in LeaseTasks, StartLease(t) \/ StartHeartbeat(t) \/ StartRelease(t) \/ StartReport(t)
      PROVE  UNCHANGED Promise!tableVars
  BY <1>1, <1>2 DEF StartLease, StartHeartbeat, StartRelease, StartReport, Start
<1>3. ASSUME NEW t \in LeaseTasks, Again(t) PROVE UNCHANGED Promise!tableVars
  BY <1>1, <1>3 DEF Again, LeaseTypeOK
<1>4. ASSUME NEW t \in LeaseTasks, Vanishes(t) PROVE Promise!TableNext \/ UNCHANGED Promise!tableVars
  <2>1. table' = table /\ stage'[t] = "dead" /\ \A o \in LeaseTasks \ {t} : stage'[o] = stage[o]
    BY <1>4 DEF Vanishes, LeaseTypeOK
  <2>2. CASE stage[t] = "working"
    <3>1. Believing[t] /\ Believing'[t] = FALSE /\ \A o \in LeaseTasks \ {t} : Believing'[o] = Believing[o]
      BY <2>1, <2>2, Mapping, MappingPrime
    <3>2. Believing' = [Believing EXCEPT ![t] = FALSE]
      BY <3>1, Mapping, MappingPrime, OneChanges
    <3>3. \A o \in LeaseTasks : TicksLeft'[o] = TicksLeft[o]
      BY <2>1, Mapping, MappingPrime
    <3>4. TicksLeft' = TicksLeft
      BY <3>3, Mapping, MappingPrime, NoneChange
    <3>5. Promise!Vanish(t)
      BY <3>1, <3>2, <3>4 DEF Promise!Vanish
    <3> QED BY <3>5 DEF Promise!TableNext
  <2>3. CASE stage[t] # "working"
    BY <1>1, <2>1, <2>3
  <2> QED BY <2>2, <2>3
<1>5. ASSUME NEW t \in LeaseTasks, Reclaims(t) PROVE Promise!TableNext
  <2>1. /\ stage' = stage /\ table'[t] = NoRow /\ stage[t] = "dead"
        /\ \A o \in LeaseTasks \ {t} : table'[o] = table[o]
    BY <1>5 DEF Reclaims, LeaseTypeOK
  <2>2. ~Believing[t] /\ \A o \in LeaseTasks : Believing'[o] = Believing[o]
    BY <2>1, Mapping, MappingPrime
  <2>3. Believing' = Believing
    BY <2>2, Mapping, MappingPrime, NoneChange
  <2>4. TicksLeft'[t] = 0 /\ \A o \in LeaseTasks \ {t} : TicksLeft'[o] = TicksLeft[o]
    BY <2>1, Mapping, MappingPrime
  <2>5. TicksLeft' = [TicksLeft EXCEPT ![t] = 0]
    BY <2>4, Mapping, MappingPrime, OneChanges
  <2>6. Promise!Reclaim(t)
    BY <2>2, <2>3, <2>5 DEF Promise!Reclaim
  <2> QED BY <2>6 DEF Promise!TableNext
<1>6. CASE Ages
  <2>1. stage' = stage /\ \A o \in LeaseTasks : table'[o] = TickOff(table[o])
    BY <1>6, AgedFields DEF Ages
  <2>2. ASSUME NEW o \in LeaseTasks
        PROVE  TicksLeft'[o] = IF TicksLeft[o] = 0 THEN 0 ELSE TicksLeft[o] - 1
    <3>1. table[o] \in Int /\ NoRow = 0 - 1 /\ table[o] >= NoRow
      BY OperationFields, EntryFacts
    <3> QED BY <2>1, <3>1, Mapping, MappingPrime DEF TickOff, OneLess, Greater
  <2>3. \A o \in LeaseTasks : Believing'[o] = Believing[o]
    BY <2>1, Mapping, MappingPrime
  <2>4. Believing' = Believing
    BY <2>3, Mapping, MappingPrime, NoneChange
  <2>5. TicksLeft' = [t \in LeaseTasks |-> IF TicksLeft[t] = 0 THEN 0 ELSE TicksLeft[t] - 1]
    BY <2>2, MappingPrime
  <2>6. ASSUME NEW t \in LeaseTasks, Believing[t] PROVE TicksLeft[t] # 1
    <3>1. stage[t] = "working"
      BY <2>6, Mapping
    <3>2. table[t] # 1
      BY <1>6, <3>1 DEF Ages, Prompt
    <3>3. TicksLeft[t] = IF table[t] = NoRow THEN 0 ELSE table[t]
      BY Mapping
    <3> QED BY <3>2, <3>3
  <2>7. Promise!Age
    BY <2>4, <2>5, <2>6 DEF Promise!Age
  <2> QED BY <2>7 DEF Promise!TableNext
<1>7. CASE UNCHANGED leaseVars
  BY <1>1, <1>7 DEF leaseVars
<1> QED BY <1>2, <1>3, <1>4, <1>5, <1>6, <1>7, CommitImplements DEF LeaseNext

\* The store, whose operations load, edit and save a copy, implements the table
\* of leases, whose operations are one step (SQLiteFreeProxyPool._save).
THEOREM StoreImplementsTable == LeaseSpec => LeasesAreATable
<1>1. LeaseSpec => []LeaseInv
  BY InvAlways
<1> QED BY <1>1, InitImplements, StepImplements, PTL DEF LeaseSpec, LeasesAreATable, Promise!TableSpec

--------------------------------------------------------------------------------
(***************************************************************************)
(* The refills.  Only the holder of the maintenance lock mints, so while a *)
(* pass runs the tunnels that are not burned and the ones it may still     *)
(* mint never exceed the bound; what the other tasks do meanwhile (burn,   *)
(* probe, report) adds no row.                                             *)
(***************************************************************************)

LiveTunnels == TunnelRows \ BurnedTunnels
Gone == {"unminted", "removed"}

\* The types, and that only the holder of the maintenance lock mints.
RefillTypes ==
    /\ exits \in [Exits -> ExitRow] /\ attempt \in [ProxyTasks -> Job]
    /\ minter \in ProxyTasks \cup {NoTask}
    /\ \A t \in ProxyTasks : minter = t <=> attempt[t].step = "minting"

\* Twice the target, or what the pool started with.
Ceiling == Greater(2 * PoolTarget, Cardinality(FirstExits \ ManualExits))

\* A pass still may mint as many as there is room for, and replaces burned exits only.
RefillFits ==
    /\ Cardinality(LiveTunnels) <= Ceiling
    /\ \A t \in ProxyTasks : attempt[t].step = "minting" =>
          /\ Cardinality(LiveTunnels) + attempt[t].left <= Ceiling
          /\ attempt[t].spent \subseteq BurnedTunnels

RefillInv == RefillTypes /\ RefillFits

\* What a step shall keep.
BurnKept(e) == exits[e].status = "burned" => exits'[e].status \in {"burned", "removed"}
PoolKept ==
    /\ \A e \in Exits : RemovesOnlyBurned(e) /\ BurnKept(e)
    /\ Cardinality(Listed') >= Cardinality(Listed)
    /\ Cardinality(LiveTunnels') <= Ceiling

LEMMA CeilingFacts == Ceiling \in Nat /\ Ceiling >= 2 * PoolTarget /\ Ceiling >= Cardinality(FirstExits \ ManualExits)
<1>1. Cardinality(FirstExits \ ManualExits) \in Nat
  BY ExitAssumption, FS_Subset, FS_CardinalityType
<1> QED BY <1>1, ExitAssumption DEF Ceiling, Greater

LEMMA ListedFacts ==
  ASSUME RefillTypes
  PROVE  /\ Listed \subseteq Exits /\ LiveTunnels \subseteq Exits /\ BurnedTunnels \subseteq Exits
         /\ IsFiniteSet(Listed) /\ IsFiniteSet(LiveTunnels)
         /\ Cardinality(Listed) \in Nat /\ Cardinality(LiveTunnels) \in Nat
         /\ \A e \in Exits : /\ e \in Listed <=> exits[e].status \notin Gone
                             /\ e \in LiveTunnels <=> /\ e \in Listed /\ e \notin ManualExits
                                                      /\ exits[e].status # "burned"
                             /\ e \in BurnedTunnels <=> /\ e \in Listed /\ e \notin ManualExits
                                                        /\ exits[e].status = "burned"
<1>1. Listed \subseteq Exits /\ LiveTunnels \subseteq Exits /\ BurnedTunnels \subseteq Exits
  BY DEF Listed, LiveTunnels, TunnelRows, BurnedTunnels
<1>2. IsFiniteSet(Listed) /\ IsFiniteSet(LiveTunnels)
  BY <1>1, ExitAssumption, FS_Subset
<1>3. Cardinality(Listed) \in Nat /\ Cardinality(LiveTunnels) \in Nat
  BY <1>2, FS_CardinalityType
<1>4. \A e \in Exits : /\ e \in Listed <=> exits[e].status \notin Gone
                       /\ e \in LiveTunnels <=> /\ e \in Listed /\ e \notin ManualExits
                                                /\ exits[e].status # "burned"
                       /\ e \in BurnedTunnels <=> /\ e \in Listed /\ e \notin ManualExits
                                                  /\ exits[e].status = "burned"
  BY DEF Listed, LiveTunnels, TunnelRows, BurnedTunnels, Gone
<1> QED BY <1>1, <1>2, <1>3, <1>4

\* The health operations, time and burns: who is listed stays so, and a burn is for good.
RowsKept ==
    \A e \in Exits : \/ exits'[e].status = exits[e].status
                     \/ exits[e].status \notin Gone \cup {"burned"} /\ exits'[e].status \notin Gone
                     \/ exits[e].status \notin Gone /\ exits'[e].status = "burned"

LEMMA KeptRows ==
  ASSUME RefillTypes, RefillTypes', RowsKept
  PROVE  /\ Listed' = Listed /\ LiveTunnels' \subseteq LiveTunnels /\ BurnedTunnels \subseteq BurnedTunnels'
         /\ Cardinality(Listed') >= Cardinality(Listed) /\ Cardinality(LiveTunnels') <= Cardinality(LiveTunnels)
         /\ Cardinality(LiveTunnels) \in Nat /\ Cardinality(LiveTunnels') \in Nat
         /\ \A e \in Exits : RemovesOnlyBurned(e) /\ BurnKept(e)
<1>1. Listed' = Listed
  BY DEF RowsKept, Listed, Gone
<1>2. LiveTunnels' \subseteq LiveTunnels /\ BurnedTunnels \subseteq BurnedTunnels'
  BY <1>1 DEF RowsKept, LiveTunnels, TunnelRows, BurnedTunnels, Gone, Listed
<1>3. /\ Cardinality(Listed') >= Cardinality(Listed) /\ Cardinality(LiveTunnels') <= Cardinality(LiveTunnels)
      /\ Cardinality(LiveTunnels) \in Nat /\ Cardinality(LiveTunnels') \in Nat
  BY <1>1, <1>2, ListedFacts, FS_Subset, FS_CardinalityType
<1>4. \A e \in Exits : RemovesOnlyBurned(e) /\ BurnKept(e)
  BY DEF RowsKept, RemovesOnlyBurned, BurnKept, Listed, Gone
<1> QED BY <1>1, <1>2, <1>3, <1>4

\* A step of a task that neither begins nor ends a pass nor mints.
LEMMA TaskKeeps ==
  ASSUME RefillInv, NEW t \in ProxyTasks, NEW j \in Job, attempt' = [attempt EXCEPT ![t] = j],
         attempt[t].step # "minting", j.step # "minting", minter' = minter,
         exits' \in [Exits -> ExitRow], RowsKept
  PROVE  RefillInv' /\ PoolKept
<1>1. /\ attempt' \in [ProxyTasks -> Job] /\ minter \in ProxyTasks \cup {NoTask}
      /\ \A u \in ProxyTasks : minter = u <=> attempt[u].step = "minting"
      /\ \A u \in ProxyTasks : attempt'[u].step = "minting" => u # t /\ attempt'[u] = attempt[u]
      /\ \A u \in ProxyTasks : attempt[u].step = "minting" => u # t /\ attempt'[u] = attempt[u]
  BY DEF RefillInv, RefillTypes
<1>2. RefillTypes'
  BY <1>1 DEF RefillTypes
<1>3. RefillTypes /\ RefillFits
  BY DEF RefillInv
<1>4. /\ BurnedTunnels \subseteq BurnedTunnels' /\ Cardinality(LiveTunnels') <= Cardinality(LiveTunnels)
      /\ Cardinality(Listed') >= Cardinality(Listed) /\ \A e \in Exits : RemovesOnlyBurned(e) /\ BurnKept(e)
      /\ Cardinality(LiveTunnels) \in Nat /\ Cardinality(LiveTunnels') \in Nat
  BY <1>2, <1>3, KeptRows
<1>6. \A u \in ProxyTasks : attempt[u].left \in Nat
  BY <1>3, ExitAssumption DEF RefillTypes, Job
<1>7. RefillFits'
  BY <1>1, <1>3, <1>4, <1>6, CeilingFacts DEF RefillFits
<1> QED BY <1>2, <1>3, <1>4, <1>7, CeilingFacts DEF RefillInv, RefillFits, PoolKept

\* A row of the pool is reported on.
LEMMA ReportKeeps ==
  ASSUME RefillTypes, NEW e, NEW row, Reported(e, row),
         e \in Listed => /\ row \in ExitRow /\ row.status \notin Gone
                         /\ exits[e].status = "burned" => row.status = "burned"
  PROVE  exits' \in [Exits -> ExitRow] /\ RowsKept
<1>1. CASE e \in Listed
  <2>1. e \in Exits /\ exits[e].status \notin Gone /\ exits' = [exits EXCEPT ![e] = row]
    BY <1>1 DEF Listed, Reported, Gone
  <2> QED BY <1>1, <2>1 DEF RefillTypes, RowsKept
<1>2. CASE e \notin Listed
  BY <1>2 DEF Reported, RefillTypes, RowsKept
<1> QED BY <1>1, <1>2

\* The rows that the reports write.
LEMMA ReportRows ==
  ASSUME RefillTypes, NEW e \in Exits
  PROVE  /\ SuccessRow(exits[e]) \in ExitRow /\ SuccessRow(exits[e]).status = "available"
         /\ FailedRow(exits[e]) \in ExitRow /\ FailedRow(exits[e]).status \in {exits[e].status, "quarantined"}
         /\ BurnedRow(exits[e]) \in ExitRow /\ BurnedRow(exits[e]).status = "burned"
<1>1. /\ exits[e] \in ExitRow /\ 0 \in 0..FailureLimit /\ {"available", "burned", "quarantined"} \subseteq Statuses
      /\ exits[e].status \in Statuses /\ exits[e].expired \in BOOLEAN /\ exits[e].failures \in 0..FailureLimit
  BY ExitAssumption DEF RefillTypes, ExitRow, Statuses
<1>2. SuccessRow(exits[e]) \in ExitRow /\ SuccessRow(exits[e]).status = "available"
  <2>1. PICK s \in Statuses, n \in 0..FailureLimit, x \in BOOLEAN, p \in BOOLEAN :
           s = "available" /\ n = 0 /\ x = FALSE /\ p = TRUE
    BY <1>1
  <2>2. SuccessRow(exits[e]) = [exits[e] EXCEPT !.status = s, !.failures = n, !.expired = x, !.probed = p]
    BY <2>1 DEF SuccessRow
  <2>3. SuccessRow(exits[e]) \in ExitRow /\ SuccessRow(exits[e]).status = s
    BY <1>1, <2>2 DEF ExitRow
  <2> QED BY <2>1, <2>3
<1>3. BurnedRow(exits[e]) \in ExitRow /\ BurnedRow(exits[e]).status = "burned"
  <2>1. PICK s \in Statuses, n \in 0..FailureLimit, x \in BOOLEAN : s = "burned" /\ n = 0 /\ x = FALSE
    BY <1>1
  <2>2. BurnedRow(exits[e]) = [exits[e] EXCEPT !.status = s, !.failures = n, !.expired = x]
    BY <2>1 DEF BurnedRow
  <2>3. BurnedRow(exits[e]) \in ExitRow /\ BurnedRow(exits[e]).status = s
    BY <1>1, <2>2 DEF ExitRow
  <2> QED BY <2>1, <2>3
<1>4. FailedRow(exits[e]) \in ExitRow /\ FailedRow(exits[e]).status \in {exits[e].status, "quarantined"}
  <2> DEFINE n == Lesser(FailureLimit, exits[e].failures + 1)
             s == IF n >= FailureLimit THEN "quarantined" ELSE exits[e].status
             x == IF n >= FailureLimit THEN FALSE ELSE exits[e].expired
  <2>1. n \in 0..FailureLimit
    BY <1>1, ExitAssumption DEF Lesser
  <2>2. s \in {exits[e].status, "quarantined"} /\ s \in Statuses /\ x \in BOOLEAN
    BY <1>1
  <2>3. FailedRow(exits[e]) = [exits[e] EXCEPT !.failures = n, !.probed = FALSE, !.status = s, !.expired = x]
    BY DEF FailedRow
  <2> HIDE DEF n, s, x
  <2>4. FailedRow(exits[e]) \in ExitRow /\ FailedRow(exits[e]).status = s
    BY <1>1, <2>1, <2>2, <2>3 DEF ExitRow
  <2> QED BY <2>2, <2>4
<1> QED BY <1>2, <1>3, <1>4

LEMMA JobFields ==
  ASSUME NEW j \in Job
  PROVE  /\ j.step \in JobSteps /\ j.exit \in Exits \cup {NoExit} /\ j.retried \in BOOLEAN
         /\ j.todo \subseteq Exits /\ j.left \in 0..2 * PoolTarget /\ j.left \in Nat /\ j.spent \subseteq Exits
  BY ExitAssumption DEF Job

LEMMA NewJobs ==
  ASSUME NEW s \in JobSteps, NEW e \in Exits \cup {NoExit}, NEW b \in BOOLEAN
  PROVE  /\ [NoJob EXCEPT !.step = s, !.exit = e] \in Job /\ [NoJob EXCEPT !.step = s, !.exit = e].step = s
         /\ [NoJob EXCEPT !.step = s, !.retried = b] \in Job /\ [NoJob EXCEPT !.step = s, !.retried = b].step = s
         /\ [NoJob EXCEPT !.step = s] \in Job /\ [NoJob EXCEPT !.step = s].step = s
<1>1. NoJob \in Job /\ NoJob.step = "idle"
  BY ExitAssumption DEF NoJob, Job, JobSteps
<1> QED BY <1>1 DEF Job

LEMMA RetriedJob ==
  ASSUME NEW b \in BOOLEAN
  PROVE  [NoJob EXCEPT !.retried = b] \in Job /\ [NoJob EXCEPT !.retried = b].step = "idle"
<1>1. NoJob \in Job /\ NoJob.step = "idle"
  BY ExitAssumption DEF NoJob, Job, JobSteps
<1> QED BY <1>1 DEF Job

LEMMA AfterRefillJob == ASSUME NEW j PROVE AfterRefill(j) \in Job /\ AfterRefill(j).step # "minting"
<1>1. CASE j.retried
  <2>1. PICK b \in BOOLEAN : AfterRefill(j) = [NoJob EXCEPT !.retried = b]
    BY <1>1 DEF AfterRefill
  <2> QED BY <2>1, RetriedJob
<1>2. CASE ~j.retried
  <2>1. AfterRefill(j) = [NoJob EXCEPT !.step = "ended"] /\ "ended" \in JobSteps
    BY <1>2 DEF AfterRefill, JobSteps
  <2> QED BY <2>1, NewJobs
<1> QED BY <1>1, <1>2

LEMMA NextJobs ==
  ASSUME NEW j \in Job, NEW s \in JobSteps
  PROVE  [j EXCEPT !.step = s] \in Job /\ [j EXCEPT !.step = s].step = s
  BY DEF Job

LEMMA TypesOf == ASSUME RefillInv, NEW t \in ProxyTasks PROVE RefillTypes /\ attempt[t] \in Job
  BY DEF RefillInv, RefillTypes

LEMMA SameRows == ASSUME RefillTypes, UNCHANGED exits PROVE exits' \in [Exits -> ExitRow] /\ RowsKept
  BY DEF RefillTypes, RowsKept

\* A task goes on, and leaves the rows.
LEMMA TaskGoesOn ==
  ASSUME RefillInv, NEW t \in ProxyTasks, NEW j \in Job, SetJob(t, j), attempt[t].step # "minting",
         j.step # "minting", UNCHANGED <<exits, minter>>
  PROVE  RefillInv' /\ PoolKept
<1>1. exits' \in [Exits -> ExitRow] /\ RowsKept /\ minter' = minter /\ attempt' = [attempt EXCEPT ![t] = j]
  BY TypesOf, SameRows DEF SetJob
<1> QED BY <1>1, TaskKeeps

\* A task reports on a row, and goes on.
LEMMA TaskReports ==
  ASSUME RefillInv, NEW t \in ProxyTasks, NEW j \in Job, SetJob(t, j), attempt[t].step # "minting",
         j.step # "minting", minter' = minter, NEW e, NEW row, Reported(e, row),
         e \in Listed => /\ row \in ExitRow /\ row.status \notin Gone
                         /\ exits[e].status = "burned" => row.status = "burned"
  PROVE  RefillInv' /\ PoolKept
<1>1. exits' \in [Exits -> ExitRow] /\ RowsKept /\ attempt' = [attempt EXCEPT ![t] = j]
  BY TypesOf, ReportKeeps DEF SetJob
<1> QED BY <1>1, TaskKeeps

LEMMA ReportsFit ==
  ASSUME RefillTypes, NEW e, e \in Listed
  PROVE  /\ SuccessRow(exits[e]) \in ExitRow /\ SuccessRow(exits[e]).status \notin Gone
         /\ FailedRow(exits[e]) \in ExitRow /\ FailedRow(exits[e]).status \notin Gone
         /\ BurnedRow(exits[e]) \in ExitRow /\ BurnedRow(exits[e]).status = "burned"
         /\ BurnedRow(exits[e]).status \notin Gone
<1>1. e \in Exits /\ exits[e].status \notin Gone
  BY DEF Listed, Gone
<1> QED BY <1>1, ReportRows DEF Gone

LEMMA BindSteps ==
  ASSUME RefillInv, NEW t \in ProxyTasks, BindRecent(t) \/ BindStale(t) \/ Probe(t) \/ ProbeSkipped(t)
                                          \/ NoteBurn(t) \/ BindEmpty(t) \/ WorkEnds(t)
  PROVE  RefillInv' /\ PoolKept
<1>0. attempt[t] \in Job /\ RefillTypes
  BY TypesOf
<1>1. CASE BindRecent(t)
  <2>1. PICK e \in Recent : SetJob(t, [NoJob EXCEPT !.step = "working", !.exit = e])
    BY <1>1 DEF BindRecent
  <2>2. e \in Exits \cup {NoExit} /\ "working" \in JobSteps
    BY DEF Recent, Dispatchable, Listed, JobSteps
  <2>3. attempt[t].step # "minting" /\ UNCHANGED <<exits, minter>>
    BY <1>1 DEF BindRecent
  <2> QED BY <2>1, <2>2, <2>3, NewJobs, TaskGoesOn
<1>2. CASE BindStale(t)
  <2> DEFINE j == [attempt[t] EXCEPT !.step = "reported", !.todo = Dispatchable]
  <2>1. Dispatchable \subseteq Exits
    BY DEF Dispatchable, Listed
  <2>2. j \in Job /\ j.step = "reported"
    BY <1>0, <2>1 DEF Job, JobSteps
  <2>3. SetJob(t, j) /\ attempt[t].step # "minting" /\ UNCHANGED <<exits, minter>>
    BY <1>2 DEF BindStale
  <2> HIDE DEF j
  <2> QED BY <2>2, <2>3, TaskGoesOn
<1>3. CASE Probe(t)
  <2>1. PICK e \in attempt[t].todo :
           SetJob(t, [attempt[t] EXCEPT !.step = "probing", !.exit = e, !.todo = attempt[t].todo \ {e}])
    BY <1>3 DEF Probe
  <2> DEFINE j == [attempt[t] EXCEPT !.step = "probing", !.exit = e, !.todo = attempt[t].todo \ {e}]
  <2>2. j \in Job /\ j.step = "probing"
    BY <1>0 DEF Job, JobSteps
  <2>3. SetJob(t, j) /\ attempt[t].step # "minting" /\ UNCHANGED <<exits, minter>>
    BY <1>3, <2>1 DEF Probe
  <2> HIDE DEF j
  <2> QED BY <2>2, <2>3, TaskGoesOn
<1>4. CASE ProbeSkipped(t) \/ NoteBurn(t)
  <2>1. "reported" \in JobSteps
    BY DEF JobSteps
  <2>2. SetJob(t, [attempt[t] EXCEPT !.step = "reported"]) /\ attempt[t].step # "minting" /\ UNCHANGED <<exits, minter>>
    BY <1>4 DEF ProbeSkipped, NoteBurn, Step
  <2> QED BY <1>0, <2>1, <2>2, NextJobs, TaskGoesOn
<1>5. CASE BindEmpty(t)
  <2>1. PICK s \in {"ended", "asking"}, b \in BOOLEAN : SetJob(t, [NoJob EXCEPT !.step = s, !.retried = b])
    BY <1>5 DEF BindEmpty
  <2>2. s \in JobSteps /\ s # "minting"
    BY DEF JobSteps
  <2> DEFINE j == [NoJob EXCEPT !.step = s, !.retried = b]
  <2>3. j \in Job /\ j.step = s
    BY <2>2, NewJobs
  <2>4. SetJob(t, j) /\ attempt[t].step # "minting" /\ UNCHANGED <<exits, minter>>
    BY <1>5, <2>1 DEF BindEmpty
  <2> HIDE DEF j
  <2> QED BY <2>2, <2>3, <2>4, TaskGoesOn
<1>6. CASE WorkEnds(t)
  <2>1. "ended" \in JobSteps
    BY DEF JobSteps
  <2>2. SetJob(t, [attempt[t] EXCEPT !.step = "ended"]) /\ attempt[t].step # "minting" /\ UNCHANGED <<exits, minter>>
    BY <1>6 DEF WorkEnds, Step
  <2> QED BY <1>0, <2>1, <2>2, NextJobs, TaskGoesOn
<1> QED BY <1>1, <1>2, <1>3, <1>4, <1>5, <1>6

LEMMA ReportSteps ==
  ASSUME ~LateReports, RefillInv, NEW t \in ProxyTasks,
         ProbePasses(t) \/ ProbeFails(t) \/ ProbeChallenged(t) \/ WorkFails(t) \/ WorkChallenged(t)
  PROVE  RefillInv' /\ PoolKept
<1>0. attempt[t] \in Job /\ RefillTypes /\ attempt[t].exit \in Exits \cup {NoExit}
      /\ attempt[t].step # "minting" /\ minter' = minter
  BY TypesOf, JobFields DEF ProbePasses, ProbeFails, ProbeChallenged, WorkFails, WorkChallenged
<1> DEFINE e == attempt[t].exit
<1>1. CASE ProbePasses(t)
  <2>1. PICK s \in {"working", "ended"} : SetJob(t, [NoJob EXCEPT !.step = s, !.exit = e])
    BY <1>1 DEF ProbePasses
  <2>2. s \in JobSteps /\ s # "minting"
    BY DEF JobSteps
  <2>3. Reported(e, SuccessRow(exits[e])) /\ exits[e].status # "burned"
    BY <1>1 DEF ProbePasses, InTime
  <2> HIDE DEF e
  <2>4. e \in Exits \cup {NoExit}
    BY <1>0 DEF e
  <2> DEFINE j == [NoJob EXCEPT !.step = s, !.exit = e]
  <2>5. j \in Job /\ j.step = s
    BY <2>2, <2>4, NewJobs
  <2> HIDE DEF j
  <2>6. SetJob(t, j)
    BY <2>1 DEF j
  <2> QED BY <1>0, <2>2, <2>3, <2>5, <2>6, ReportsFit, TaskReports
<1>2. CASE ProbeFails(t) \/ WorkFails(t)
  <2>1. PICK s \in {"reported", "ended"} : SetJob(t, [attempt[t] EXCEPT !.step = s])
    BY <1>2 DEF ProbeFails, WorkFails, Step
  <2>2. s \in JobSteps /\ s # "minting"
    BY DEF JobSteps
  <2>3. Reported(e, FailedRow(exits[e])) /\ exits[e].status # "burned"
    BY <1>2 DEF ProbeFails, WorkFails, InTime
  <2> HIDE DEF e
  <2> DEFINE j == [attempt[t] EXCEPT !.step = s]
  <2>5. j \in Job /\ j.step = s
    BY <1>0, <2>2, NextJobs
  <2> HIDE DEF j
  <2>6. SetJob(t, j)
    BY <2>1 DEF j
  <2> QED BY <1>0, <2>2, <2>3, <2>5, <2>6, ReportsFit, TaskReports
<1>3. CASE ProbeChallenged(t) \/ WorkChallenged(t)
  <2>1. PICK s \in {"challenged", "burnt"} : SetJob(t, [attempt[t] EXCEPT !.step = s])
    BY <1>3 DEF ProbeChallenged, WorkChallenged, Step
  <2>2. s \in JobSteps /\ s # "minting"
    BY DEF JobSteps
  <2>3. Reported(e, BurnedRow(exits[e]))
    BY <1>3 DEF ProbeChallenged, WorkChallenged
  <2> HIDE DEF e
  <2> DEFINE j == [attempt[t] EXCEPT !.step = s]
  <2>5. j \in Job /\ j.step = s
    BY <1>0, <2>2, NextJobs
  <2> HIDE DEF j
  <2>6. SetJob(t, j)
    BY <2>1 DEF j
  <2> QED BY <1>0, <2>2, <2>3, <2>5, <2>6, ReportsFit, TaskReports
<1> QED BY <1>1, <1>2, <1>3

LEMMA AskSteps ==
  ASSUME RefillInv, NEW t \in ProxyTasks, FeedBreaker(t) \/ AskBreaker(t)
  PROVE  RefillInv' /\ PoolKept
<1>0. attempt[t] \in Job /\ RefillTypes /\ attempt[t].exit \in Exits \cup {NoExit} /\ attempt[t].step # "minting"
      /\ UNCHANGED <<exits, minter>>
  BY TypesOf, JobFields DEF FeedBreaker, AskBreaker
<1>1. CASE FeedBreaker(t)
  <2>1. PICK s \in {"ended", "asking"} : SetJob(t, [NoJob EXCEPT !.step = s, !.exit = attempt[t].exit])
    BY <1>1 DEF FeedBreaker
  <2>2. s \in JobSteps /\ s # "minting"
    BY DEF JobSteps
  <2> QED BY <1>0, <2>1, <2>2, NewJobs, TaskGoesOn
<1>2. CASE AskBreaker(t)
  <2>1. CASE SetJob(t, AfterRefill(attempt[t]))
    <3> DEFINE j == AfterRefill(attempt[t])
    <3>1. j \in Job /\ j.step # "minting"
      BY AfterRefillJob
    <3> HIDE DEF j
    <3>2. SetJob(t, j)
      BY <2>1 DEF j
    <3> QED BY <1>0, <3>1, <3>2, TaskGoesOn
  <2>2. CASE SetJob(t, [attempt[t] EXCEPT !.step = "cleared"])
    <3>1. "cleared" \in JobSteps
      BY DEF JobSteps
    <3> QED BY <1>0, <2>2, <3>1, NextJobs, TaskGoesOn
  <2> QED BY <1>2, <2>1, <2>2 DEF AskBreaker, Step
<1> QED BY <1>1, <1>2

\* A pass begins: it may mint as many as there is room for.
LEMMA StartMintingStep ==
  ASSUME RefillInv, NEW t \in ProxyTasks, StartMinting(t)
  PROVE  RefillInv' /\ PoolKept
<1>0. /\ attempt[t] \in Job /\ RefillTypes /\ attempt[t].step = "cleared" /\ minter = NoTask /\ minter' = t
      /\ UNCHANGED exits /\ RefillFits
  BY TypesOf DEF StartMinting, MaintenanceFree, RefillInv
<1> DEFINE n == Lesser(Shortage, Room)
           j == [attempt[t] EXCEPT !.step = "minting", !.left = n, !.spent = BurnedTunnels]
<1>1. attempt' = [attempt EXCEPT ![t] = j]
  BY DEF StartMinting, SetJob
<1>2. /\ Cardinality(LiveTunnels) \in Nat /\ BurnedTunnels \subseteq Exits /\ Cardinality(Dispatchable) \in Nat
      /\ Cardinality(Listed) \in Nat
  <2>1. Dispatchable \subseteq Exits
    BY DEF Dispatchable, Listed
  <2> QED BY <1>0, <2>1, ListedFacts, ExitAssumption, FS_Subset, FS_CardinalityType
<1>3. n \in 0..2 * PoolTarget /\ n \in Nat /\ Cardinality(LiveTunnels) + n <= Ceiling
  <2>1. Cardinality(LiveTunnels) <= Ceiling
    BY <1>0 DEF RefillFits
  <2>2. Room = Greater(0, 2 * PoolTarget - Cardinality(LiveTunnels))
    BY DEF Room, LiveTunnels
  <2>3. Room \in 0..2 * PoolTarget /\ Cardinality(LiveTunnels) + Room <= Ceiling
    BY <1>2, <2>1, <2>2, CeilingFacts, ExitAssumption DEF Greater
  <2>4. Shortage \in Int /\ Shortage >= 0
    BY <1>2, ExitAssumption DEF Shortage, Greater
  <2> HIDE DEF n
  <2>5. n \in Int /\ n >= 0 /\ n <= Room
    BY <2>3, <2>4 DEF n, Lesser
  <2> QED BY <1>2, <2>3, <2>5, CeilingFacts, ExitAssumption
<1> HIDE DEF n
<1>4. j \in Job /\ j.step = "minting" /\ j.left = n /\ j.spent = BurnedTunnels
  BY <1>0, <1>2, <1>3 DEF Job, JobSteps
<1> HIDE DEF j
<1>5. \A u \in ProxyTasks : attempt'[u] = IF u = t THEN j ELSE attempt[u]
  BY <1>0, <1>1 DEF RefillTypes
<1>6. \A u \in ProxyTasks : attempt[u].step # "minting"
  BY <1>0, ExitAssumption DEF RefillTypes
<1>7. RefillTypes'
  <2>1. attempt' \in [ProxyTasks -> Job]
    BY <1>0, <1>1, <1>4 DEF RefillTypes
  <2>2. \A u \in ProxyTasks : minter' = u <=> attempt'[u].step = "minting"
    BY <1>0, <1>4, <1>5, <1>6
  <2> QED BY <1>0, <2>1, <2>2 DEF RefillTypes
<1>8. LiveTunnels' = LiveTunnels /\ BurnedTunnels' = BurnedTunnels /\ Listed' = Listed
  BY <1>0 DEF LiveTunnels, TunnelRows, BurnedTunnels, Listed
<1>9. RefillFits'
  <2>1. ASSUME NEW u \in ProxyTasks, attempt'[u].step = "minting"
        PROVE  /\ Cardinality(LiveTunnels') + attempt'[u].left <= Ceiling
               /\ attempt'[u].spent \subseteq BurnedTunnels'
    <3>1. u = t
      BY <1>5, <1>6, <2>1
    <3> QED BY <1>3, <1>4, <1>5, <1>8, <3>1
  <2> QED BY <1>0, <1>8, <2>1 DEF RefillFits
<1>10. RowsKept
  BY <1>0, SameRows
<1>11. PoolKept
  BY <1>0, <1>7, <1>9, <1>10, KeptRows DEF PoolKept, RefillFits
<1> QED BY <1>7, <1>9, <1>11 DEF RefillInv

\* A pass ends.
LEMMA StopMintingStep ==
  ASSUME RefillInv, NEW t \in ProxyTasks, StopMinting(t)
  PROVE  RefillInv' /\ PoolKept
<1> DEFINE j == AfterRefill(attempt[t])
<1>0. /\ attempt[t] \in Job /\ RefillTypes /\ attempt[t].step = "minting" /\ minter' = NoTask
      /\ UNCHANGED exits /\ RefillFits /\ attempt' = [attempt EXCEPT ![t] = j] /\ j \in Job /\ j.step # "minting"
  BY TypesOf, AfterRefillJob DEF StopMinting, RefillInv, SetJob
<1> HIDE DEF j
<1>1. minter = t /\ \A u \in ProxyTasks : attempt[u].step = "minting" => u = t
  BY <1>0 DEF RefillTypes
<1>2. \A u \in ProxyTasks : attempt'[u].step # "minting"
  BY <1>0, <1>1 DEF RefillTypes
<1>3. RefillTypes'
  BY <1>0, <1>2, ExitAssumption DEF RefillTypes
<1>4. LiveTunnels' = LiveTunnels
  BY <1>0 DEF LiveTunnels, TunnelRows, BurnedTunnels, Listed
<1>5. RefillFits'
  BY <1>0, <1>2, <1>4 DEF RefillFits
<1>6. RowsKept
  BY <1>0, SameRows
<1>7. PoolKept
  BY <1>0, <1>3, <1>5, <1>6, KeptRows DEF PoolKept, RefillFits
<1> QED BY <1>3, <1>5, <1>7 DEF RefillInv

\* One exit more, and perhaps a burned one less.
LEMMA MintStep ==
  ASSUME RefillInv, NEW t \in ProxyTasks, Mint(t)
  PROVE  RefillInv' /\ PoolKept
<1>0. /\ attempt[t] \in Job /\ RefillTypes /\ attempt[t].step = "minting" /\ minter' = minter
      /\ RefillFits /\ attempt[t].left > 0 /\ attempt[t].left \in Nat /\ attempt[t].left \in 0..2 * PoolTarget
      /\ attempt[t].spent \subseteq BurnedTunnels /\ attempt[t].spent \subseteq Exits
      /\ Cardinality(LiveTunnels) + attempt[t].left <= Ceiling
  BY TypesOf, JobFields DEF Mint, RefillInv, RefillFits
<1>1. minter = t /\ \A u \in ProxyTasks : attempt[u].step = "minting" => u = t
  BY <1>0 DEF RefillTypes
<1>2. PICK e \in Exits \ ManualExits :
        /\ exits[e].status = "unminted"
        /\ IF attempt[t].spent = {}
           THEN /\ SetRow(e, Minted(exits[e]))
                /\ SetJob(t, [attempt[t] EXCEPT !.left = attempt[t].left - 1])
           ELSE \E b \in attempt[t].spent :
                  /\ exits' = [exits EXCEPT ![e] = Minted(@), ![b] = Removed(@)]
                  /\ SetJob(t, [attempt[t] EXCEPT !.left = attempt[t].left - 1, !.spent = attempt[t].spent \ {b}])
  BY DEF Mint
<1>3. \A x \in Exits : /\ Minted(exits[x]) \in ExitRow /\ Minted(exits[x]).status = "unknown"
                       /\ Removed(exits[x]) \in ExitRow /\ Removed(exits[x]).status = "removed"
  BY <1>0 DEF Minted, Removed, RefillTypes, ExitRow, Statuses
\* What a mint comes to, with the set of exits it removes.
<1>4. \E gone \in SUBSET attempt[t].spent, j \in Job :
        /\ exits' \in [Exits -> ExitRow] /\ attempt' = [attempt EXCEPT ![t] = j]
        /\ j.step = "minting" /\ j.left = attempt[t].left - 1 /\ j.spent = attempt[t].spent \ gone
        /\ gone = {} \/ \E b \in gone : gone = {b}
        /\ \A x \in Exits : exits'[x].status = IF x = e THEN "unknown"
                                               ELSE IF x \in gone THEN "removed" ELSE exits[x].status
  <2>1. CASE attempt[t].spent = {}
    <3> DEFINE j == [attempt[t] EXCEPT !.left = attempt[t].left - 1]
    <3>1. exits' = [exits EXCEPT ![e] = Minted(exits[e])] /\ attempt' = [attempt EXCEPT ![t] = j]
      BY <1>2, <2>1 DEF SetRow, SetJob
    <3>2. j \in Job /\ j.step = "minting" /\ j.left = attempt[t].left - 1 /\ j.spent = attempt[t].spent \ {}
      <4>1. attempt[t].left - 1 \in 0..2 * PoolTarget
        BY <1>0, ExitAssumption
      <4> QED BY <1>0, <4>1 DEF Job
    <3> HIDE DEF j
    <3>3. exits' \in [Exits -> ExitRow]
          /\ \A x \in Exits : exits'[x].status = IF x = e THEN "unknown"
                                                 ELSE IF x \in {} THEN "removed" ELSE exits[x].status
      BY <1>0, <1>3, <3>1 DEF RefillTypes
    <3> DEFINE gone == {}
    <3>4. gone \in SUBSET attempt[t].spent /\ j.spent = attempt[t].spent \ gone /\ gone = {}
          /\ \A x \in Exits : exits'[x].status = IF x = e THEN "unknown"
                                                 ELSE IF x \in gone THEN "removed" ELSE exits[x].status
      BY <3>2, <3>3
    <3> HIDE DEF gone
    <3> QED BY <3>1, <3>2, <3>3, <3>4
  <2>2. CASE attempt[t].spent # {}
    <3>1. PICK b \in attempt[t].spent :
            /\ exits' = [exits EXCEPT ![e] = Minted(@), ![b] = Removed(@)]
            /\ SetJob(t, [attempt[t] EXCEPT !.left = attempt[t].left - 1, !.spent = attempt[t].spent \ {b}])
      BY <1>2, <2>2
    <3> DEFINE j == [attempt[t] EXCEPT !.left = attempt[t].left - 1, !.spent = attempt[t].spent \ {b}]
    <3>2. b \in Exits /\ exits[b].status = "burned" /\ b # e
      BY <1>0, <1>2, <3>1, ListedFacts
    <3>3. /\ exits' = [exits EXCEPT ![e] = Minted(exits[e]), ![b] = Removed(exits[b])]
          /\ attempt' = [attempt EXCEPT ![t] = j]
      BY <1>0, <3>1, <3>2 DEF SetJob, RefillTypes
    <3>4. j \in Job /\ j.step = "minting" /\ j.left = attempt[t].left - 1 /\ j.spent = attempt[t].spent \ {b}
      <4>1. attempt[t].left - 1 \in 0..2 * PoolTarget /\ attempt[t].spent \ {b} \in SUBSET Exits
        BY <1>0, ExitAssumption
      <4> QED BY <1>0, <4>1 DEF Job
    <3> HIDE DEF j
    <3>5. exits' \in [Exits -> ExitRow]
          /\ \A x \in Exits : exits'[x].status = IF x = e THEN "unknown"
                                                 ELSE IF x \in {b} THEN "removed" ELSE exits[x].status
      BY <1>0, <1>3, <3>2, <3>3 DEF RefillTypes
    <3>6. {b} \in SUBSET attempt[t].spent
      BY <3>1
    <3> DEFINE gone == {b}
    <3>7. gone \in SUBSET attempt[t].spent /\ j.spent = attempt[t].spent \ gone /\ b \in gone
          /\ \A x \in Exits : exits'[x].status = IF x = e THEN "unknown"
                                                 ELSE IF x \in gone THEN "removed" ELSE exits[x].status
      BY <3>4, <3>5, <3>6
    <3>8. \E y \in gone : gone = {y}
      BY <3>7
    <3> HIDE DEF gone
    <3> QED BY <3>3, <3>4, <3>5, <3>7, <3>8
  <2> QED BY <2>1, <2>2
<1>5. PICK gone \in SUBSET attempt[t].spent, j \in Job :
        /\ exits' \in [Exits -> ExitRow] /\ attempt' = [attempt EXCEPT ![t] = j]
        /\ j.step = "minting" /\ j.left = attempt[t].left - 1 /\ j.spent = attempt[t].spent \ gone
        /\ gone = {} \/ \E b \in gone : gone = {b}
        /\ \A x \in Exits : exits'[x].status = IF x = e THEN "unknown"
                                               ELSE IF x \in gone THEN "removed" ELSE exits[x].status
  BY <1>4
<1>6. \A u \in ProxyTasks : attempt'[u] = IF u = t THEN j ELSE attempt[u]
  BY <1>0, <1>5 DEF RefillTypes
<1>7. RefillTypes'
  <2>1. attempt' \in [ProxyTasks -> Job]
    BY <1>0, <1>5 DEF RefillTypes
  <2>2. \A u \in ProxyTasks : minter' = u <=> attempt'[u].step = "minting"
    BY <1>0, <1>1, <1>5, <1>6
  <2> QED BY <1>0, <1>5, <2>1, <2>2 DEF RefillTypes
<1>8. /\ \A x \in gone : x \in BurnedTunnels /\ x \in Exits /\ x \in Listed /\ exits[x].status = "burned"
                         /\ x \notin ManualExits /\ x # e
      /\ e \notin Listed /\ e \notin LiveTunnels /\ IsFiniteSet(LiveTunnels) /\ IsFiniteSet(Listed)
      /\ Cardinality(LiveTunnels) \in Nat /\ Cardinality(Listed) \in Nat
  BY <1>0, <1>2, ListedFacts DEF Gone
<1>9. Listed' = (Listed \ gone) \cup {e}
  <2>1. ASSUME NEW x PROVE x \in Listed' <=> x \in (Listed \ gone) \cup {e}
    <3>1. x \in Listed' <=> x \in Exits /\ exits'[x].status \notin Gone
      BY DEF Listed, Gone
    <3>2. x \in Listed <=> x \in Exits /\ exits[x].status \notin Gone
      BY DEF Listed, Gone
    <3> QED BY <1>2, <1>5, <1>8, <3>1, <3>2 DEF Gone
  <2> QED BY <2>1
<1>10. LiveTunnels' = LiveTunnels \cup {e} /\ (BurnedTunnels \ gone) \subseteq BurnedTunnels'
  <2>1. ASSUME NEW x PROVE x \in LiveTunnels' <=> x \in LiveTunnels \cup {e}
    <3>1. x \in LiveTunnels' <=> x \in Listed' /\ x \notin ManualExits /\ exits'[x].status # "burned"
      BY DEF LiveTunnels, TunnelRows, BurnedTunnels
    <3>2. x \in LiveTunnels <=> x \in Listed /\ x \notin ManualExits /\ exits[x].status # "burned"
      BY DEF LiveTunnels, TunnelRows, BurnedTunnels
    <3>3. x \in Listed => x \in Exits
      BY DEF Listed
    <3> QED BY <1>2, <1>5, <1>8, <1>9, <3>1, <3>2, <3>3
  <2>2. ASSUME NEW x \in BurnedTunnels \ gone PROVE x \in BurnedTunnels'
    <3>1. x \in Exits /\ x \in Listed /\ x \notin ManualExits /\ exits[x].status = "burned"
      BY DEF BurnedTunnels, TunnelRows, Listed
    <3>2. x # e /\ x \in Listed' /\ exits'[x].status = "burned"
      BY <1>5, <1>8, <1>9, <3>1
    <3> QED BY <3>1, <3>2 DEF BurnedTunnels, TunnelRows
  <2> QED BY <2>1, <2>2
<1>11. Cardinality(LiveTunnels') = Cardinality(LiveTunnels) + 1
  BY <1>8, <1>10, FS_AddElement
<1>12. Cardinality(Listed') >= Cardinality(Listed)
  <2>1. CASE gone = {}
    <3>1. Listed' = Listed \cup {e}
      BY <1>9, <2>1
    <3>2. Cardinality(Listed \cup {e}) = Cardinality(Listed) + 1
      BY <1>8, FS_AddElement
    <3> QED BY <1>8, <3>1, <3>2
  <2>2. ASSUME NEW b \in gone, gone = {b} PROVE Cardinality(Listed') >= Cardinality(Listed)
    <3>1. Listed' = (Listed \ {b}) \cup {e} /\ b \in Listed /\ e \notin Listed \ {b}
      BY <1>8, <1>9, <2>2
    <3>2. IsFiniteSet(Listed \ {b}) /\ Cardinality(Listed \ {b}) = Cardinality(Listed) - 1
      BY <1>8, <3>1, FS_RemoveElement
    <3>3. Cardinality((Listed \ {b}) \cup {e}) = Cardinality(Listed \ {b}) + 1
      BY <3>1, <3>2, FS_AddElement
    <3> QED BY <1>8, <3>1, <3>2, <3>3
  <2> QED BY <1>5, <2>1, <2>2
<1>13. RefillFits'
  <2>1. Cardinality(LiveTunnels') + (attempt[t].left - 1) <= Ceiling
        /\ Cardinality(LiveTunnels') <= Ceiling
    BY <1>0, <1>8, <1>11, CeilingFacts
  <2>2. ASSUME NEW u \in ProxyTasks, attempt'[u].step = "minting"
        PROVE  /\ Cardinality(LiveTunnels') + attempt'[u].left <= Ceiling
               /\ attempt'[u].spent \subseteq BurnedTunnels'
    <3>1. u = t /\ attempt'[u] = j
      BY <1>1, <1>6, <2>2
    <3> QED BY <1>0, <1>5, <1>10, <2>1, <3>1
  <2> QED BY <2>1, <2>2 DEF RefillFits
<1>14. PoolKept
  <2>1. ASSUME NEW x \in Exits PROVE RemovesOnlyBurned(x) /\ BurnKept(x)
    BY <1>2, <1>5, <1>8, <2>1 DEF RemovesOnlyBurned, BurnKept, Listed
  <2> QED BY <1>12, <1>13, <2>1 DEF PoolKept, RefillFits
<1> QED BY <1>7, <1>13, <1>14 DEF RefillInv

\* Time and the operator.
LEMMA OthersStep ==
  ASSUME RefillInv, UNCHANGED <<minter, attempt>>, exits' \in [Exits -> ExitRow], RowsKept
  PROVE  RefillInv' /\ PoolKept
<1>1. RefillTypes /\ RefillFits /\ RefillTypes'
  BY DEF RefillInv, RefillTypes
<1>2. /\ BurnedTunnels \subseteq BurnedTunnels' /\ Cardinality(LiveTunnels') <= Cardinality(LiveTunnels)
      /\ Cardinality(Listed') >= Cardinality(Listed) /\ \A e \in Exits : RemovesOnlyBurned(e) /\ BurnKept(e)
      /\ Cardinality(LiveTunnels) \in Nat /\ Cardinality(LiveTunnels') \in Nat
  BY <1>1, KeptRows
<1>3. \A u \in ProxyTasks : attempt'[u] = attempt[u] /\ attempt[u].left \in Nat
  BY <1>1, ExitAssumption DEF RefillTypes, Job
<1>4. RefillFits'
  BY <1>1, <1>2, <1>3, CeilingFacts DEF RefillFits
<1> QED BY <1>1, <1>2, <1>4 DEF RefillInv, RefillFits, PoolKept

LEMMA AgingSteps ==
  ASSUME RefillInv, NEW e \in Exits, QuarantineEnds(e) \/ ResultAges(e) \/ BurnAges(e)
  PROVE  RefillInv' /\ PoolKept
<1>0. RefillTypes /\ UNCHANGED <<minter, attempt>> /\ exits[e] \in ExitRow
  BY DEF RefillInv, RefillTypes, QuarantineEnds, ResultAges, BurnAges
<1>1. CASE UNCHANGED exits
  BY <1>0, <1>1, SameRows, OthersStep
<1>2. CASE SetRow(e, [exits[e] EXCEPT !.expired = TRUE]) \/ SetRow(e, [exits[e] EXCEPT !.probed = FALSE])
  <2>1. /\ [exits[e] EXCEPT !.expired = TRUE] \in ExitRow
        /\ [exits[e] EXCEPT !.expired = TRUE].status = exits[e].status
        /\ [exits[e] EXCEPT !.probed = FALSE] \in ExitRow
        /\ [exits[e] EXCEPT !.probed = FALSE].status = exits[e].status
    BY <1>0 DEF ExitRow
  <2>2. PICK row \in ExitRow : row.status = exits[e].status /\ exits' = [exits EXCEPT ![e] = row]
    BY <1>2, <2>1 DEF SetRow
  <2>3. exits' \in [Exits -> ExitRow] /\ RowsKept
    BY <1>0, <2>2 DEF RefillTypes, RowsKept
  <2> QED BY <1>0, <2>3, OthersStep
<1> QED BY <1>1, <1>2 DEF QuarantineEnds, ResultAges, BurnAges

LEMMA ResetStep == ASSUME RefillInv, Reset PROVE RefillInv' /\ PoolKept
<1>1. RefillTypes /\ UNCHANGED exits /\ UNCHANGED <<minter, attempt>>
  BY DEF RefillInv, Reset
<1> QED BY <1>1, SameRows, OthersStep

LEMMA PoolSteps ==
  ASSUME ~LateReports, RefillInv, ProxyNext PROVE RefillInv' /\ PoolKept
<1>1. ASSUME NEW t \in ProxyTasks, ProxyTaskStep(t) PROVE RefillInv' /\ PoolKept
  BY <1>1, BindSteps, ReportSteps, AskSteps, StartMintingStep, MintStep, StopMintingStep DEF ProxyTaskStep
<1>2. ASSUME NEW e \in Exits, QuarantineEnds(e) \/ ResultAges(e) \/ BurnAges(e) PROVE RefillInv' /\ PoolKept
  BY <1>2, AgingSteps
<1> QED BY <1>1, <1>2, ResetStep DEF ProxyNext

LEMMA PoolStutters == RefillInv /\ UNCHANGED poolRowVars => RefillInv'
<1> SUFFICES ASSUME RefillInv, UNCHANGED poolRowVars PROVE RefillInv'
  OBVIOUS
<1>1. RefillTypes /\ UNCHANGED exits /\ UNCHANGED <<minter, attempt>>
  BY DEF RefillInv, poolRowVars
<1> QED BY <1>1, SameRows, OthersStep

LEMMA PoolStarts == ASSUME ProxyInit PROVE RefillInv
<1>1. RefillTypes
  <2>1. \A e \in Exits : exits[e] \in ExitRow
    BY ExitAssumption DEF ProxyInit, ExitRow, Statuses
  <2>2. exits \in [Exits -> ExitRow]
    BY <2>1 DEF ProxyInit
  <2>3. NoJob \in Job /\ NoJob.step = "idle"
    BY ExitAssumption DEF NoJob, Job, JobSteps
  <2> QED BY <2>2, <2>3, ExitAssumption DEF ProxyInit, RefillTypes
<1>2. LiveTunnels \subseteq FirstExits \ ManualExits
  <2>1. \A e \in Exits : exits[e].status # "unminted" => e \in FirstExits
    BY DEF ProxyInit
  <2> QED BY <2>1 DEF LiveTunnels, TunnelRows, Listed
<1>3. Cardinality(LiveTunnels) <= Ceiling
  <2>1. IsFiniteSet(FirstExits \ ManualExits)
    BY ExitAssumption, FS_Subset
  <2>2. Cardinality(LiveTunnels) <= Cardinality(FirstExits \ ManualExits)
    BY <1>2, <2>1, FS_Subset
  <2> QED BY <2>1, <2>2, <1>1, ListedFacts, FS_CardinalityType, CeilingFacts
<1>4. \A t \in ProxyTasks : attempt[t].step # "minting"
  BY DEF ProxyInit, NoJob
<1> QED BY <1>1, <1>3, <1>4 DEF RefillInv, RefillFits

\* A refill keeps the pool, however many tasks burn, quarantine and probe its exits
\* while it mints: live ones never exceed twice the target if they did not at first.
THEOREM RefillsKeepThePool ==
  ASSUME ~LateReports, Cardinality(FirstExits \ ManualExits) <= 2 * PoolTarget
  PROVE  ProxySpec => RefillKeepsPool
<1>1. RefillInv /\ [ProxyNext]_poolRowVars => RefillInv'
  BY PoolSteps, PoolStutters
<1>2. RefillInv /\ [ProxyNext]_poolRowVars =>
        [/\ \A e \in Exits : RemovesOnlyBurned(e)
         /\ Cardinality(Listed') >= Cardinality(Listed)
         /\ Cardinality((TunnelRows \ BurnedTunnels)') <= 2 * PoolTarget]_poolRowVars
  <2>1. Ceiling = 2 * PoolTarget
    BY ExitAssumption, FS_Subset, FS_CardinalityType DEF Ceiling, Greater
  <2> QED BY PoolSteps, <2>1 DEF PoolKept, LiveTunnels
<1> QED BY <1>1, <1>2, PoolStarts, PTL DEF ProxySpec, RefillKeepsPool

\* "Burned rows never participate in allocation again", as long as no report on an exit
\* comes after another task burned it (with such reports the run exits_revived refutes it).
THEOREM BurnsAreForGood ==
  ASSUME ~LateReports
  PROVE  ProxySpec => BurnedIsForever
<1>1. RefillInv /\ [ProxyNext]_poolRowVars => RefillInv'
  BY PoolSteps, PoolStutters
<1>2. RefillInv /\ [ProxyNext]_poolRowVars =>
        [\A e \in Exits : exits[e].status = "burned" => exits'[e].status \in {"burned", "removed"}]_poolRowVars
  BY PoolSteps DEF PoolKept, BurnKept
<1> QED BY <1>1, <1>2, PoolStarts, PTL DEF ProxySpec, BurnedIsForever

--------------------------------------------------------------------------------
(***************************************************************************)
(* The manual codes.  A prompt, a queue and a waiter belong to one wait,   *)
(* by its generation; each broker call either keeps the prompts' codes or  *)
(* gives the one on display its code, and time passes for all the waits    *)
(* alike.  The stages below follow the call from prompt to waiter.         *)
(***************************************************************************)

PromptRec == [gen : 1..MaxWaits, code : Codes \cup {NoCode}, live : BOOLEAN]
Reasons == {"stopped", "failed", "NameError", "lost", "expired"}
Endings == Codes \cup {NoCode} \cup {Raised(why) : why \in Reasons}
EndRec == [gen : 0..MaxWaits, code : Endings]
Before == {"looking", "dequeuing", "opening"}

\* The types, and that the task has come by its generations and prompts wait by wait.
WaitTypes ==
    /\ prompts \in Seq(PromptRec) /\ shown \in 0..Len(prompts) /\ awaited \in 0..Len(prompts)
    /\ tombstone.gen \in 0..MaxWaits
    /\ generation \in 0..MaxWaits /\ waitNo \in 0..MaxWaits
    /\ raceAt \in Before \cup {"off", "collecting", "entering", "waiting"}
    /\ fallback \in BOOLEAN /\ manualOpen \subseteq Waits
    /\ fetcher \in [Waits -> {"off", "fetching", "posting", "handing", "over"}]
    /\ results \in [Waits -> Seq({"code", "late", "fatal"})]
    /\ waitEnd \in [Waits -> EndRec]
    /\ posts \in 0..MaxPosts /\ taskStop \in BOOLEAN
    /\ Len(prompts) <= MaxPrompts + waitNo
    /\ raceAt \in Before => Len(prompts) < MaxPrompts + waitNo

\* The waits so far, and the one in progress.
WaitShape ==
    /\ generation <= waitNo /\ (waitNo > 0 => generation > 0)
    /\ raceAt # "off" => waitNo > 0 /\ waitEnd[waitNo].code = NoCode
    /\ \A w \in Waits : IF w > waitNo
                        THEN fetcher[w] = "off" /\ waitEnd[w].code = NoCode
                        ELSE fetcher[w] # "off" /\ Gen(w) \in 1..generation
    /\ \A w \in Waits : fetcher[w] # "over" => results[w] = <<>>
    /\ IF raceAt = "waiting" THEN awaited # 0 /\ prompts[awaited].gen = Gen(waitNo)
       ELSE awaited = 0

\* Where the code of a prompt, and of a wait, comes from.
Handed(w) == fetcher[w] \in {"handing", "over"}
PromptSound(i) ==
    prompts[i].code # NoCode =>
        \/ \E w \in Waits : /\ prompts[i].code = Fetched(w) /\ w <= waitNo /\ Handed(w)
                            /\ Gen(w) = prompts[i].gen
        \/ \E n \in 1..posts : prompts[i].code = Typed(n) /\ <<Typed(n), i>> \in accepted
EndSound(v) ==
    waitEnd[v].code \in Codes =>
        \/ \E w \in Waits : /\ waitEnd[v].code = Fetched(w) /\ w <= v /\ Handed(w)
                            /\ Gen(w) = Gen(v)
        \/ \E n \in 1..posts, i \in 1..Len(prompts) :
              /\ waitEnd[v].code = Typed(n) /\ <<Typed(n), i>> \in accepted
              /\ prompts[i].gen = Gen(v)

\* The code of a prompt was not returned yet.
Unreturned(i) == prompts[i].code # NoCode => \A v \in Waits : waitEnd[v].code # prompts[i].code

ManualInv ==
    /\ WaitTypes /\ WaitShape
    /\ \A i \in 1..Len(prompts) : PromptSound(i)
    /\ \A v \in Waits : EndSound(v)
    /\ shown # 0 => Unreturned(shown)
    /\ awaited # 0 => Unreturned(awaited)
    /\ CodeUsedOnce /\ AwaitedIsShown

\* The forms of codes do not overlap.
LEMMA CodeForms ==
  /\ \A v, w : Fetched(v) = Fetched(w) => v = w
  /\ \A m, n : Typed(m) = Typed(n) => m = n
  /\ \A v, n : Fetched(v) # Typed(n)
  /\ \A v : Fetched(v) # NoCode /\ Typed(v) # NoCode
  /\ \A v : \A why \in Reasons : Fetched(v) # Raised(why) /\ Typed(v) # Raised(why) /\ NoCode # Raised(why)
  BY DEF Fetched, Typed, NoCode, Raised, Reasons

LEMMA CodeSets ==
  /\ \A w \in Waits : Fetched(w) \in Codes
  /\ \A n \in 1..MaxPosts : Typed(n) \in Codes
  /\ NoCode \notin Codes /\ \A why \in Reasons : Raised(why) \notin Codes /\ Raised(why) \in Endings
  /\ NoCode \in Endings /\ Codes \subseteq Endings
  /\ \A c \in Codes : (\E w \in Waits : c = Fetched(w)) \/ (\E n \in 1..MaxPosts : c = Typed(n))
<1>1. \A c \in Codes : (\E w \in Waits : c = Fetched(w)) \/ (\E n \in 1..MaxPosts : c = Typed(n))
  BY DEF Codes
<1>2. (\A w \in Waits : Fetched(w) \in Codes) /\ (\A n \in 1..MaxPosts : Typed(n) \in Codes)
  BY DEF Codes
<1>3. NoCode \notin Codes /\ \A why \in Reasons : Raised(why) \notin Codes
  BY <1>1, CodeForms
<1>4. (\A why \in Reasons : Raised(why) \in Endings) /\ NoCode \in Endings /\ Codes \subseteq Endings
  BY DEF Endings
<1> QED BY <1>1, <1>2, <1>3, <1>4

\* A prompt's window closes, or it takes a code.
LEMMA LiveSetter ==
  ASSUME NEW f \in Seq(PromptRec), NEW i \in 1..Len(f)
  PROVE  /\ [f EXCEPT ![i].live = FALSE] \in Seq(PromptRec)
         /\ Len([f EXCEPT ![i].live = FALSE]) = Len(f)
         /\ \A j \in 1..Len(f) : /\ [f EXCEPT ![i].live = FALSE][j].gen = f[j].gen
                                 /\ [f EXCEPT ![i].live = FALSE][j].code = f[j].code
                                 /\ [f EXCEPT ![i].live = FALSE][j].live => f[j].live /\ j # i
<1>1. f[i] \in PromptRec /\ \A j \in 1..Len(f) : f[j] \in PromptRec
  BY ElementOfSeq
<1>2. [f[i] EXCEPT !.live = FALSE] \in PromptRec
  BY <1>1 DEF PromptRec
<1>3. /\ [f EXCEPT ![i].live = FALSE] \in Seq(PromptRec)
      /\ Len([f EXCEPT ![i].live = FALSE]) = Len(f)
      /\ \A j \in 1..Len(f) : [f EXCEPT ![i].live = FALSE][j] = IF j = i THEN [f[i] EXCEPT !.live = FALSE] ELSE f[j]
  BY <1>2, ExceptSeq
<1>4. \A j \in 1..Len(f) : /\ [f EXCEPT ![i].live = FALSE][j].gen = f[j].gen
                           /\ [f EXCEPT ![i].live = FALSE][j].code = f[j].code
                           /\ [f EXCEPT ![i].live = FALSE][j].live => f[j].live /\ j # i
  BY <1>1, <1>3 DEF PromptRec
<1> QED BY <1>3, <1>4

LEMMA CodeSetter ==
  ASSUME NEW f \in Seq(PromptRec), NEW i \in 1..Len(f), NEW c \in Codes
  PROVE  /\ [f EXCEPT ![i].code = c] \in Seq(PromptRec)
         /\ Len([f EXCEPT ![i].code = c]) = Len(f)
         /\ \A j \in 1..Len(f) : /\ [f EXCEPT ![i].code = c][j].gen = f[j].gen
                                 /\ [f EXCEPT ![i].code = c][j].code = IF j = i THEN c ELSE f[j].code
                                 /\ [f EXCEPT ![i].code = c][j].live = f[j].live
<1>1. f[i] \in PromptRec /\ \A j \in 1..Len(f) : f[j] \in PromptRec
  BY ElementOfSeq
<1>2. [f[i] EXCEPT !.code = c] \in PromptRec
  BY <1>1 DEF PromptRec
<1>3. /\ [f EXCEPT ![i].code = c] \in Seq(PromptRec)
      /\ Len([f EXCEPT ![i].code = c]) = Len(f)
      /\ \A j \in 1..Len(f) : [f EXCEPT ![i].code = c][j] = IF j = i THEN [f[i] EXCEPT !.code = c] ELSE f[j]
  BY <1>2, ExceptSeq
<1>4. \A j \in 1..Len(f) : /\ [f EXCEPT ![i].code = c][j].gen = f[j].gen
                           /\ [f EXCEPT ![i].code = c][j].code = IF j = i THEN c ELSE f[j].code
                           /\ [f EXCEPT ![i].code = c][j].live = f[j].live
  BY <1>1, <1>3 DEF PromptRec
<1> QED BY <1>3, <1>4

\* What the broker's calls do to the prompts: codes and generations stay, only a new
\* prompt is put on display ...
CodesStay ==
    /\ Len(prompts') >= Len(prompts)
    /\ \A i \in 1..Len(prompts) : /\ prompts'[i].gen = prompts[i].gen
                                  /\ prompts'[i].code = prompts[i].code
                                  /\ prompts'[i].live => prompts[i].live
    /\ \A i \in 1..Len(prompts') : i > Len(prompts) => prompts'[i].code = NoCode
    /\ shown' \in {0, shown} \/ shown' > Len(prompts)

\* ... or the one on display takes a code.
CodeTaken(c) ==
    /\ Len(prompts') = Len(prompts) /\ shown' = shown /\ shown # 0 /\ prompts[shown].code = NoCode
    /\ \A i \in 1..Len(prompts) : /\ prompts'[i].gen = prompts[i].gen
                                  /\ prompts'[i].code = IF i = shown THEN c ELSE prompts[i].code
                                  /\ prompts'[i].live => prompts[i].live

LEMMA PromptTypes ==
  ASSUME WaitTypes
  PROVE  /\ Len(prompts) \in Nat
         /\ \A i \in 1..Len(prompts) : /\ prompts[i].gen \in 1..MaxWaits
                                       /\ prompts[i].code \in Codes \cup {NoCode}
                                       /\ prompts[i].live \in BOOLEAN
<1>1. Len(prompts) \in Nat /\ \A i \in 1..Len(prompts) : prompts[i] \in PromptRec
  BY ElementOfSeq, LenProperties DEF WaitTypes
<1> QED BY <1>1 DEF PromptRec

LEMMA RetiredStay ==
  ASSUME WaitTypes, NEW i \in 1..Len(prompts), NEW why, Retired(i, why)
  PROVE  /\ prompts' \in Seq(PromptRec) /\ Len(prompts') = Len(prompts) /\ CodesStay /\ shown' = 0
         /\ tombstone'.gen \in 0..MaxWaits /\ ~prompts'[i].live
<1>1. prompts' = [prompts EXCEPT ![i].live = FALSE] /\ shown' = 0 /\ tombstone'.gen = prompts[i].gen
  BY DEF Retired, Dropped
<1>2. prompts \in Seq(PromptRec)
  BY DEF WaitTypes
<1>3. prompts' \in Seq(PromptRec) /\ Len(prompts') = Len(prompts)
  BY <1>1, <1>2, LiveSetter
<1>4. \A j \in 1..Len(prompts) : /\ prompts'[j].gen = prompts[j].gen
                                 /\ prompts'[j].code = prompts[j].code
                                 /\ prompts'[j].live => prompts[j].live /\ j # i
  BY <1>1, <1>2, LiveSetter
<1>5. prompts[i].gen \in 0..MaxWaits /\ Len(prompts) \in Nat
  BY PromptTypes, ManualAssumption
<1> QED BY <1>1, <1>3, <1>4, <1>5 DEF CodesStay

LEMMA SubmittedMoves ==
  ASSUME WaitTypes, NEW c \in Codes, NEW g, Submitted(g, c)
  PROVE  /\ prompts' \in Seq(PromptRec) /\ Len(prompts') = Len(prompts) /\ UNCHANGED <<shown, tombstone>>
         /\ Takes(g) => CodeTaken(c) /\ prompts[shown].gen = g
         /\ ~Takes(g) => prompts' = prompts
         /\ \A j \in 1..Len(prompts) : prompts'[j].gen = prompts[j].gen /\ prompts'[j].live = prompts[j].live
<1>1. prompts \in Seq(PromptRec) /\ UNCHANGED <<shown, tombstone>>
  BY DEF WaitTypes, Submitted
<1>2. CASE Takes(g)
  <2>1. shown \in 1..Len(prompts) /\ prompts' = [prompts EXCEPT ![shown].code = c]
    BY <1>2, PromptTypes DEF Takes, ShownFor, WaitTypes, Submitted
  <2>2. prompts' \in Seq(PromptRec) /\ Len(prompts') = Len(prompts)
    BY <1>1, <2>1, CodeSetter
  <2>3. \A j \in 1..Len(prompts) : /\ prompts'[j].gen = prompts[j].gen
                                   /\ prompts'[j].code = IF j = shown THEN c ELSE prompts[j].code
                                   /\ prompts'[j].live = prompts[j].live
    BY <1>1, <2>1, CodeSetter
  <2> QED BY <1>1, <1>2, <2>1, <2>2, <2>3 DEF CodeTaken, Takes, ShownFor
<1>3. CASE ~Takes(g)
  BY <1>1, <1>3 DEF Submitted
<1> QED BY <1>2, <1>3

LEMMA OpenedStay ==
  ASSUME WaitTypes, NEW g \in 1..MaxWaits, Opened(g)
  PROVE  /\ prompts' \in Seq(PromptRec) /\ Len(prompts') <= Len(prompts) + 1 /\ CodesStay
         /\ shown' \in 1..Len(prompts') /\ tombstone'.gen \in 0..MaxWaits
         /\ shown' # shown /\ shown # 0 => ~prompts'[shown].live
<1>0. prompts \in Seq(PromptRec) /\ shown \in 0..Len(prompts) /\ Len(prompts) \in Nat
  BY PromptTypes DEF WaitTypes
<1>1. CASE ShownFor(g)
  <2>1. UNCHANGED brokerVars /\ shown # 0
    BY <1>1 DEF Opened, ShownFor
  <2>2. prompts' = prompts /\ shown' = shown /\ tombstone' = tombstone
    BY <2>1 DEF brokerVars
  <2> QED BY <1>0, <2>1, <2>2 DEF CodesStay, WaitTypes
<1>2. CASE ~ShownFor(g)
  <2> DEFINE old == IF shown = 0 THEN prompts ELSE [prompts EXCEPT ![shown].live = FALSE]
             new == [gen |-> g, code |-> NoCode, live |-> TRUE]
  <2>1. prompts' = Append(old, new) /\ shown' = Len(prompts) + 1 /\ tombstone'.gen = 0
    <3>1. CASE shown = 0
      BY <1>2, <3>1 DEF Opened
    <3>2. CASE shown # 0
      <4>1. prompts' = Append([prompts EXCEPT ![shown].live = Dropped(shown)], new)
            /\ shown' = Len(prompts) + 1 /\ tombstone' = [gen |-> 0, why |-> "none"]
        BY <1>2, <3>2 DEF Opened
      <4>2. Dropped(shown) = FALSE
        BY DEF Dropped
      <4> QED BY <3>2, <4>1, <4>2
    <3> QED BY <3>1, <3>2
  <2>2. /\ old \in Seq(PromptRec) /\ Len(old) = Len(prompts)
        /\ \A j \in 1..Len(prompts) : /\ old[j].gen = prompts[j].gen
                                      /\ old[j].code = prompts[j].code
                                      /\ old[j].live => prompts[j].live /\ j # shown
    <3>1. CASE shown = 0
      BY <1>0, <3>1
    <3>2. CASE shown # 0
      <4>1. shown \in 1..Len(prompts) /\ old = [prompts EXCEPT ![shown].live = FALSE]
        BY <1>0, <3>2
      <4> HIDE DEF old
      <4> QED BY <1>0, <4>1, LiveSetter
    <3> QED BY <3>1, <3>2
  <2>3. new \in PromptRec
    BY DEF PromptRec
  <2> HIDE DEF old
  <2>4. /\ prompts' \in Seq(PromptRec) /\ Len(prompts') = Len(prompts) + 1
        /\ \A j \in 1..Len(prompts) : prompts'[j] = old[j]
        /\ prompts'[Len(prompts) + 1] = new
    BY <2>1, <2>2, <2>3, AppendProperties
  <2>5. prompts'[Len(prompts) + 1].code = NoCode
    BY <2>4
  <2>6. CodesStay
    BY <1>0, <2>1, <2>2, <2>4, <2>5 DEF CodesStay
  <2>7. shown # 0 => ~prompts'[shown].live
    BY <1>0, <2>2, <2>4
  <2> QED BY <1>0, <2>1, <2>4, <2>6, <2>7, ManualAssumption
<1> QED BY <1>1, <1>2

\* Time passes: waits and codes are added, workers hand over, generations of waits stay.
Later ==
    /\ waitNo' >= waitNo /\ posts' >= posts /\ accepted \subseteq accepted'
    /\ \A w \in Waits : (Handed(w) => Handed(w)') /\ (w <= waitNo => Gen(w)' = Gen(w))
GensStay == /\ Len(prompts') >= Len(prompts)
            /\ \A i \in 1..Len(prompts) : prompts'[i].gen = prompts[i].gen

LEMMA PromptKept ==
  ASSUME WaitTypes, WaitTypes', Later, GensStay, NEW i \in 1..Len(prompts), PromptSound(i),
         prompts'[i].code = prompts[i].code
  PROVE  PromptSound(i)'
<1> SUFFICES ASSUME prompts[i].code # NoCode PROVE PromptSound(i)'
  BY DEF PromptSound
<1>0. prompts'[i].gen = prompts[i].gen /\ waitNo' >= waitNo /\ posts' >= posts /\ accepted \subseteq accepted'
      /\ waitNo \in Nat /\ waitNo' \in Nat /\ posts \in Nat /\ posts' \in Nat
  BY ManualAssumption DEF Later, GensStay, WaitTypes
<1>1. ASSUME NEW w \in Waits, prompts[i].code = Fetched(w), w <= waitNo, Handed(w), Gen(w) = prompts[i].gen
      PROVE  PromptSound(i)'
  <2>1. w <= waitNo' /\ Handed(w)' /\ Gen(w)' = prompts'[i].gen /\ prompts'[i].code = Fetched(w)
    BY <1>0, <1>1, ManualAssumption DEF Later, Waits
  <2> QED BY <2>1 DEF PromptSound
<1>2. ASSUME NEW n \in 1..posts, prompts[i].code = Typed(n), <<Typed(n), i>> \in accepted
      PROVE  PromptSound(i)'
  <2>1. n \in 1..posts' /\ prompts'[i].code = Typed(n) /\ <<Typed(n), i>> \in accepted'
    BY <1>0, <1>2
  <2> QED BY <2>1 DEF PromptSound
<1> QED BY <1>1, <1>2 DEF PromptSound

LEMMA EndKept ==
  ASSUME WaitTypes, WaitTypes', WaitShape, Later, GensStay, NEW v \in Waits, EndSound(v),
         waitEnd'[v].code = waitEnd[v].code
  PROVE  EndSound(v)'
<1> SUFFICES ASSUME waitEnd[v].code \in Codes PROVE EndSound(v)'
  BY DEF EndSound
<1>0. posts' >= posts /\ accepted \subseteq accepted' /\ posts \in Nat /\ posts' \in Nat /\ waitNo \in Nat
      /\ Len(prompts) \in Nat /\ Len(prompts') \in Nat /\ Len(prompts') >= Len(prompts)
  BY ManualAssumption, LenProperties DEF Later, GensStay, WaitTypes
<1>1. v <= waitNo /\ Gen(v)' = Gen(v)
  <2>1. v <= waitNo
    BY <1>0, CodeSets, ManualAssumption DEF WaitShape, Waits
  <2> QED BY <2>1 DEF Later
<1>2. ASSUME NEW w \in Waits, waitEnd[v].code = Fetched(w), w <= v, Handed(w), Gen(w) = Gen(v)
      PROVE  EndSound(v)'
  <2>1. w <= waitNo
    BY <1>0, <1>1, <1>2, ManualAssumption DEF Waits
  <2>2. Handed(w)' /\ Gen(w)' = Gen(v)'
    BY <1>1, <1>2, <2>1 DEF Later
  <2> QED BY <1>2, <2>2 DEF EndSound
<1>3. ASSUME NEW n \in 1..posts, NEW i \in 1..Len(prompts), waitEnd[v].code = Typed(n),
             <<Typed(n), i>> \in accepted, prompts[i].gen = Gen(v)
      PROVE  EndSound(v)'
  <2>1. n \in 1..posts' /\ i \in 1..Len(prompts') /\ <<Typed(n), i>> \in accepted'
        /\ prompts'[i].gen = Gen(v)'
    BY <1>0, <1>1, <1>3 DEF GensStay
  <2> QED BY <1>3, <2>1 DEF EndSound
<1> QED BY <1>2, <1>3 DEF EndSound

\* A step that neither submits nor returns a code.
LEMMA QuietStep ==
  ASSUME ManualInv, WaitTypes', WaitShape', Later, CodesStay,
         \A v \in Waits : waitEnd'[v].code = waitEnd[v].code \/ waitEnd'[v].code \notin Codes,
         awaited' \in {0, awaited} \/ (awaited' = shown /\ shown' = shown), AwaitedIsShown'
  PROVE  ManualInv'
<1>0. /\ WaitTypes /\ WaitShape /\ shown \in 0..Len(prompts) /\ awaited \in 0..Len(prompts)
      /\ Len(prompts) \in Nat /\ GensStay /\ Len(prompts') \in Nat /\ shown' \in 0..Len(prompts')
  BY LenProperties DEF ManualInv, WaitTypes, GensStay, CodesStay
<1>1. \A i \in 1..Len(prompts') : PromptSound(i)'
  <2> TAKE i \in 1..Len(prompts')
  <2>1. CASE i <= Len(prompts)
    <3>1. i \in 1..Len(prompts) /\ PromptSound(i) /\ prompts'[i].code = prompts[i].code
      BY <1>0, <2>1 DEF ManualInv, CodesStay
    <3> QED BY <1>0, <3>1, PromptKept
  <2>2. CASE i > Len(prompts)
    BY <2>2 DEF CodesStay, PromptSound
  <2> QED BY <1>0, <2>1, <2>2
<1>2. \A v \in Waits : EndSound(v)'
  <2> TAKE v \in Waits
  <2>1. CASE waitEnd'[v].code \notin Codes
    BY <2>1 DEF EndSound
  <2>2. CASE waitEnd'[v].code = waitEnd[v].code
    BY <1>0, <2>2, EndKept DEF ManualInv
  <2> QED BY <2>1, <2>2
<1>3. ASSUME NEW i \in 1..Len(prompts), Unreturned(i) PROVE Unreturned(i)'
  <2>1. prompts'[i].code = prompts[i].code /\ (prompts[i].code # NoCode => prompts[i].code \in Codes)
    BY <1>0, PromptTypes DEF CodesStay
  <2> QED BY <1>3, <2>1 DEF Unreturned
<1>4. shown' # 0 => Unreturned(shown)'
  <2>1. CASE shown' = shown
    BY <1>0, <1>3, <2>1 DEF ManualInv, Unreturned
  <2>2. CASE shown' > Len(prompts)
    BY <1>0, <2>2 DEF CodesStay, Unreturned
  <2> QED BY <2>1, <2>2 DEF CodesStay
<1>5. awaited' # 0 => Unreturned(awaited)'
  <2>1. CASE awaited' = awaited
    BY <1>0, <1>3, <2>1 DEF ManualInv, Unreturned
  <2>2. CASE awaited' = shown /\ shown' = shown
    BY <1>4, <2>2 DEF Unreturned
  <2> QED BY <2>1, <2>2
<1>6. CodeUsedOnce'
  BY DEF ManualInv, CodeUsedOnce
<1> QED BY <1>1, <1>2, <1>4, <1>5, <1>6 DEF ManualInv

\* A code nobody returned is submitted: a worker's own, or the next one typed.
LEMMA SubmitStep ==
  ASSUME ManualInv, WaitTypes', WaitShape', Later, NEW c \in Codes, CodeTaken(c),
         waitEnd' = waitEnd, waitNo' = waitNo, awaited' = awaited, AwaitedIsShown',
         \A v \in Waits : waitEnd[v].code # c,
         \/ \E w \in Waits : c = Fetched(w) /\ w <= waitNo /\ Handed(w)' /\ Gen(w) = prompts[shown].gen
         \/ \E n \in 1..posts' : c = Typed(n) /\ <<Typed(n), shown>> \in accepted'
  PROVE  ManualInv'
<1>0. /\ WaitTypes /\ WaitShape /\ shown \in 1..Len(prompts) /\ awaited \in 0..Len(prompts)
      /\ Len(prompts) \in Nat /\ GensStay /\ Len(prompts') = Len(prompts) /\ shown' = shown
      /\ prompts'[shown].code = c /\ prompts'[shown].gen = prompts[shown].gen /\ c # NoCode
  BY LenProperties, CodeSets DEF ManualInv, WaitTypes, GensStay, CodeTaken
<1>1. \A i \in 1..Len(prompts') : PromptSound(i)'
  <2> TAKE i \in 1..Len(prompts')
  <2>1. CASE i # shown
    <3>1. i \in 1..Len(prompts) /\ PromptSound(i) /\ prompts'[i].code = prompts[i].code
      BY <1>0, <2>1 DEF ManualInv, CodeTaken
    <3> QED BY <1>0, <3>1, PromptKept
  <2>2. CASE i = shown
    <3>1. ASSUME NEW w \in Waits, c = Fetched(w), w <= waitNo, Handed(w)', Gen(w) = prompts[shown].gen
          PROVE  PromptSound(i)'
      <4>1. /\ prompts'[i].code = Fetched(w) /\ w <= waitNo' /\ Handed(w)' /\ Gen(w)' = prompts'[i].gen
        BY <1>0, <2>2, <3>1 DEF Gen
      <4> QED BY <4>1 DEF PromptSound
    <3>2. ASSUME NEW n \in 1..posts', c = Typed(n), <<Typed(n), shown>> \in accepted'
          PROVE  PromptSound(i)'
      BY <1>0, <2>2, <3>2 DEF PromptSound
    <3> QED BY <3>1, <3>2
  <2> QED BY <2>1, <2>2
<1>2. \A v \in Waits : EndSound(v)'
  BY <1>0, EndKept DEF ManualInv
<1>3. Unreturned(shown)'
  BY <1>0 DEF Unreturned
<1>4. awaited' # 0 => Unreturned(awaited)'
  <2>1. CASE awaited = shown
    BY <1>0, <1>3, <2>1 DEF Unreturned
  <2>2. CASE awaited # shown /\ awaited # 0
    <3>1. prompts'[awaited].code = prompts[awaited].code /\ Unreturned(awaited)
      BY <1>0, <2>2 DEF CodeTaken, ManualInv
    <3> QED BY <3>1 DEF Unreturned
  <2> QED BY <2>1, <2>2
<1>5. CodeUsedOnce'
  BY DEF ManualInv, CodeUsedOnce, Gen
<1> QED BY <1>0, <1>1, <1>2, <1>3, <1>4, <1>5 DEF ManualInv

\* A wait returns a code that nobody returned: nothing stays on display.
LEMMA ReturnStep ==
  ASSUME ManualInv, WaitTypes', WaitShape', Later, CodesStay, NEW c \in Codes, raceAt # "off", End(c),
         shown' = 0, \A v \in Waits : waitEnd[v].code # c,
         \A v \in Waits : v = waitNo => EndSound(v)'
  PROVE  ManualInv'
<1>0. /\ WaitTypes /\ WaitShape /\ Len(prompts) \in Nat /\ GensStay /\ Len(prompts') \in Nat
      /\ awaited' = 0 /\ raceAt' = "off" /\ waitNo' = waitNo
  BY LenProperties DEF ManualInv, WaitTypes, GensStay, CodesStay, End, EndLeaving
<1>1. waitNo \in Waits /\ waitEnd'[waitNo].code = c
      /\ \A v \in Waits : v # waitNo => waitEnd'[v] = waitEnd[v]
  BY <1>0, ManualAssumption DEF WaitTypes, WaitShape, Waits, EndRec, End, EndLeaving
<1>2. \A i \in 1..Len(prompts') : PromptSound(i)'
  <2> TAKE i \in 1..Len(prompts')
  <2>1. CASE i <= Len(prompts)
    <3>1. i \in 1..Len(prompts) /\ PromptSound(i) /\ prompts'[i].code = prompts[i].code
      BY <1>0, <2>1 DEF ManualInv, CodesStay
    <3> QED BY <1>0, <3>1, PromptKept
  <2>2. CASE i > Len(prompts)
    BY <2>2 DEF CodesStay, PromptSound
  <2> QED BY <1>0, <2>1, <2>2
<1>3. \A v \in Waits : EndSound(v)'
  BY <1>0, <1>1, EndKept DEF ManualInv
<1>4. CodeUsedOnce'
  BY <1>1 DEF ManualInv, CodeUsedOnce
<1>5. AwaitedIsShown'
  BY <1>0 DEF AwaitedIsShown
<1> QED BY <1>0, <1>2, <1>3, <1>4, <1>5 DEF ManualInv

\* What every step but StartWait leaves: the waits and their generations.
WaitsStay ==
    /\ UNCHANGED <<generation, waitNo>>
    /\ \A v \in Waits : Gen(v)' = Gen(v) /\ (v # waitNo => waitEnd'[v].code = waitEnd[v].code)
    /\ raceAt' # "off" => raceAt # "off" /\ \A v \in Waits : waitEnd'[v].code = waitEnd[v].code

\* A queue holds something only after its worker handed it over.
QueuesSound ==
    /\ fetcher \in [Waits -> {"off", "fetching", "posting", "handing", "over"}]
    /\ results \in [Waits -> Seq({"code", "late", "fatal"})]
    /\ \A w \in Waits : fetcher[w] # "over" => results[w] = <<>>

LEMMA ShapeKept ==
  ASSUME WaitTypes, WaitShape, WaitsStay, QueuesSound',
         \A w \in Waits : fetcher'[w] = "off" <=> fetcher[w] = "off",
         IF raceAt' = "waiting" THEN awaited' # 0 /\ prompts'[awaited'].gen = Gen(waitNo) ELSE awaited' = 0
  PROVE  WaitShape'
<1>1. generation' <= waitNo' /\ (waitNo' > 0 => generation' > 0)
  BY DEF WaitShape, WaitsStay
<1>2. raceAt' # "off" => waitNo' > 0 /\ waitEnd'[waitNo'].code = NoCode
  BY ManualAssumption DEF WaitShape, WaitsStay, WaitTypes, Waits
<1>3. \A w \in Waits : IF w > waitNo'
                       THEN fetcher'[w] = "off" /\ waitEnd'[w].code = NoCode
                       ELSE fetcher'[w] # "off" /\ Gen(w)' \in 1..generation'
  <2> TAKE w \in Waits
  <2>1. waitNo' = waitNo /\ generation' = generation /\ Gen(w)' = Gen(w)
        /\ waitNo \in Nat /\ w \in Nat
    BY ManualAssumption DEF WaitsStay, WaitTypes, Waits
  <2>2. CASE w > waitNo
    <3>1. fetcher[w] = "off" /\ waitEnd[w].code = NoCode
      BY <2>2 DEF WaitShape
    <3>2. fetcher'[w] = "off" /\ waitEnd'[w].code = NoCode
      BY <2>1, <2>2, <3>1 DEF WaitsStay
    <3> QED BY <2>1, <2>2, <3>2
  <2>3. CASE ~(w > waitNo)
    <3>1. fetcher[w] # "off" /\ Gen(w) \in 1..generation
      BY <2>3 DEF WaitShape
    <3> QED BY <2>1, <2>3, <3>1
  <2> QED BY <2>2, <2>3
<1>4. IF raceAt' = "waiting" THEN awaited' # 0 /\ prompts'[awaited'].gen = Gen(waitNo)' ELSE awaited' = 0
  <2>1. raceAt' = "waiting" => Gen(waitNo)' = Gen(waitNo)
    BY ManualAssumption DEF WaitsStay, WaitShape, WaitTypes, Waits
  <2> QED BY <2>1
<1>5. waitNo' = waitNo
  BY DEF WaitsStay
<1>6. IF raceAt' = "waiting" THEN awaited' # 0 /\ prompts'[awaited'].gen = waitEnd'[waitNo'].gen ELSE awaited' = 0
  BY <1>4, <1>5 DEF Gen
<1> QED BY <1>1, <1>2, <1>3, <1>6 DEF WaitShape, QueuesSound, Gen

\* The race comes to an end.
LEMMA EndKeeps ==
  ASSUME WaitTypes, WaitShape, raceAt # "off", NEW c \in Endings, NEW open \in SUBSET Waits, EndLeaving(open, c),
         prompts' \in Seq(PromptRec), Len(prompts') <= MaxPrompts + waitNo, CodesStay, shown' \in 0..Len(prompts'),
         tombstone'.gen \in 0..MaxWaits, fetcher' = fetcher, QueuesSound', UNCHANGED <<posts, accepted, taskStop>>
  PROVE  /\ WaitTypes' /\ WaitShape' /\ Later /\ AwaitedIsShown' /\ awaited' = 0
         /\ waitNo \in Waits /\ waitEnd'[waitNo].code = c
         /\ \A v \in Waits : Gen(v)' = Gen(v) /\ (v # waitNo => waitEnd'[v] = waitEnd[v])
<1>1. /\ waitNo \in Waits /\ waitEnd' = [waitEnd EXCEPT ![waitNo].code = c]
      /\ raceAt' = "off" /\ awaited' = 0 /\ fallback' = FALSE /\ manualOpen' \subseteq Waits
      /\ UNCHANGED <<generation, waitNo>>
  BY ManualAssumption DEF WaitTypes, WaitShape, Waits, EndLeaving
<1>2. /\ waitEnd' \in [Waits -> EndRec] /\ waitEnd'[waitNo].code = c
      /\ \A v \in Waits : waitEnd'[v].gen = waitEnd[v].gen /\ (v # waitNo => waitEnd'[v] = waitEnd[v])
  BY <1>1 DEF WaitTypes, EndRec
<1>3. WaitsStay
  BY <1>1, <1>2 DEF WaitsStay, Gen
<1>4. WaitShape'
  BY <1>1, <1>3, ShapeKept
<1>5. WaitTypes'
  <2>1. awaited' \in 0..Len(prompts') /\ Len(prompts') \in Nat
    BY <1>1, LenProperties
  <2>2. Len(prompts') <= MaxPrompts + waitNo' /\ raceAt' \notin Before
    BY <1>1 DEF Before
  <2>3. raceAt' \in Before \cup {"off", "collecting", "entering", "waiting"} /\ fallback' \in BOOLEAN
    BY <1>1
  <2> QED BY <1>1, <1>2, <2>1, <2>2, <2>3 DEF WaitTypes, QueuesSound
<1>6. Later
  BY <1>1, <1>2, ManualAssumption DEF Later, Handed, Gen, WaitTypes
<1> QED BY <1>1, <1>2, <1>4, <1>5, <1>6 DEF AwaitedIsShown, Gen

\* After the fallback opened its prompt, the race takes its mark away as it ends.
LEMMA EndLeaves ==
  ASSUME WaitTypes, WaitShape, raceAt # "off", NEW c, End(c)
  PROVE  \E open \in SUBSET Waits : EndLeaving(open, c)
<1>1. manualOpen \subseteq Waits
  BY DEF WaitTypes
<1>2. (IF fallback THEN manualOpen \ {waitNo} ELSE manualOpen) \in SUBSET Waits
  BY <1>1
<1> QED BY <1>2 DEF End

\* The race moves on to another place, and does not wait at a prompt.
LEMMA MoveKeeps ==
  ASSUME WaitTypes, WaitShape, raceAt # "off", raceAt # "waiting",
         NEW p \in Before \cup {"collecting", "entering"}, MoveTo(p),
         prompts' \in Seq(PromptRec), shown' \in 0..Len(prompts'), Len(prompts') >= Len(prompts),
         Len(prompts') <= MaxPrompts + waitNo, p \in Before => raceAt \in Before /\ Len(prompts') = Len(prompts),
         tombstone'.gen \in 0..MaxWaits, fetcher' = fetcher, QueuesSound', fallback' \in BOOLEAN,
         manualOpen' \subseteq Waits, UNCHANGED <<posts, accepted, taskStop>>
  PROVE  /\ WaitTypes' /\ WaitShape' /\ Later /\ AwaitedIsShown' /\ awaited' = 0 /\ awaited = 0
         /\ waitEnd' = waitEnd /\ waitNo' = waitNo
<1>1. /\ raceAt' = p /\ UNCHANGED <<generation, waitNo, awaited, waitEnd>> /\ awaited = 0
      /\ p # "off" /\ p # "waiting"
  BY DEF MoveTo, WaitShape, Before
<1>2. WaitsStay
  BY <1>1 DEF WaitsStay, Gen
<1>3. WaitShape'
  BY <1>1, <1>2, ShapeKept
<1>4. WaitTypes'
  <2>1. awaited' \in 0..Len(prompts') /\ Len(prompts') \in Nat
    BY <1>1, LenProperties
  <2>2. raceAt' \in Before => Len(prompts') < MaxPrompts + waitNo'
    BY <1>1 DEF WaitTypes
  <2>3. raceAt' \in Before \cup {"off", "collecting", "entering", "waiting"}
    BY <1>1
  <2> QED BY <1>1, <2>1, <2>2, <2>3 DEF WaitTypes, QueuesSound
<1>5. Later
  BY <1>1, ManualAssumption DEF Later, Handed, Gen, WaitTypes
<1> QED BY <1>1, <1>3, <1>4, <1>5 DEF AwaitedIsShown

\* Somebody else acts.
LEMMA RaceStays ==
  ASSUME WaitTypes, WaitShape, UNCHANGED raceVars, manualOpen' = manualOpen,
         prompts' \in Seq(PromptRec), shown' \in 0..Len(prompts'), GensStay,
         Len(prompts') = Len(prompts) \/ Len(prompts') <= MaxPrompts,
         tombstone'.gen \in 0..MaxWaits, QueuesSound', taskStop' \in BOOLEAN,
         \A w \in Waits : (fetcher'[w] = "off" <=> fetcher[w] = "off") /\ (Handed(w) => Handed(w)'),
         posts' \in 0..MaxPosts, posts' >= posts, accepted \subseteq accepted'
  PROVE  WaitTypes' /\ WaitShape' /\ Later
<1>1. UNCHANGED <<generation, waitNo, raceAt, awaited, fallback, waitEnd>>
  BY DEF raceVars
<1>2. WaitsStay
  BY <1>1 DEF WaitsStay, Gen
<1>0. awaited \in 0..Len(prompts) /\ Len(prompts) \in Nat /\ Len(prompts') \in Nat /\ Len(prompts') >= Len(prompts)
      /\ waitNo \in Nat
  BY LenProperties, ManualAssumption DEF WaitTypes, GensStay
<1>3. WaitShape'
  <2>1. IF raceAt' = "waiting" THEN awaited' # 0 /\ prompts'[awaited'].gen = Gen(waitNo) ELSE awaited' = 0
    BY <1>0, <1>1 DEF WaitShape, GensStay
  <2> QED BY <1>2, <2>1, ShapeKept
<1>4. WaitTypes'
  <2>1. Len(prompts') <= MaxPrompts + waitNo' /\ (raceAt' \in Before => Len(prompts') < MaxPrompts + waitNo')
    <3>1. raceAt \in Before => waitNo > 0
      BY DEF WaitShape, Before
    <3>2. CASE Len(prompts') = Len(prompts)
      BY <1>0, <1>1, <3>2 DEF WaitTypes
    <3>3. CASE Len(prompts') <= MaxPrompts
      BY <1>0, <1>1, <3>1, <3>3, ManualAssumption
    <3> QED BY <3>2, <3>3
  <2>2. awaited' \in 0..Len(prompts')
    BY <1>0, <1>1
  <2> QED BY <1>1, <2>1, <2>2 DEF WaitTypes, QueuesSound
<1>5. Later
  BY <1>0, <1>1 DEF Later, Gen
<1> QED BY <1>3, <1>4, <1>5

LEMMA InvTypes == ManualInv => WaitTypes /\ WaitShape
  BY DEF ManualInv

LEMMA InvQueues == ManualInv => QueuesSound
  BY DEF ManualInv, WaitTypes, WaitShape, QueuesSound

\* What the broker's quiet calls keep.
BrokerSound ==
    /\ prompts' \in Seq(PromptRec) /\ Len(prompts') = Len(prompts) /\ CodesStay
    /\ shown' \in 0..Len(prompts') /\ tombstone'.gen \in 0..MaxWaits

LEMMA SameBroker ==
  ASSUME WaitTypes, UNCHANGED brokerVars
  PROVE  BrokerSound /\ prompts' = prompts /\ shown' = shown
<1>1. prompts' = prompts /\ shown' = shown /\ tombstone' = tombstone
  BY DEF brokerVars
<1>2. Len(prompts) \in Nat
  BY PromptTypes
<1> QED BY <1>1, <1>2 DEF BrokerSound, CodesStay, WaitTypes

LEMMA RetiredBroker ==
  ASSUME WaitTypes, NEW i \in 1..Len(prompts), NEW why, Retired(i, why)
  PROVE  BrokerSound /\ shown' = 0
<1>1. Len(prompts) \in Nat
  BY PromptTypes
<1>2. /\ prompts' \in Seq(PromptRec) /\ Len(prompts') = Len(prompts) /\ CodesStay /\ shown' = 0
      /\ tombstone'.gen \in 0..MaxWaits
  BY RetiredStay
<1> QED BY <1>1, <1>2 DEF BrokerSound

LEMMA CancelledBroker ==
  ASSUME WaitTypes, NEW why, CancelTask(why)
  PROVE  BrokerSound /\ shown' = 0
<1>1. CASE shown = 0
  BY <1>1, SameBroker DEF CancelTask
<1>2. CASE shown # 0
  <2>1. shown \in 1..Len(prompts) /\ Retired(shown, why)
    BY <1>2, PromptTypes DEF WaitTypes, CancelTask
  <2> QED BY <2>1, RetiredBroker
<1> QED BY <1>1, <1>2

\* The race raises.
LEMMA RaceRaises ==
  ASSUME ManualInv, raceAt # "off", NEW why \in Reasons, End(Raised(why)), BrokerSound,
         fetcher' = fetcher, QueuesSound', UNCHANGED <<posts, accepted, taskStop>>
  PROVE  ManualInv'
<1>0. WaitTypes /\ WaitShape /\ Raised(why) \in Endings /\ Raised(why) \notin Codes
      /\ Len(prompts') <= MaxPrompts + waitNo
  BY InvTypes, CodeSets DEF WaitTypes, BrokerSound
<1>9. PICK open \in SUBSET Waits : EndLeaving(open, Raised(why))
  BY <1>0, EndLeaves
<1>1. /\ WaitTypes' /\ WaitShape' /\ Later /\ AwaitedIsShown' /\ awaited' = 0
      /\ waitNo \in Waits /\ waitEnd'[waitNo].code = Raised(why)
      /\ \A v \in Waits : v # waitNo => waitEnd'[v] = waitEnd[v]
  BY <1>0, <1>9, EndKeeps DEF BrokerSound
<1>2. \A v \in Waits : waitEnd'[v].code = waitEnd[v].code \/ waitEnd'[v].code \notin Codes
  BY <1>0, <1>1
<1>3. CodesStay
  BY DEF BrokerSound
<1> QED BY <1>1, <1>2, <1>3, QuietStep

\* The race returns a code.
LEMMA RaceReturns ==
  ASSUME ManualInv, raceAt # "off", NEW c \in Codes, End(c), BrokerSound, shown' = 0,
         fetcher' = fetcher, QueuesSound', UNCHANGED <<posts, accepted, taskStop>>,
         \A v \in Waits : waitEnd[v].code # c,
         \/ \E w \in Waits : c = Fetched(w) /\ w <= waitNo /\ Handed(w) /\ Gen(w) = Gen(waitNo)
         \/ \E n \in 1..posts, i \in 1..Len(prompts) :
               c = Typed(n) /\ <<Typed(n), i>> \in accepted /\ prompts[i].gen = Gen(waitNo)
  PROVE  ManualInv'
<1>0. WaitTypes /\ WaitShape /\ c \in Endings /\ Len(prompts') <= MaxPrompts + waitNo
  BY InvTypes, CodeSets DEF WaitTypes, BrokerSound
<1>9. PICK open \in SUBSET Waits : EndLeaving(open, c)
  BY <1>0, EndLeaves
<1>1. /\ WaitTypes' /\ WaitShape' /\ Later
      /\ waitNo \in Waits /\ waitEnd'[waitNo].code = c
      /\ \A v \in Waits : Gen(v)' = Gen(v)
  BY <1>0, <1>9, EndKeeps DEF BrokerSound
<1>2. CodesStay /\ Len(prompts') = Len(prompts) /\ UNCHANGED <<posts, accepted>>
  BY DEF BrokerSound
<1>3. ASSUME NEW v \in Waits, v = waitNo PROVE EndSound(v)'
  <2>0. waitNo' = waitNo /\ waitEnd'[v].code = c /\ Gen(v)' = Gen(v)
    BY <1>1, <1>3 DEF End, EndLeaving
  <2>1. ASSUME NEW w \in Waits, c = Fetched(w), w <= waitNo, Handed(w), Gen(w) = Gen(waitNo)
        PROVE  EndSound(v)'
    <3>1. Handed(w)' /\ Gen(w)' = Gen(w) /\ w <= v
      BY <1>1, <1>3, <2>1 DEF Later
    <3>2. waitEnd'[v].code = Fetched(w) /\ Gen(w)' = Gen(v)'
      BY <1>3, <2>0, <2>1, <3>1
    <3> QED BY <3>1, <3>2 DEF EndSound
  <2>2. ASSUME NEW n \in 1..posts, NEW i \in 1..Len(prompts), c = Typed(n),
               <<Typed(n), i>> \in accepted, prompts[i].gen = Gen(waitNo)
        PROVE  EndSound(v)'
    <3>1. n \in 1..posts' /\ i \in 1..Len(prompts') /\ waitEnd'[v].code = Typed(n)
          /\ <<Typed(n), i>> \in accepted' /\ prompts'[i].gen = Gen(v)'
      BY <1>2, <1>3, <2>0, <2>2 DEF CodesStay
    <3> QED BY <3>1 DEF EndSound
  <2> QED BY <2>1, <2>2
<1> QED BY <1>1, <1>2, <1>3, ReturnStep

\* Somebody else acts at the broker: a wait still stands before its own prompt.
LEMMA AwaitedStays ==
  ASSUME ManualInv, UNCHANGED raceVars, \A i \in 1..Len(prompts) : prompts'[i].live => prompts[i].live,
         shown' = shown \/ (shown # 0 => ~prompts'[shown].live)
  PROVE  AwaitedIsShown'
<1>1. raceAt' = raceAt /\ awaited' = awaited
  BY DEF raceVars
<1>2. awaited # 0 => awaited \in 1..Len(prompts)
  BY InvTypes, PromptTypes DEF WaitTypes
<1> QED BY <1>1, <1>2 DEF ManualInv, AwaitedIsShown, LivePrompts

\* Somebody else acts, and no prompt takes a code.
LEMMA QuietOther ==
  ASSUME ManualInv, UNCHANGED raceVars, manualOpen' = manualOpen, CodesStay,
         prompts' \in Seq(PromptRec), shown' \in 0..Len(prompts'),
         Len(prompts') = Len(prompts) \/ Len(prompts') <= MaxPrompts,
         shown' = shown \/ (shown # 0 => ~prompts'[shown].live),
         tombstone'.gen \in 0..MaxWaits, QueuesSound', taskStop' \in BOOLEAN,
         \A w \in Waits : (fetcher'[w] = "off" <=> fetcher[w] = "off") /\ (Handed(w) => Handed(w)'),
         posts' \in 0..MaxPosts, posts' >= posts, accepted \subseteq accepted'
  PROVE  ManualInv'
<1>1. WaitTypes /\ WaitShape /\ GensStay
  BY InvTypes DEF CodesStay, GensStay
<1>2. WaitTypes' /\ WaitShape' /\ Later
  BY <1>1, RaceStays
<1>3. AwaitedIsShown'
  BY AwaitedStays DEF CodesStay
<1>4. awaited' = awaited /\ waitEnd' = waitEnd
  BY DEF raceVars
<1> QED BY <1>2, <1>3, <1>4, QuietStep

\* Somebody else submits a code.
LEMMA SubmitOther ==
  ASSUME ManualInv, UNCHANGED raceVars, manualOpen' = manualOpen, NEW g, NEW c \in Codes,
         Submitted(g, c), QueuesSound', taskStop' = taskStop,
         \A w \in Waits : (fetcher'[w] = "off" <=> fetcher[w] = "off") /\ (Handed(w) => Handed(w)'),
         posts' \in 0..MaxPosts, posts' >= posts, accepted \subseteq accepted',
         \A v \in Waits : waitEnd[v].code # c,
         Takes(g) => \/ \E w \in Waits : c = Fetched(w) /\ w <= waitNo /\ Handed(w)' /\ Gen(w) = g
                     \/ \E n \in 1..posts' : c = Typed(n) /\ <<Typed(n), shown>> \in accepted'
  PROVE  ManualInv'
<1>1. WaitTypes /\ WaitShape
  BY InvTypes
<1>2. /\ prompts' \in Seq(PromptRec) /\ Len(prompts') = Len(prompts) /\ UNCHANGED <<shown, tombstone>>
      /\ Takes(g) => CodeTaken(c) /\ prompts[shown].gen = g
      /\ ~Takes(g) => prompts' = prompts
      /\ \A j \in 1..Len(prompts) : prompts'[j].gen = prompts[j].gen /\ prompts'[j].live = prompts[j].live
  BY <1>1, SubmittedMoves
<1>3. Len(prompts) \in Nat /\ shown' \in 0..Len(prompts') /\ tombstone'.gen \in 0..MaxWaits /\ GensStay
      /\ taskStop' \in BOOLEAN
  BY <1>1, <1>2, PromptTypes DEF WaitTypes, GensStay
<1>4. WaitTypes' /\ WaitShape' /\ Later
  BY <1>1, <1>2, <1>3, RaceStays
<1>5. AwaitedIsShown'
  BY <1>2, AwaitedStays
<1>6. awaited' = awaited /\ waitEnd' = waitEnd /\ waitNo' = waitNo
  BY DEF raceVars
<1>7. CASE Takes(g)
  <2>1. \/ \E w \in Waits : c = Fetched(w) /\ w <= waitNo /\ Handed(w)' /\ Gen(w) = prompts[shown].gen
        \/ \E n \in 1..posts' : c = Typed(n) /\ <<Typed(n), shown>> \in accepted'
    BY <1>2, <1>7
  <2> QED BY <1>2, <1>4, <1>5, <1>6, <1>7, <2>1, SubmitStep
<1>8. CASE ~Takes(g)
  <2>1. CodesStay
    BY <1>2, <1>3, <1>8 DEF CodesStay
  <2> QED BY <1>4, <1>5, <1>6, <2>1, QuietStep
<1> QED BY <1>7, <1>8

LEMMA SameWorkers ==
  ASSUME ManualInv, UNCHANGED fetcher, \A w \in Waits : results'[w] \in {results[w], <<>>, Tail(results[w])},
         results' \in [Waits -> Seq({"code", "late", "fatal"})],
         \A w \in Waits : results[w] = <<>> => results'[w] = <<>>
  PROVE  /\ QueuesSound'
         /\ \A w \in Waits : (fetcher'[w] = "off" <=> fetcher[w] = "off") /\ (Handed(w) => Handed(w)')
<1>1. QueuesSound
  BY InvQueues
<1>2. QueuesSound'
  BY <1>1 DEF QueuesSound
<1> QED BY <1>2 DEF Handed

LEMMA SameQueues ==
  ASSUME ManualInv, UNCHANGED workerVars
  PROVE  /\ QueuesSound' /\ fetcher' = fetcher
         /\ \A w \in Waits : (fetcher'[w] = "off" <=> fetcher[w] = "off") /\ (Handed(w) => Handed(w)')
<1>1. QueuesSound /\ UNCHANGED <<fetcher, results>>
  BY InvQueues DEF workerVars
<1> QED BY <1>1 DEF QueuesSound, Handed

LEMMA SameCounts ==
  ASSUME ManualInv
  PROVE  posts \in 0..MaxPosts /\ posts >= posts /\ taskStop \in BOOLEAN /\ tombstone.gen \in 0..MaxWaits
         /\ posts \in Nat
  BY InvTypes, ManualAssumption DEF WaitTypes

LEMMA ExpireStep == ASSUME ManualInv, ExpirePrompt PROVE ManualInv'
<1>1. PICK i \in 1..Len(prompts) :
        /\ prompts[i].live
        /\ IF i = shown THEN Retired(i, "expired")
           ELSE /\ prompts' = [prompts EXCEPT ![i].live = FALSE]
                /\ UNCHANGED <<shown, tombstone>>
  BY DEF ExpirePrompt
<1>2. /\ UNCHANGED <<raceVars, workerVars, manualOpen, posts, accepted, taskStop>>
      /\ WaitTypes /\ prompts \in Seq(PromptRec)
      /\ Len(prompts) \in Nat /\ shown \in 0..Len(prompts) /\ tombstone.gen \in 0..MaxWaits
  BY InvTypes, PromptTypes DEF ExpirePrompt, WaitTypes
<1>3. /\ CodesStay /\ prompts' \in Seq(PromptRec) /\ shown' \in 0..Len(prompts') /\ Len(prompts') = Len(prompts)
      /\ shown' = shown \/ (shown # 0 => ~prompts'[shown].live)
      /\ tombstone'.gen \in 0..MaxWaits
  <2>1. CASE i = shown
    BY <1>1, <1>2, <2>1, RetiredStay
  <2>2. CASE i # shown
    <3>1. prompts' = [prompts EXCEPT ![i].live = FALSE] /\ UNCHANGED <<shown, tombstone>>
      BY <1>1, <2>2
    <3>2. /\ prompts' \in Seq(PromptRec) /\ Len(prompts') = Len(prompts)
          /\ \A j \in 1..Len(prompts) : /\ prompts'[j].gen = prompts[j].gen
                                        /\ prompts'[j].code = prompts[j].code
                                        /\ prompts'[j].live => prompts[j].live /\ j # i
      BY <1>2, <3>1, LiveSetter
    <3> QED BY <1>2, <3>1, <3>2 DEF CodesStay
  <2> QED BY <2>1, <2>2
<1>4. /\ QueuesSound'
      /\ \A w \in Waits : (fetcher'[w] = "off" <=> fetcher[w] = "off") /\ (Handed(w) => Handed(w)')
  BY <1>2, SameQueues
<1>5. UNCHANGED raceVars /\ UNCHANGED <<manualOpen, posts, accepted, taskStop>>
  BY <1>2
<1> QED BY <1>3, <1>4, <1>5, SameCounts, QuietOther

LEMMA SameBrokerOther ==
  ASSUME ManualInv, UNCHANGED prompts, UNCHANGED shown, UNCHANGED raceVars, manualOpen' = manualOpen,
         tombstone'.gen \in 0..MaxWaits, QueuesSound', taskStop' \in BOOLEAN,
         \A w \in Waits : (fetcher'[w] = "off" <=> fetcher[w] = "off") /\ (Handed(w) => Handed(w)'),
         posts' \in 0..MaxPosts, posts' >= posts, accepted \subseteq accepted'
  PROVE  ManualInv'
<1>1. WaitTypes /\ Len(prompts) \in Nat
  BY InvTypes, PromptTypes
<1>2. CodesStay /\ prompts' \in Seq(PromptRec) /\ shown' \in 0..Len(prompts') /\ Len(prompts') = Len(prompts)
  BY <1>1 DEF WaitTypes, CodesStay
<1> QED BY <1>2, QuietOther

LEMMA ForgetStep == ASSUME ManualInv, TombstoneForgotten PROVE ManualInv'
<1>1. UNCHANGED prompts /\ UNCHANGED shown /\ UNCHANGED raceVars /\ UNCHANGED workerVars
      /\ UNCHANGED <<manualOpen, posts, accepted, taskStop>> /\ tombstone'.gen = 0
  BY DEF TombstoneForgotten
<1>2. /\ QueuesSound'
      /\ \A w \in Waits : (fetcher'[w] = "off" <=> fetcher[w] = "off") /\ (Handed(w) => Handed(w)')
  BY <1>1, SameQueues
<1> QED BY <1>1, <1>2, SameCounts, ManualAssumption, SameBrokerOther

LEMMA StopStep == ASSUME ManualInv, StopTask PROVE ManualInv'
<1>1. UNCHANGED prompts /\ UNCHANGED shown /\ UNCHANGED tombstone /\ UNCHANGED raceVars /\ UNCHANGED workerVars
      /\ UNCHANGED <<manualOpen, posts, accepted>> /\ taskStop' = TRUE
  BY DEF StopTask, brokerVars
<1>2. /\ QueuesSound'
      /\ \A w \in Waits : (fetcher'[w] = "off" <=> fetcher[w] = "off") /\ (Handed(w) => Handed(w)')
  BY <1>1, SameQueues
<1> QED BY <1>1, <1>2, SameCounts, SameBrokerOther

LEMMA OpensStep == ASSUME ManualInv, NEW g \in RouteGenerations, PersonOpens(g) PROVE ManualInv'
<1>1. /\ Len(prompts) < MaxPrompts /\ Opened(g) /\ UNCHANGED raceVars /\ UNCHANGED workerVars
      /\ UNCHANGED <<manualOpen, posts, accepted, taskStop>>
  BY DEF PersonOpens
<1>2. WaitTypes /\ Len(prompts) \in Nat /\ g \in 1..MaxWaits
  BY InvTypes, PromptTypes, ManualAssumption DEF WaitTypes, RouteGenerations
<1>3. /\ prompts' \in Seq(PromptRec) /\ Len(prompts') <= Len(prompts) + 1 /\ CodesStay
      /\ shown' \in 1..Len(prompts') /\ tombstone'.gen \in 0..MaxWaits
      /\ shown' # shown /\ shown # 0 => ~prompts'[shown].live
  BY <1>1, <1>2, OpenedStay
<1>4. /\ Len(prompts') \in Nat /\ Len(prompts') <= MaxPrompts /\ shown' \in 0..Len(prompts')
      /\ shown' = shown \/ (shown # 0 => ~prompts'[shown].live)
  BY <1>1, <1>2, <1>3, ManualAssumption, LenProperties
<1>5. /\ QueuesSound'
      /\ \A w \in Waits : (fetcher'[w] = "off" <=> fetcher[w] = "off") /\ (Handed(w) => Handed(w)')
  BY <1>1, SameQueues
<1> QED BY <1>1, <1>3, <1>4, <1>5, SameCounts, QuietOther

LEMMA PostsStep == ASSUME ManualInv, NEW g \in RouteGenerations, PersonPosts(g) PROVE ManualInv'
<1>1. /\ posts < MaxPosts /\ posts' = posts + 1 /\ UNCHANGED raceVars /\ UNCHANGED workerVars
      /\ UNCHANGED <<manualOpen, taskStop>>
  BY DEF PersonPosts
<1>2. /\ QueuesSound'
      /\ \A w \in Waits : (fetcher'[w] = "off" <=> fetcher[w] = "off") /\ (Handed(w) => Handed(w)')
  BY <1>1, SameQueues
<1>3. posts \in Nat /\ posts' \in 0..MaxPosts /\ posts' >= posts /\ posts + 1 \in 1..MaxPosts
      /\ posts + 1 \in 1..posts'
  BY <1>1, SameCounts, ManualAssumption
<1>4. CASE /\ Submitted(g, Typed(posts + 1))
           /\ accepted' = IF Takes(g) THEN accepted \cup {<<Typed(posts + 1), shown>>} ELSE accepted
  <2>1. Typed(posts + 1) \in Codes
    BY <1>3, CodeSets
  <2>2. ASSUME NEW v \in Waits, waitEnd[v].code = Typed(posts + 1) PROVE FALSE
    <3>1. EndSound(v)
      BY DEF ManualInv
    <3>2. PICK n \in 1..posts : Typed(posts + 1) = Typed(n)
      BY <2>1, <2>2, <3>1, CodeForms DEF EndSound
    <3> QED BY <1>3, <3>2, CodeForms
  <2>3. accepted \subseteq accepted' /\ (Takes(g) => <<Typed(posts + 1), shown>> \in accepted')
    BY <1>4
  <2>4. \A v \in Waits : waitEnd[v].code # Typed(posts + 1)
    BY <2>2
  <2>5. Takes(g) => \E n \in 1..posts' : Typed(posts + 1) = Typed(n) /\ <<Typed(n), shown>> \in accepted'
    BY <1>3, <2>3
  <2> DEFINE c == Typed(posts + 1)
  <2>6. c \in Codes /\ Submitted(g, c) /\ (\A v \in Waits : waitEnd[v].code # c)
        /\ (Takes(g) => \E n \in 1..posts' : c = Typed(n) /\ <<Typed(n), shown>> \in accepted')
    BY <1>4, <2>1, <2>4, <2>5
  <2> HIDE DEF c
  <2> QED BY <1>1, <1>2, <1>3, <2>3, <2>6, SubmitOther
<1>5. CASE UNCHANGED <<brokerVars, accepted>>
  <2>1. UNCHANGED prompts /\ UNCHANGED shown /\ UNCHANGED tombstone /\ UNCHANGED accepted
    BY <1>5 DEF brokerVars
  <2> QED BY <1>1, <1>2, <1>3, <2>1, SameCounts, SameBrokerOther
<1> QED BY <1>4, <1>5 DEF PersonPosts

LEMMA FetchStep == ASSUME ManualInv, NEW w \in Waits, FetchCode(w) PROVE ManualInv'
<1>1. /\ UNCHANGED prompts /\ UNCHANGED shown /\ UNCHANGED tombstone /\ UNCHANGED raceVars
      /\ UNCHANGED results /\ UNCHANGED <<manualOpen, posts, accepted, taskStop>> /\ fetcher[w] = "fetching"
      /\ fetcher' = [fetcher EXCEPT ![w] = IF w \in manualOpen THEN "posting" ELSE "handing"]
  BY DEF FetchCode, brokerVars
<1>2. QueuesSound
  BY InvQueues
<1>3. /\ QueuesSound'
      /\ \A v \in Waits : (fetcher'[v] = "off" <=> fetcher[v] = "off") /\ (Handed(v) => Handed(v)')
  BY <1>1, <1>2 DEF QueuesSound, Handed
<1> QED BY <1>1, <1>3, SameCounts, SameBrokerOther

LEMMA HandStep ==
  ASSUME ManualInv, NEW w \in Waits, NEW kind \in {"code", "late", "fatal"},
         fetcher[w] \in {"fetching", "handing"}, Enqueued(w, kind), fetcher' = [fetcher EXCEPT ![w] = "over"],
         UNCHANGED <<brokerVars, raceVars, manualOpen, posts, accepted, taskStop>>
  PROVE  ManualInv'
<1>1. /\ UNCHANGED prompts /\ UNCHANGED shown /\ UNCHANGED tombstone /\ UNCHANGED raceVars
      /\ UNCHANGED <<manualOpen, posts, accepted, taskStop>>
      /\ results' = [results EXCEPT ![w] = Append(results[w], kind)]
  BY DEF Enqueued, brokerVars
<1>2. QueuesSound
  BY InvQueues
<1>3. Append(results[w], kind) \in Seq({"code", "late", "fatal"})
  BY <1>2, AppendProperties DEF QueuesSound
<1>4. /\ QueuesSound'
      /\ \A v \in Waits : (fetcher'[v] = "off" <=> fetcher[v] = "off") /\ (Handed(v) => Handed(v)')
  BY <1>1, <1>2, <1>3 DEF QueuesSound, Handed
<1> QED BY <1>1, <1>4, SameCounts, SameBrokerOther

LEMMA HandCodeStep == ASSUME ManualInv, NEW w \in Waits, HandCode(w) PROVE ManualInv'
  BY HandStep DEF HandCode

LEMMA FailsStep ==
  ASSUME ManualInv, NEW w \in Waits, NEW kind \in {"late", "fatal"}, FetchFails(w, kind)
  PROVE  ManualInv'
  BY HandStep DEF FetchFails

\* No wait returned the code of a worker that has not handed it over.
LEMMA FreshCode ==
  ASSUME ManualInv, NEW w \in Waits, ~Handed(w) \/ (w = waitNo /\ raceAt # "off")
  PROVE  \A v \in Waits : waitEnd[v].code # Fetched(w)
<1> SUFFICES ASSUME NEW v \in Waits, waitEnd[v].code = Fetched(w) PROVE FALSE
  OBVIOUS
<1>1. EndSound(v) /\ WaitTypes /\ WaitShape /\ Fetched(w) \in Codes /\ Fetched(w) # NoCode
  BY CodeSets, CodeForms DEF ManualInv
<1>2. PICK u \in Waits : Fetched(w) = Fetched(u) /\ u <= v /\ Handed(u)
  BY <1>1, CodeForms DEF EndSound
<1>3. u = w
  BY <1>2, CodeForms
<1>4. w = waitNo /\ raceAt # "off"
  BY <1>2, <1>3
<1>5. ~(v > waitNo)
  BY <1>1 DEF WaitShape
<1>6. v = waitNo
  BY <1>1, <1>2, <1>3, <1>4, <1>5, ManualAssumption DEF Waits, WaitTypes
<1> QED BY <1>1, <1>4, <1>6 DEF WaitShape

LEMMA FetcherPostsStep == ASSUME ManualInv, NEW w \in Waits, FetcherPosts(w) PROVE ManualInv'
<1>1. /\ fetcher[w] = "posting" /\ Submitted(Gen(w), Fetched(w)) /\ UNCHANGED raceVars
      /\ UNCHANGED results /\ UNCHANGED <<manualOpen, posts, accepted, taskStop>>
      /\ fetcher' = [fetcher EXCEPT ![w] = "handing"]
  BY DEF FetcherPosts
<1>2. QueuesSound /\ WaitShape /\ WaitTypes
  BY InvQueues, InvTypes
<1>3. /\ QueuesSound'
      /\ \A v \in Waits : (fetcher'[v] = "off" <=> fetcher[v] = "off") /\ (Handed(v) => Handed(v)')
  BY <1>1, <1>2 DEF QueuesSound, Handed
<1>4. Handed(w)' /\ ~Handed(w) /\ w <= waitNo
  <2>1. ~(w > waitNo)
    BY <1>1, <1>2 DEF WaitShape
  <2>2. w <= waitNo
    BY <1>2, <2>1, ManualAssumption DEF WaitTypes, Waits
  <2> QED BY <1>1, <1>2, <2>2 DEF Handed, QueuesSound
<1> DEFINE c == Fetched(w)
           g == Gen(w)
<1>5. c \in Codes /\ Submitted(g, c) /\ \A v \in Waits : waitEnd[v].code # c
  BY <1>1, <1>4, CodeSets, FreshCode
<1>6. \E u \in Waits : c = Fetched(u) /\ u <= waitNo /\ Handed(u)' /\ Gen(u) = g
  BY <1>4
<1> HIDE DEF c, g
<1> QED BY <1>1, <1>3, <1>5, <1>6, SameCounts, SubmitOther

LEMMA StartStep == ASSUME ManualInv, StartWait PROVE ManualInv'
<1>1. /\ raceAt = "off" /\ waitNo < MaxWaits /\ ~taskStop
      /\ waitNo' = waitNo + 1 /\ raceAt' = "looking" /\ fallback' = FALSE
      /\ fetcher' = [fetcher EXCEPT ![waitNo + 1] = "fetching"]
      /\ UNCHANGED <<prompts, shown, tombstone, awaited, results, manualOpen, posts, accepted, taskStop>>
  BY DEF StartWait, brokerVars
<1>2. PICK g \in {generation, generation + 1} :
        /\ g = generation => waitNo > 0
        /\ generation' = g
        /\ waitEnd' = [waitEnd EXCEPT ![waitNo + 1].gen = g]
  BY DEF StartWait
<1>3. WaitTypes /\ WaitShape /\ waitNo \in Nat /\ generation \in Nat /\ waitNo + 1 \in Waits /\ MaxWaits \in Nat
      /\ Len(prompts) \in Nat
  BY <1>1, InvTypes, PromptTypes, ManualAssumption DEF WaitTypes, Waits
<1>4. g \in 1..(waitNo + 1) /\ g >= generation /\ g \in 1..MaxWaits /\ g \in 0..MaxWaits
  BY <1>1, <1>2, <1>3 DEF WaitShape
<1>5. /\ waitEnd' \in [Waits -> EndRec]
      /\ \A v \in Waits : waitEnd'[v].code = waitEnd[v].code
      /\ \A v \in Waits : v # waitNo + 1 => waitEnd'[v].gen = waitEnd[v].gen
      /\ waitEnd'[waitNo + 1].gen = g
  <2>1. waitEnd \in [Waits -> EndRec] /\ waitNo + 1 \in Waits /\ g \in 0..MaxWaits
    BY <1>3, <1>4 DEF WaitTypes
  <2>2. waitEnd' = [waitEnd EXCEPT ![waitNo + 1].gen = g]
    BY <1>2
  <2> DEFINE k == waitNo + 1
  <2>3. k \in Waits /\ waitEnd' = [waitEnd EXCEPT ![k].gen = g]
    BY <2>1, <2>2
  <2> HIDE DEF k
  <2>4. /\ waitEnd' \in [Waits -> EndRec]
        /\ \A v \in Waits : waitEnd'[v].code = waitEnd[v].code
        /\ \A v \in Waits : v # k => waitEnd'[v].gen = waitEnd[v].gen
        /\ waitEnd'[k].gen = g
    BY <2>1, <2>3 DEF EndRec
  <2> QED BY <2>4 DEF k
<1>6. WaitTypes'
  <2>1. generation' \in 0..MaxWaits /\ waitNo' \in 0..MaxWaits /\ Len(prompts') <= MaxPrompts + waitNo'
        /\ Len(prompts') < MaxPrompts + waitNo'
    BY <1>1, <1>2, <1>3, <1>4, ManualAssumption DEF WaitTypes
  <2>2. fetcher' \in [Waits -> {"off", "fetching", "posting", "handing", "over"}]
    BY <1>1, <1>3 DEF WaitTypes
  <2>3. raceAt' \in Before /\ fallback' \in BOOLEAN
    BY <1>1 DEF Before
  <2> QED BY <1>1, <1>3, <1>5, <2>1, <2>2, <2>3 DEF WaitTypes
<1>7. WaitShape'
  <2>1. generation' <= waitNo' /\ (waitNo' > 0 => generation' > 0)
    BY <1>1, <1>2, <1>3, <1>4
  <2>2. waitNo' > 0 /\ waitEnd'[waitNo'].code = NoCode
    <3>1. waitNo + 1 > waitNo
      BY <1>3
    <3>2. waitEnd[waitNo + 1].code = NoCode
      BY <1>3, <3>1 DEF WaitShape
    <3> QED BY <1>1, <1>3, <1>5, <3>2
  <2>3. ASSUME NEW w \in Waits
        PROVE  IF w > waitNo' THEN fetcher'[w] = "off" /\ waitEnd'[w].code = NoCode
               ELSE fetcher'[w] # "off" /\ Gen(w)' \in 1..generation'
    <3>1. CASE w = waitNo + 1
      BY <1>1, <1>2, <1>3, <1>4, <1>5, <3>1 DEF Gen, WaitTypes
    <3>2. CASE w # waitNo + 1 /\ w > waitNo
      <4>1. fetcher[w] = "off" /\ waitEnd[w].code = NoCode
        BY <1>3, <3>2 DEF WaitShape
      <4>2. fetcher'[w] = fetcher[w] /\ w > waitNo'
        BY <1>1, <1>3, <3>2 DEF WaitTypes, Waits
      <4> QED BY <1>5, <4>1, <4>2
    <3>3. CASE w # waitNo + 1 /\ ~(w > waitNo)
      <4>1. fetcher[w] # "off" /\ Gen(w) \in 1..generation
        BY <1>3, <3>3 DEF WaitShape
      <4>2. fetcher'[w] = fetcher[w] /\ ~(w > waitNo')
        BY <1>1, <1>3, <3>3 DEF WaitTypes, Waits
      <4>3. Gen(w)' \in 1..generation'
        BY <1>2, <1>3, <1>4, <1>5, <3>3, <4>1 DEF Gen
      <4> QED BY <4>1, <4>2, <4>3
    <3> QED BY <3>1, <3>2, <3>3
  <2>4. \A w \in Waits : fetcher'[w] # "over" => results'[w] = <<>>
    <3>1. fetcher[waitNo + 1] = "off"
      <4>1. waitNo + 1 > waitNo
        BY <1>3
      <4> QED BY <1>3, <4>1 DEF WaitShape
    <3> QED BY <1>1, <1>3, <3>1 DEF WaitShape, WaitTypes
  <2>5. awaited' = 0 /\ raceAt' # "waiting"
    BY <1>1, <1>3 DEF WaitShape
  <2> QED BY <2>1, <2>2, <2>3, <2>4, <2>5 DEF WaitShape
<1>8. Later
  <2>1. ASSUME NEW w \in Waits PROVE (Handed(w) => Handed(w)') /\ (w <= waitNo => Gen(w)' = Gen(w))
    <3>1. w <= waitNo => w # waitNo + 1
      BY <1>3 DEF Waits
    <3>2. fetcher[waitNo + 1] = "off"
      <4>1. waitNo + 1 > waitNo
        BY <1>3
      <4> QED BY <1>3, <4>1 DEF WaitShape
    <3>3. Handed(w) => Handed(w)'
      BY <1>1, <1>3, <3>2 DEF Handed, WaitTypes
    <3> QED BY <1>5, <3>1, <3>3 DEF Gen
  <2> QED BY <1>1, <1>3, <2>1, SameCounts DEF Later
<1>9. CodesStay /\ awaited' = awaited /\ AwaitedIsShown'
  BY <1>1, <1>3 DEF CodesStay, AwaitedIsShown
<1> QED BY <1>5, <1>6, <1>7, <1>8, <1>9, QuietStep

\* A worker whose queue holds something handed it over.
LEMMA QueueHanded ==
  ASSUME ManualInv, raceAt # "off", results[waitNo] # <<>>
  PROVE  fetcher[waitNo] = "over" /\ Handed(waitNo) /\ waitNo \in Waits
<1>1. waitNo \in Waits /\ QueuesSound
  BY InvTypes, InvQueues, ManualAssumption DEF WaitTypes, WaitShape, Waits
<1> QED BY <1>1 DEF QueuesSound, Handed

\* The race takes from its queue.
LEMMA Taken ==
  ASSUME ManualInv, raceAt # "off", UNCHANGED fetcher,
         NEW rest \in Seq({"code", "late", "fatal"}), results' = [results EXCEPT ![waitNo] = rest],
         results[waitNo] = <<>> => rest = <<>>
  PROVE  QueuesSound'
<1>1. waitNo \in Waits /\ QueuesSound
  BY InvTypes, InvQueues, ManualAssumption DEF WaitTypes, WaitShape, Waits
<1> QED BY <1>1 DEF QueuesSound

LEMMA TailTaken ==
  ASSUME ManualInv, raceAt # "off", UNCHANGED fetcher, results[waitNo] # <<>>,
         results' = [results EXCEPT ![waitNo] = Tail(results[waitNo])]
  PROVE  QueuesSound'
<1>1. waitNo \in Waits /\ QueuesSound
  BY InvTypes, InvQueues, ManualAssumption DEF WaitTypes, WaitShape, Waits
<1>2. Tail(results[waitNo]) \in Seq({"code", "late", "fatal"})
  BY <1>1, HeadTailProperties DEF QueuesSound
<1> QED BY <1>2, Taken

\* The race moves on, and no prompt takes a code.
LEMMA RaceMoves ==
  ASSUME ManualInv, raceAt # "off", raceAt # "waiting",
         NEW p \in Before \cup {"collecting", "entering"}, MoveTo(p), BrokerSound,
         p \in Before => raceAt \in Before, fetcher' = fetcher, QueuesSound',
         fallback' \in BOOLEAN, manualOpen' \subseteq Waits, UNCHANGED <<posts, accepted, taskStop>>
  PROVE  ManualInv'
<1>1. WaitTypes /\ WaitShape /\ Len(prompts) \in Nat
  BY InvTypes, PromptTypes
<1>2. Len(prompts') = Len(prompts) /\ Len(prompts') <= MaxPrompts + waitNo /\ CodesStay
      /\ prompts' \in Seq(PromptRec) /\ shown' \in 0..Len(prompts') /\ tombstone'.gen \in 0..MaxWaits
  BY <1>1 DEF BrokerSound, WaitTypes
<1>3. /\ WaitTypes' /\ WaitShape' /\ Later /\ AwaitedIsShown' /\ awaited' = 0
      /\ waitEnd' = waitEnd /\ waitNo' = waitNo
  BY <1>1, <1>2, MoveKeeps
<1> QED BY <1>2, <1>3, QuietStep

\* The race posts its own worker's code.
LEMMA RaceSubmits ==
  ASSUME ManualInv, raceAt # "off", raceAt # "waiting", results[waitNo] # <<>>,
         MoveTo("entering"), Submitted(Gen(waitNo), Fetched(waitNo)),
         fetcher' = fetcher, QueuesSound', UNCHANGED <<fallback, manualOpen, posts, accepted, taskStop>>
  PROVE  ManualInv'
<1>1. WaitTypes /\ WaitShape /\ Len(prompts) \in Nat
  BY InvTypes, PromptTypes
<1>2. Handed(waitNo) /\ waitNo \in Waits
  BY QueueHanded
<1> DEFINE c == Fetched(waitNo)
           g == Gen(waitNo)
<1>3. c \in Codes /\ Submitted(g, c) /\ \A v \in Waits : waitEnd[v].code # c
  BY <1>2, CodeSets, FreshCode
<1>4. c = Fetched(waitNo) /\ g = Gen(waitNo)
  OBVIOUS
<1> HIDE DEF c, g
<1>5. /\ prompts' \in Seq(PromptRec) /\ Len(prompts') = Len(prompts) /\ UNCHANGED <<shown, tombstone>>
      /\ Takes(g) => CodeTaken(c) /\ prompts[shown].gen = g
      /\ ~Takes(g) => prompts' = prompts
  BY <1>1, <1>3, SubmittedMoves
<1>6. /\ Len(prompts') <= MaxPrompts + waitNo /\ Len(prompts') >= Len(prompts) /\ shown' \in 0..Len(prompts')
      /\ tombstone'.gen \in 0..MaxWaits /\ fallback' \in BOOLEAN /\ manualOpen' \subseteq Waits
      /\ "entering" \in Before \cup {"collecting", "entering"} /\ "entering" \notin Before
  BY <1>1, <1>5 DEF WaitTypes, Before
<1>7. /\ WaitTypes' /\ WaitShape' /\ Later /\ AwaitedIsShown' /\ awaited' = 0 /\ awaited = 0
      /\ waitEnd' = waitEnd /\ waitNo' = waitNo
  BY <1>1, <1>5, <1>6, MoveKeeps
<1>8. CASE Takes(g)
  <2>1. \E w \in Waits : c = Fetched(w) /\ w <= waitNo /\ Handed(w)' /\ Gen(w) = prompts[shown].gen
    <3>1. waitNo <= waitNo /\ Handed(waitNo)'
      <4>1. waitNo \in Nat
        BY <1>1, ManualAssumption DEF WaitTypes
      <4>2. fetcher'[waitNo] \in {"handing", "over"}
        BY <1>2 DEF Handed
      <4> QED BY <1>7, <4>1, <4>2 DEF Handed
    <3>2. c = Fetched(waitNo) /\ Gen(waitNo) = prompts[shown].gen
      BY <1>4, <1>5, <1>8
    <3>3. \A w \in Waits : w = waitNo => c = Fetched(w) /\ w <= waitNo /\ Handed(w)' /\ Gen(w) = prompts[shown].gen
      BY <1>2, <1>7, <3>1, <3>2 DEF Handed
    <3> QED BY <1>2, <3>3
  <2> QED BY <1>3, <1>5, <1>7, <1>8, <2>1, SubmitStep
<1>9. CASE ~Takes(g)
  <2>1. CodesStay
    BY <1>1, <1>5, <1>9 DEF CodesStay
  <2> QED BY <1>7, <2>1, QuietStep
<1> QED BY <1>8, <1>9

LEMMA LookStep == ASSUME ManualInv, LookForPrompt PROVE ManualInv'
<1>1. raceAt = "looking" /\ UNCHANGED workerVars /\ UNCHANGED <<posts, accepted, taskStop>>
      /\ WaitTypes /\ WaitShape
  BY InvTypes DEF LookForPrompt
<1>2. QueuesSound' /\ fetcher' = fetcher /\ raceAt \in Before /\ raceAt # "off" /\ raceAt # "waiting"
  BY <1>1, SameQueues DEF Before
<1>3. CASE CancelTask("stopped") /\ End(Raised("stopped"))
  <2>1. BrokerSound /\ "stopped" \in Reasons
    BY <1>1, <1>3, CancelledBroker DEF Reasons
  <2> QED BY <1>1, <1>2, <1>3, <2>1, RaceRaises
<1>4. CASE /\ manualOpen' = manualOpen \cup {waitNo}
           /\ MoveTo(IF prompts[shown].code # NoCode THEN "entering" ELSE "dequeuing")
           /\ UNCHANGED <<fallback, brokerVars>>
  <2>1. fallback' \in BOOLEAN /\ manualOpen' \subseteq Waits /\ UNCHANGED brokerVars
    BY <1>1, <1>4, ManualAssumption DEF WaitTypes, WaitShape, Waits
  <2>2. PICK p \in {"entering", "dequeuing"} : MoveTo(p)
    BY <1>4
  <2>3. p \in Before \cup {"collecting", "entering"} /\ BrokerSound
    BY <1>1, <2>1, SameBroker DEF Before
  <2> QED BY <1>1, <1>2, <2>1, <2>2, <2>3, RaceMoves
<1>5. CASE MoveTo("dequeuing") /\ UNCHANGED <<fallback, manualOpen, brokerVars>>
  <2>1. fallback' \in BOOLEAN /\ manualOpen' \subseteq Waits /\ UNCHANGED brokerVars
    BY <1>1, <1>5 DEF WaitTypes
  <2>2. "dequeuing" \in Before \cup {"collecting", "entering"} /\ BrokerSound
    BY <1>1, <2>1, SameBroker DEF Before
  <2> QED BY <1>1, <1>2, <1>5, <2>1, <2>2, RaceMoves
<1> QED BY <1>3, <1>4, <1>5 DEF LookForPrompt

LEMMA DequeueStep == ASSUME ManualInv, DequeueResult PROVE ManualInv'
<1>1. raceAt = "dequeuing" /\ fetcher' = fetcher /\ UNCHANGED <<posts, accepted, taskStop>>
      /\ WaitTypes /\ WaitShape /\ raceAt # "off" /\ raceAt # "waiting" /\ raceAt \in Before
  BY InvTypes DEF DequeueResult, Before
<1>2. CASE /\ results[waitNo] # <<>> /\ Submitted(Gen(waitNo), Fetched(waitNo)) /\ MoveTo("entering")
           /\ results' = [results EXCEPT ![waitNo] = Tail(results[waitNo])]
           /\ UNCHANGED <<fallback, manualOpen>>
  <2>1. QueuesSound'
    BY <1>1, <1>2, TailTaken
  <2> QED BY <1>1, <1>2, <2>1, RaceSubmits
<1>3. CASE /\ results[waitNo] # <<>> /\ CancelTask("stopped") /\ End(Fetched(waitNo))
           /\ results' = [results EXCEPT ![waitNo] = Tail(results[waitNo])]
  <2>1. QueuesSound' /\ BrokerSound /\ shown' = 0
    BY <1>1, <1>3, TailTaken, CancelledBroker
  <2>2. Handed(waitNo) /\ waitNo \in Waits /\ waitNo <= waitNo
    BY <1>1, <1>3, QueueHanded, ManualAssumption DEF WaitTypes
  <2> DEFINE c == Fetched(waitNo)
  <2>3. c \in Codes /\ End(c) /\ (\A v \in Waits : waitEnd[v].code # c)
        /\ \E w \in Waits : c = Fetched(w) /\ w <= waitNo /\ Handed(w) /\ Gen(w) = Gen(waitNo)
    BY <1>1, <1>3, <2>2, CodeSets, FreshCode
  <2> HIDE DEF c
  <2> QED BY <1>1, <2>1, <2>3, RaceReturns
<1>4. CASE /\ results[waitNo] # <<>> /\ End(Raised("failed")) /\ UNCHANGED brokerVars
           /\ results' = [results EXCEPT ![waitNo] = Tail(results[waitNo])]
  <2>1. QueuesSound' /\ BrokerSound /\ "failed" \in Reasons
    BY <1>1, <1>4, TailTaken, SameBroker DEF Reasons
  <2> QED BY <1>1, <1>4, <2>1, RaceRaises
<1>5. CASE /\ results[waitNo] # <<>> /\ MoveTo("opening")
           /\ results' = [results EXCEPT ![waitNo] = Tail(results[waitNo])]
           /\ UNCHANGED <<fallback, manualOpen, brokerVars>>
  <2>1. QueuesSound' /\ BrokerSound /\ "opening" \in Before \cup {"collecting", "entering"}
    BY <1>1, <1>5, TailTaken, SameBroker DEF Before
  <2>2. fallback' \in BOOLEAN /\ manualOpen' \subseteq Waits
    BY <1>1, <1>5 DEF WaitTypes
  <2> QED BY <1>1, <1>5, <2>1, <2>2, RaceMoves
<1>6. CASE /\ \E p \in {"opening", "looking"} : MoveTo(p)
           /\ UNCHANGED <<fallback, manualOpen, brokerVars, results>>
  <2>1. PICK p \in {"opening", "looking"} : MoveTo(p)
    BY <1>6
  <2>2. p \in Before \cup {"collecting", "entering"}
    BY DEF Before
  <2>3. QueuesSound' /\ BrokerSound
    BY <1>1, <1>6, SameQueues, SameBroker DEF workerVars
  <2>4. fallback' \in BOOLEAN /\ manualOpen' \subseteq Waits
    BY <1>1, <1>6 DEF WaitTypes
  <2> QED BY <1>1, <2>1, <2>2, <2>3, <2>4, RaceMoves
<1> QED BY <1>2, <1>3, <1>4, <1>5, <1>6 DEF DequeueResult

LEMMA FallbackStep == ASSUME ManualInv, OpenFallback PROVE ManualInv'
<1>1. /\ raceAt = "opening" /\ Opened(Gen(waitNo)) /\ MoveTo("collecting") /\ fallback' = TRUE
      /\ manualOpen' = manualOpen \cup {waitNo} /\ UNCHANGED workerVars /\ UNCHANGED <<posts, accepted, taskStop>>
      /\ WaitTypes /\ WaitShape /\ Len(prompts) \in Nat /\ waitNo \in Nat /\ waitNo \in Waits
  <2>1. raceAt = "opening"
    BY DEF OpenFallback
  <2>2. WaitTypes /\ WaitShape /\ Len(prompts) \in Nat
    BY InvTypes, PromptTypes
  <2>3. waitNo \in Nat /\ waitNo \in Waits
    BY <2>1, <2>2, ManualAssumption DEF WaitTypes, WaitShape, Waits
  <2> QED BY <2>1, <2>2, <2>3 DEF OpenFallback
<1>2. QueuesSound' /\ fetcher' = fetcher
  BY <1>1, SameQueues
<1>3. Gen(waitNo) \in 1..MaxWaits
  <2>1. ~(waitNo > waitNo) /\ generation \in 0..MaxWaits
    BY <1>1 DEF WaitTypes
  <2>2. Gen(waitNo) \in 1..generation
    BY <1>1, <2>1 DEF WaitShape
  <2> QED BY <2>1, <2>2, ManualAssumption
<1>4. /\ prompts' \in Seq(PromptRec) /\ Len(prompts') <= Len(prompts) + 1 /\ CodesStay
      /\ shown' \in 1..Len(prompts') /\ tombstone'.gen \in 0..MaxWaits
  BY <1>1, <1>3, OpenedStay
<1>5. /\ Len(prompts') >= Len(prompts) /\ Len(prompts') <= MaxPrompts + waitNo /\ shown' \in 0..Len(prompts')
      /\ fallback' \in BOOLEAN /\ manualOpen' \subseteq Waits
      /\ "collecting" \in Before \cup {"collecting", "entering"} /\ "collecting" \notin Before
  <2>1. Len(prompts) < MaxPrompts + waitNo /\ manualOpen \subseteq Waits
    BY <1>1 DEF WaitTypes, Before
  <2>2. Len(prompts') \in Nat
    BY <1>4, LenProperties
  <2> QED BY <1>1, <1>4, <2>1, <2>2, ManualAssumption DEF CodesStay, Before
<1>6. /\ WaitTypes' /\ WaitShape' /\ Later /\ AwaitedIsShown' /\ awaited' = 0
      /\ waitEnd' = waitEnd /\ waitNo' = waitNo
  <2>1. raceAt # "off" /\ raceAt # "waiting"
    BY <1>1
  <2> QED BY <1>1, <1>2, <1>4, <1>5, <2>1, MoveKeeps
<1> QED BY <1>4, <1>6, QuietStep

LEMMA NoteStep == ASSUME ManualInv, NoteFails PROVE ManualInv'
<1>1. /\ raceAt # "off" /\ End(Raised("NameError")) /\ UNCHANGED brokerVars /\ UNCHANGED workerVars
      /\ UNCHANGED <<posts, accepted, taskStop>> /\ WaitTypes /\ "NameError" \in Reasons
  BY InvTypes DEF NoteFails, Reasons
<1>2. QueuesSound' /\ fetcher' = fetcher /\ BrokerSound
  BY <1>1, SameQueues, SameBroker
<1> QED BY <1>1, <1>2, RaceRaises

LEMMA AnnouncementStep == ASSUME ManualInv, AnnouncementFails PROVE ManualInv'
<1>1. /\ raceAt \in Before /\ raceAt # "off" /\ Opened(Gen(waitNo)) /\ UNCHANGED workerVars
      /\ EndLeaving(manualOpen \cup {waitNo}, Raised("NameError")) /\ UNCHANGED <<posts, accepted, taskStop>>
      /\ WaitTypes /\ WaitShape /\ Len(prompts) \in Nat
  BY InvTypes, PromptTypes DEF AnnouncementFails, Before
<1>2. waitNo \in Nat /\ waitNo \in Waits /\ ~(waitNo > waitNo)
  BY <1>1, ManualAssumption DEF WaitTypes, WaitShape, Waits
<1>3. QueuesSound' /\ fetcher' = fetcher
  BY <1>1, SameQueues
<1>4. Gen(waitNo) \in 1..MaxWaits
  <2>1. Gen(waitNo) \in 1..generation /\ generation \in 0..MaxWaits
    BY <1>1, <1>2 DEF WaitTypes, WaitShape
  <2> QED BY <2>1, ManualAssumption
<1>5. /\ prompts' \in Seq(PromptRec) /\ Len(prompts') <= Len(prompts) + 1 /\ CodesStay
      /\ shown' \in 1..Len(prompts') /\ tombstone'.gen \in 0..MaxWaits
  BY <1>1, <1>4, OpenedStay
<1>6. Len(prompts') <= MaxPrompts + waitNo /\ shown' \in 0..Len(prompts')
  <2>1. Len(prompts) < MaxPrompts + waitNo
    BY <1>1 DEF WaitTypes
  <2>2. Len(prompts') \in Nat
    BY <1>5, LenProperties
  <2> QED BY <1>1, <1>2, <1>5, <2>1, <2>2, ManualAssumption
<1>7. /\ manualOpen \cup {waitNo} \in SUBSET Waits
      /\ Raised("NameError") \in Endings /\ Raised("NameError") \notin Codes
  BY <1>1, <1>2, CodeSets DEF WaitTypes, Reasons
<1>8. /\ WaitTypes' /\ WaitShape' /\ Later /\ AwaitedIsShown' /\ awaited' = 0
      /\ waitNo \in Waits /\ waitEnd'[waitNo].code = Raised("NameError")
      /\ \A v \in Waits : v # waitNo => waitEnd'[v] = waitEnd[v]
  BY <1>1, <1>3, <1>5, <1>6, <1>7, EndKeeps
<1>9. \A v \in Waits : waitEnd'[v].code = waitEnd[v].code \/ waitEnd'[v].code \notin Codes
  BY <1>7, <1>8
<1> QED BY <1>5, <1>8, <1>9, QuietStep

LEMMA CollectStep == ASSUME ManualInv, CollectResults PROVE ManualInv'
<1> DEFINE found == {results[waitNo][i] : i \in 1..Len(results[waitNo])}
<1>1. /\ raceAt \in {"collecting", "opening"} /\ results' = [results EXCEPT ![waitNo] = <<>>]
      /\ fetcher' = fetcher /\ UNCHANGED <<posts, accepted, taskStop>>
      /\ WaitTypes /\ WaitShape /\ raceAt # "off" /\ raceAt # "waiting"
  BY InvTypes DEF CollectResults
<1>2. QueuesSound'
  <2>1. <<>> \in Seq({"code", "late", "fatal"})
    OBVIOUS
  <2> QED BY <1>1, <2>1, Taken
<1>3. CASE End(Raised("failed")) /\ UNCHANGED brokerVars
  <2>1. BrokerSound /\ "failed" \in Reasons
    BY <1>1, <1>3, SameBroker DEF Reasons
  <2> QED BY <1>1, <1>2, <1>3, <2>1, RaceRaises
<1>4. CASE /\ MoveTo("entering") /\ UNCHANGED <<fallback, manualOpen>> /\ "code" \in found
           /\ Submitted(Gen(waitNo), Fetched(waitNo))
  <2>1. results[waitNo] # <<>>
    BY <1>4
  <2> HIDE DEF found
  <2> QED BY <1>1, <1>2, <1>4, <2>1, RaceSubmits
<1>5. CASE MoveTo("entering") /\ UNCHANGED <<fallback, manualOpen>> /\ UNCHANGED brokerVars
  <2>1. BrokerSound /\ "entering" \in Before \cup {"collecting", "entering"} /\ "entering" \notin Before
    BY <1>1, <1>5, SameBroker DEF Before
  <2>2. fallback' \in BOOLEAN /\ manualOpen' \subseteq Waits
    BY <1>1, <1>5 DEF WaitTypes
  <2> QED BY <1>1, <1>2, <1>5, <2>1, <2>2, RaceMoves
<1> QED BY <1>3, <1>4, <1>5 DEF CollectResults

LEMMA EnterStep == ASSUME ManualInv, EnterWait PROVE ManualInv'
<1>1. raceAt = "entering" /\ UNCHANGED brokerVars /\ UNCHANGED workerVars /\ UNCHANGED <<posts, accepted, taskStop>>
      /\ WaitTypes /\ WaitShape
  BY InvTypes DEF EnterWait
<1>2. /\ QueuesSound' /\ fetcher' = fetcher /\ BrokerSound /\ prompts' = prompts /\ shown' = shown
      /\ \A w \in Waits : (fetcher'[w] = "off" <=> fetcher[w] = "off") /\ (Handed(w) => Handed(w)')
  BY <1>1, SameQueues, SameBroker
<1>3. CASE /\ ShownFor(Gen(waitNo)) /\ raceAt' = "waiting" /\ awaited' = shown
           /\ UNCHANGED <<generation, waitNo, fallback, waitEnd, manualOpen>>
  <2>1. WaitsStay
    BY <1>1, <1>3 DEF WaitsStay, Gen
  <2>2. shown # 0 /\ prompts[shown].gen = Gen(waitNo) /\ shown \in 0..Len(prompts)
    BY <1>1, <1>3 DEF ShownFor, WaitTypes
  <2>3. WaitShape'
    BY <1>1, <1>2, <1>3, <2>1, <2>2, ShapeKept
  <2>4. WaitTypes'
    <3>1. raceAt' \in Before \cup {"off", "collecting", "entering", "waiting"} /\ raceAt' \notin Before
      BY <1>3 DEF Before
    <3>2. prompts' \in Seq(PromptRec) /\ shown' \in 0..Len(prompts') /\ awaited' \in 0..Len(prompts')
          /\ tombstone'.gen \in 0..MaxWaits
      BY <1>2, <1>3, <2>2 DEF BrokerSound
    <3> QED BY <1>1, <1>2, <1>3, <3>1, <3>2 DEF WaitTypes, QueuesSound
  <2>5. Later
    BY <1>1, <1>2, <1>3, SameCounts, ManualAssumption DEF Later, Gen, WaitTypes
  <2>6. AwaitedIsShown' /\ CodesStay
    BY <1>2, <1>3 DEF AwaitedIsShown, BrokerSound
  <2> QED BY <1>2, <1>3, <2>3, <2>4, <2>5, <2>6, QuietStep
<1>4. CASE End(Raised("lost"))
  <2>1. "lost" \in Reasons /\ raceAt # "off"
    BY <1>1 DEF Reasons
  <2> QED BY <1>1, <1>2, <1>4, <2>1, RaceRaises
<1> QED BY <1>3, <1>4 DEF EnterWait

LEMMA WakeStep == ASSUME ManualInv, WakeUp PROVE ManualInv'
<1>1. raceAt = "waiting" /\ raceAt # "off" /\ UNCHANGED workerVars /\ UNCHANGED <<posts, accepted, taskStop>>
      /\ WaitTypes /\ WaitShape
  BY InvTypes DEF WakeUp
<1>2. QueuesSound' /\ fetcher' = fetcher
  BY <1>1, SameQueues
<1>3. awaited \in 1..Len(prompts) /\ prompts[awaited].gen = Gen(waitNo) /\ awaited # 0
  BY <1>1, PromptTypes DEF WaitTypes, WaitShape
<1>4. ASSUME NEW why \in Reasons, Retired(awaited, why), End(Raised(why)) PROVE ManualInv'
  <2>1. BrokerSound
    BY <1>1, <1>3, <1>4, RetiredBroker
  <2> QED BY <1>1, <1>2, <1>4, <2>1, RaceRaises
<1>5. CASE prompts[awaited].code # NoCode /\ Consumed(awaited) /\ End(prompts[awaited].code)
  <2>1. BrokerSound /\ shown' = 0
    BY <1>1, <1>3, <1>5, RetiredBroker DEF Consumed
  <2> DEFINE c == prompts[awaited].code
  <2>2. PromptSound(awaited) /\ Unreturned(awaited) /\ c \in Codes
    BY <1>1, <1>3, <1>5, PromptTypes DEF ManualInv
  <2>3. /\ c \in Codes /\ End(c) /\ \A v \in Waits : waitEnd[v].code # c
    BY <1>5, <2>2 DEF Unreturned
  <2>4. \/ \E w \in Waits : c = Fetched(w) /\ w <= waitNo /\ Handed(w) /\ Gen(w) = Gen(waitNo)
        \/ \E n \in 1..posts, i \in 1..Len(prompts) :
              c = Typed(n) /\ <<Typed(n), i>> \in accepted /\ prompts[i].gen = Gen(waitNo)
    BY <1>3, <1>5, <2>2 DEF PromptSound
  <2> HIDE DEF c
  <2> QED BY <1>1, <1>2, <2>1, <2>3, <2>4, RaceReturns
<1>6. "stopped" \in Reasons /\ "expired" \in Reasons
  BY DEF Reasons
<1> QED BY <1>4, <1>5, <1>6 DEF WakeUp

LEMMA ManualStarts == ManualInit => ManualInv
<1> SUFFICES ASSUME ManualInit PROVE ManualInv
  OBVIOUS
<1>1. WaitTypes
  <2>1. prompts \in Seq(PromptRec) /\ Len(prompts) = 0
    BY DEF ManualInit
  <2>2. [w \in Waits |-> <<>>] \in [Waits -> Seq({"code", "late", "fatal"})]
    OBVIOUS
  <2>3. [w \in Waits |-> [gen |-> 0, code |-> NoCode]] \in [Waits -> EndRec]
    BY CodeSets, ManualAssumption DEF EndRec
  <2>4. results \in [Waits -> Seq({"code", "late", "fatal"})] /\ waitEnd \in [Waits -> EndRec]
    BY <2>2, <2>3 DEF ManualInit
  <2>5. fetcher \in [Waits -> {"off", "fetching", "posting", "handing", "over"}]
    BY DEF ManualInit
  <2>6. /\ raceAt \in Before \cup {"off", "collecting", "entering", "waiting"} /\ raceAt \notin Before
        /\ fallback \in BOOLEAN /\ taskStop \in BOOLEAN /\ manualOpen \subseteq Waits
    BY DEF ManualInit, Before
  <2>7. /\ shown \in 0..Len(prompts) /\ awaited \in 0..Len(prompts) /\ tombstone.gen \in 0..MaxWaits
        /\ generation \in 0..MaxWaits /\ waitNo \in 0..MaxWaits /\ posts \in 0..MaxPosts
        /\ Len(prompts) <= MaxPrompts + waitNo
    BY <2>1, ManualAssumption DEF ManualInit
  <2> QED BY <2>1, <2>4, <2>5, <2>6, <2>7 DEF WaitTypes
<1>2. WaitShape
  <2>1. \A w \in Waits : w > waitNo /\ waitEnd[w].code = NoCode /\ fetcher[w] = "off" /\ results[w] = <<>>
    BY DEF ManualInit, Waits
  <2> QED BY <2>1 DEF ManualInit, WaitShape
<1>3. Len(prompts) = 0 /\ shown = 0 /\ awaited = 0 /\ \A w \in Waits : waitEnd[w].code = NoCode
  BY DEF ManualInit
<1>4. \A v \in Waits : EndSound(v)
  BY <1>3, CodeSets DEF EndSound
<1>5. CodeUsedOnce /\ AwaitedIsShown
  BY <1>3, CodeSets DEF CodeUsedOnce, AwaitedIsShown, ManualInit
<1> QED BY <1>1, <1>2, <1>3, <1>4, <1>5 DEF ManualInv

LEMMA ManualStutters == ManualInv /\ UNCHANGED manualVars => ManualInv'
<1> SUFFICES ASSUME ManualInv, UNCHANGED manualVars PROVE ManualInv'
  OBVIOUS
<1>1. /\ UNCHANGED prompts /\ UNCHANGED shown /\ UNCHANGED tombstone /\ UNCHANGED raceVars /\ UNCHANGED workerVars
      /\ UNCHANGED <<manualOpen, posts, accepted, taskStop>>
  BY DEF manualVars, brokerVars
<1>2. /\ QueuesSound'
      /\ \A w \in Waits : (fetcher'[w] = "off" <=> fetcher[w] = "off") /\ (Handed(w) => Handed(w)')
  BY <1>1, SameQueues
<1> QED BY <1>1, <1>2, SameCounts, SameBrokerOther

LEMMA ManualSteps == ManualInv /\ [ManualNext]_manualVars => ManualInv'
<1> SUFFICES ASSUME ManualInv, [ManualNext]_manualVars PROVE ManualInv'
  OBVIOUS
<1>1. CASE RaceStep
  BY <1>1, LookStep, DequeueStep, FallbackStep, NoteStep, AnnouncementStep, CollectStep, EnterStep, WakeStep DEF RaceStep
<1>2. CASE StartWait \/ ExpirePrompt \/ TombstoneForgotten \/ StopTask
  BY <1>2, StartStep, ExpireStep, ForgetStep, StopStep
<1>3. CASE \E g \in RouteGenerations : PersonOpens(g) \/ PersonPosts(g)
  BY <1>3, OpensStep, PostsStep
<1>4. CASE \E w \in Waits : \/ FetchCode(w) \/ FetcherPosts(w) \/ HandCode(w)
                            \/ \E kind \in {"late", "fatal"} : FetchFails(w, kind)
  BY <1>4, FetchStep, FetcherPostsStep, HandCodeStep, FailsStep
<1>5. CASE UNCHANGED manualVars
  BY <1>5, ManualStutters
<1> QED BY <1>1, <1>2, <1>3, <1>4, <1>5 DEF ManualNext

\* Every code that a wait returns was fetched, or typed, for that wait's generation.
LEMMA EndsAreOfTheirStage == ManualInv => CodeIsOfThisStage
<1> SUFFICES ASSUME ManualInv, NEW v \in Waits, waitEnd[v].code \in Codes
             PROVE  \/ \E w \in Waits : waitEnd[v].code = Fetched(w) /\ Gen(w) = Gen(v)
                    \/ \E a \in accepted : a[1] = waitEnd[v].code /\ prompts[a[2]].gen = Gen(v)
  BY DEF CodeIsOfThisStage
<1>1. EndSound(v)
  BY DEF ManualInv
<1>2. ASSUME NEW n \in 1..posts, NEW i \in 1..Len(prompts),
             waitEnd[v].code = Typed(n) /\ <<Typed(n), i>> \in accepted /\ prompts[i].gen = Gen(v)
      PROVE  \E a \in accepted : a[1] = waitEnd[v].code /\ prompts[a[2]].gen = Gen(v)
  <2> DEFINE a == <<Typed(n), i>>
  <2>1. a \in accepted /\ a[1] = waitEnd[v].code /\ a[2] = i
    BY <1>2
  <2> HIDE DEF a
  <2> QED BY <1>2, <2>1
<1> QED BY <1>1, <1>2 DEF EndSound

\* A code reaches the wait it was meant for, once, and no other: no wait returns a code
\* of another generation or one that was returned before, and what a person types at a
\* task that waits reaches the prompt it waits at.
THEOREM CodesArrive == ManualSpec => []CodesReachTheirWait
<1>1. ManualInv => CodesReachTheirWait
  BY EndsAreOfTheirStage DEF ManualInv, CodesReachTheirWait
<1> QED BY <1>1, ManualStarts, ManualSteps, PTL DEF ManualSpec

\* The types of the broker and of the race.
THEOREM ManualTypeCorrect == ManualSpec => []ManualTypeOK
<1>1. ManualInv => ManualTypeOK
  <2> SUFFICES ASSUME ManualInv PROVE ManualTypeOK
    OBVIOUS
  <2>1. WaitTypes /\ Len(prompts) \in Nat /\ \A i \in 1..Len(prompts) : prompts[i] \in PromptRec
    BY InvTypes, PromptTypes, ElementOfSeq DEF WaitTypes
  <2>2. Len(prompts) <= MaxPrompts + MaxWaits
    BY <2>1, ManualAssumption DEF WaitTypes
  <2>3. \A i \in 1..Len(prompts) : prompts[i] \in [gen : 1..MaxWaits, code : Codes \cup {NoCode}, live : BOOLEAN]
    BY <2>1 DEF PromptRec
  <2>4. raceAt \in {"off", "looking", "dequeuing", "opening", "collecting", "entering", "waiting"}
    BY <2>1 DEF WaitTypes, Before
  <2> QED BY <2>1, <2>2, <2>3, <2>4 DEF WaitTypes, ManualTypeOK
<1> QED BY <1>1, ManualStarts, ManualSteps, PTL DEF ManualSpec

================================================================================
