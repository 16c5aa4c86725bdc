--------------------------- MODULE FreeTasksProofs ---------------------------
(***************************************************************************)
(* Proofs about the ownership of the Free database (ManagerOwner) and, on   *)
(* top of it, about the task table its managers write (FreeTasks), for      *)
(* every number of processes and tasks, every OwnerTTL and every bound.     *)
(***************************************************************************)
EXTENDS FreeTasks, TLAPS

OwnerRecord  == [id : Managers \cup {NoManager}, epoch : Nat, left : 0 .. OwnerTTL]
CloserStates == [at : {"idle", "asking", "decided", "cleared"}, epoch : Nat]

LEMMA ClosedState == Closed \in CloserStates /\ Closed.at = "idle"
  BY DEF Closed, CloserStates

LEMMA FreeRecord == Free \in OwnerRecord
  BY OwnerAssumption DEF Free, OwnerRecord

LEMMA NextEpochNat ==
  ASSUME OwnerTypeOK, NEW m \in Managers PROVE NextEpoch(m) \in Nat
  BY DEF OwnerTypeOK, NextEpoch

\* Releases keep the shape of `closing'.
LEMMA AskedState ==
  ASSUME NEW p \in {"idle", "asking", "decided", "cleared"}
  PROVE  Asked(p) \in CloserStates /\ Asked(p).at = p
  BY DEF Asked, CloserStates

LEMMA ClosingSet ==
  ASSUME OwnerTypeOK, NEW m \in Managers, NEW c \in Closers, NEW x \in CloserStates
  PROVE  [closing EXCEPT ![m][c] = x] \in [Managers -> [Closers -> CloserStates]]
  BY DEF OwnerTypeOK, CloserStates

LEMMA CloserNames ==
  "end" \in Closers /\ "stop" \in Closers /\ "rollback" \in Closers
  /\ "fail" \in Closers /\ "retry" \in Closers
  BY DEF Closers

-----------------------------------------------------------------------------
(* Type correctness.                                                       *)

\* A claim leaves a well-formed row and flag.
LEMMA ClaimTyped ==
  ASSUME OwnerTypeOK, NEW m \in Managers, ClaimOwner(m)
  PROVE  record' \in OwnerRecord /\ held' \in [Managers -> Nat]
<1>1. CASE UNCHANGED <<record, held>>
  BY <1>1 DEF OwnerTypeOK, OwnerRecord
<1>2. CASE /\ record' = [id |-> m, epoch |-> NextEpoch(m), left |-> OwnerTTL]
           /\ held' = [held EXCEPT ![m] = NextEpoch(m)]
  BY <1>2, NextEpochNat, OwnerAssumption DEF OwnerTypeOK, OwnerRecord
<1> QED BY <1>1, <1>2 DEF ClaimOwner

LEMMA TypeInit == OwnerInit => OwnerTypeOK
  BY ClosedState, FreeRecord DEF OwnerInit, OwnerTypeOK, OwnerRecord, CloserStates

\* Every step of the owner row and the managers keeps their types.
LEMMA TypeStep == OwnerTypeOK /\ [OwnerNext]_ownerVars => OwnerTypeOK'
<1> SUFFICES ASSUME OwnerTypeOK, [OwnerNext]_ownerVars PROVE OwnerTypeOK'
  OBVIOUS
<1> USE DEF OwnerRecord, CloserStates
<1>1. CASE Age
  <2>1. record.left \in 1 .. OwnerTTL /\ record \in OwnerRecord
    BY <1>1, OwnerAssumption DEF Age, OwnerTypeOK
  <2>2. record.left - 1 \in 0 .. OwnerTTL
    BY <2>1, OwnerAssumption
  <2>3. record' \in OwnerRecord
    BY <1>1, <2>1, <2>2 DEF Age
  <2> QED BY <1>1, <2>3 DEF Age, OwnerTypeOK
<1>2. ASSUME NEW m \in Managers, Boot(m) PROVE OwnerTypeOK'
  BY <1>2 DEF Boot, OwnerTypeOK
<1>3. ASSUME NEW m \in Managers, StartClaim(m) PROVE OwnerTypeOK'
  BY <1>3, ClaimTyped DEF StartClaim, SetBatch, OwnerTypeOK
<1>4. ASSUME NEW m \in Managers, StartRefused(m) PROVE OwnerTypeOK'
  BY <1>4, ClosingSet, AskedState, CloserNames DEF StartRefused, Close, OwnerTypeOK
<1>5. ASSUME NEW m \in Managers, Launch(m) PROVE OwnerTypeOK'
  BY <1>5 DEF Launch, SetBatch, OwnerTypeOK
<1>6. ASSUME NEW m \in Managers, StartFails(m) PROVE OwnerTypeOK'
  <2>1. PICK p \in {"idle", "decided"} :
        closing' = [closing EXCEPT ![m] = [closing[m] EXCEPT !["rollback"] = Asked(p),
                                                             !["fail"] = Asked("asking")]]
    BY <1>6 DEF StartFails
  <2>2. closing' \in [Managers -> [Closers -> CloserStates]]
    BY <2>1, AskedState, CloserNames DEF OwnerTypeOK
  <2> QED BY <1>6, <2>2 DEF StartFails, SetBatch, OwnerTypeOK
<1>7. ASSUME NEW m \in Managers, AskIdle(m) PROVE OwnerTypeOK'
  BY <1>7, ClosingSet, AskedState, CloserNames DEF AskIdle, Close, OwnerTypeOK
<1>8. ASSUME NEW m \in Managers, RetryClaim(m) PROVE OwnerTypeOK'
  BY <1>8, ClaimTyped DEF RetryClaim, OwnerTypeOK
<1>9. ASSUME NEW m \in Managers, RetryLaunch(m) PROVE OwnerTypeOK'
  BY <1>9 DEF RetryLaunch, SetBatch, OwnerTypeOK
<1>10. ASSUME NEW m \in Managers, RetryRefused(m) PROVE OwnerTypeOK'
  BY <1>10 DEF RetryRefused, OwnerTypeOK
<1>11. ASSUME NEW m \in Managers, RetryFails(m) PROVE OwnerTypeOK'
  BY <1>11, ClosingSet, AskedState, CloserNames DEF RetryFails, SetBatch, Close, OwnerTypeOK
<1>12. ASSUME NEW m \in Managers, RenewOwner(m) PROVE OwnerTypeOK'
  <2>1. record' \in OwnerRecord
    BY <1>12, OwnerAssumption DEF RenewOwner, OwnerTypeOK
  <2> QED BY <1>12, <2>1 DEF RenewOwner, OwnerTypeOK
<1>13. ASSUME NEW m \in Managers, LastFuture(m) PROVE OwnerTypeOK'
  BY <1>13 DEF LastFuture, SetBatch, OwnerTypeOK
<1>14. ASSUME NEW m \in Managers, BatchEnd(m) PROVE OwnerTypeOK'
  BY <1>14, ClosingSet, AskedState, CloserNames DEF BatchEnd, SetBatch, Close, OwnerTypeOK
<1>15. ASSUME NEW m \in Managers, StopIdle(m) PROVE OwnerTypeOK'
  BY <1>15, ClosingSet, AskedState, CloserNames DEF StopIdle, Close, OwnerTypeOK
<1>16. ASSUME NEW m \in Managers, NEW c \in Closers, ReleaseClear(m, c) PROVE OwnerTypeOK'
  <2> DEFINE x == IF held[m] = 0 THEN Closed ELSE [at |-> "cleared", epoch |-> held[m]]
  <2>1. x \in CloserStates
    BY ClosedState DEF OwnerTypeOK
  <2>2. closing' \in [Managers -> [Closers -> CloserStates]]
    BY <1>16, <2>1, ClosingSet DEF ReleaseClear
  <2> QED BY <1>16, <2>2 DEF ReleaseClear, SetBatch, OwnerTypeOK
<1>17. ASSUME NEW m \in Managers, NEW c \in Closers, ReleaseDelete(m, c) PROVE OwnerTypeOK'
  <2>1. closing' \in [Managers -> [Closers -> CloserStates]]
    BY <1>17, ClosedState, ClosingSet DEF ReleaseDelete
  <2> QED BY <1>17, <2>1, FreeRecord DEF ReleaseDelete, SetBatch, OwnerTypeOK
<1>18. ASSUME NEW m \in Managers, OwnerCrash(m) PROVE OwnerTypeOK'
  BY <1>18, ClosedState, FreeRecord DEF OwnerCrash, Gone, OwnerTypeOK
<1>19. ASSUME NEW m \in Managers, Exit(m) PROVE OwnerTypeOK'
  BY <1>19, ClosedState, FreeRecord DEF Exit, Gone, OwnerTypeOK
<1>20. CASE UNCHANGED ownerVars
  BY <1>20 DEF ownerVars, OwnerTypeOK
<1> QED
  BY <1>1, <1>2, <1>3, <1>4, <1>5, <1>6, <1>7, <1>8, <1>9, <1>10, <1>11, <1>12, <1>13, <1>14, <1>15, <1>16, <1>17, <1>18, <1>19, <1>20
  DEF OwnerNext, ManagerStep

\* Type correctness: every reachable state of the owner row and the managers is
\* well-formed, whatever calls overlap (free_register_owner.py, free_storage_schema.py).
THEOREM OwnerTypeCorrect == OwnerSpec => []OwnerTypeOK
  BY TypeInit, TypeStep, PTL DEF OwnerSpec

-----------------------------------------------------------------------------
(* The owner row and the fence, whatever overlaps.                         *)

\* Only its own release or exit takes a live owner's row away: the step of any
\* other process leaves it alone.
LEMMA SurvivesStep ==
  ASSUME OwnerTypeOK, [OwnerNext]_ownerVars, NEW n \in Managers, record.id = n, OwnerLive
  PROVE  \/ record'.id = n /\ record'.epoch = record.epoch
         \/ record' = Free /\ (closing'[n] # closing[n] \/ life'[n] # life[n])
<1> DEFINE Kept == record'.id = n /\ record'.epoch = record.epoch
           Left == record' = Free /\ (closing'[n] # closing[n] \/ life'[n] # life[n])
<1>1. n # NoManager /\ Up(n) /\ record.left > 0 /\ record \in OwnerRecord
  BY OwnerAssumption DEF OwnerLive, OwnerTypeOK, OwnerRecord
<1>2. ASSUME NEW m \in Managers, ClaimOwner(m) PROVE Kept
  BY <1>1, <1>2 DEF ClaimOwner, Grantable, NextEpoch, OwnerLive
<1>3. ASSUME NEW m \in Managers, NEW c \in Closers, ReleaseDelete(m, c) PROVE Kept \/ Left
  <2>1. CASE Matches(m, closing[m][c].epoch)
    <3>1. m = n
      BY <2>1 DEF Matches
    <3>2. closing[n][c].at = "cleared" /\ closing'[n][c] = Closed
      BY <1>3, <3>1 DEF ReleaseDelete, OwnerTypeOK
    <3> QED BY <1>3, <2>1, <3>2, ClosedState DEF ReleaseDelete
  <2>2. CASE ~Matches(m, closing[m][c].epoch)
    BY <1>3, <2>2 DEF ReleaseDelete
  <2> QED BY <2>1, <2>2
<1>4. ASSUME NEW m \in Managers, Exit(m) PROVE Kept \/ Left
  <2>1. CASE Holding(m)
    BY <1>1, <1>4, <2>1 DEF Exit, Gone, Up, Holding, Matches, OwnerTypeOK
  <2>2. CASE ~Holding(m)
    BY <1>4, <2>2 DEF Exit
  <2> QED BY <2>1, <2>2
<1>5. CASE record' = record
  BY <1>5
<1>6. CASE record' = [record EXCEPT !.left = record.left - 1] \/ record' = [record EXCEPT !.left = OwnerTTL]
  BY <1>1, <1>6 DEF OwnerRecord
<1> QED
  BY <1>2, <1>3, <1>4, <1>5, <1>6
  DEF OwnerNext, ManagerStep, Age, Boot, StartClaim, StartRefused, Launch, StartFails, AskIdle,
      RetryClaim, RetryLaunch, RetryRefused, RetryFails, RenewOwner, LastFuture, BatchEnd,
      StopIdle, ReleaseClear, OwnerCrash, ownerVars

\* A late renewal, release or claim of another process never touches the row of a
\* live owner (renew_manager_owner, release_manager_owner, acquire_manager_owner).
THEOREM LiveRowSurvives == OwnerSpec => RecordSurvives
<1>1. OwnerTypeOK /\ [OwnerNext]_ownerVars =>
        [\A m \in Managers :
           record.id = m /\ OwnerLive =>
             \/ record'.id = m /\ record'.epoch = record.epoch
             \/ record' = Free /\ (closing'[m] # closing[m] \/ life'[m] # life[m])]_ownerVars
  BY SurvivesStep
<1> QED BY <1>1, OwnerTypeCorrect, PTL DEF OwnerSpec, RecordSurvives

\* Whoever lost the row does not get it back before it has released.
LEMMA FenceStep ==
  ASSUME OwnerTypeOK, [OwnerNext]_ownerVars, NEW n \in Managers, Fenced(n), held'[n] # 0
  PROVE  Fenced(n)'
<1> USE DEF Fenced, Matches
<1>1. record \in OwnerRecord /\ held[n] # 0
  BY DEF OwnerTypeOK, OwnerRecord
<1>2. ASSUME NEW m \in Managers, ClaimOwner(m) PROVE Fenced(n)'
  <2>1. CASE m = n
    BY <1>2, <2>1 DEF ClaimOwner, Holding
  <2>2. CASE m # n
    BY <1>2, <2>2 DEF ClaimOwner, OwnerTypeOK
  <2> QED BY <2>1, <2>2
<1>3. ASSUME NEW m \in Managers, NEW c \in Closers, ReleaseDelete(m, c) PROVE Fenced(n)'
  BY <1>1, <1>3, OwnerAssumption DEF ReleaseDelete, Free
<1>4. ASSUME NEW m \in Managers, Gone(m), record' = record \/ record' = Free PROVE Fenced(n)'
  BY <1>1, <1>4, OwnerAssumption DEF Gone, Free, OwnerTypeOK
<1>5. CASE record' = record /\ held' = held
  BY <1>5
<1>6. ASSUME NEW m \in Managers, NEW c \in Closers, ReleaseClear(m, c) PROVE Fenced(n)'
  BY <1>6 DEF ReleaseClear, OwnerTypeOK
<1>7. CASE /\ held' = held
           /\ \/ record' = [record EXCEPT !.left = record.left - 1]
              \/ record' = [record EXCEPT !.left = OwnerTTL]
  BY <1>1, <1>7 DEF OwnerRecord
<1> QED
  BY <1>2, <1>3, <1>4, <1>5, <1>6, <1>7
  DEF OwnerNext, ManagerStep, Age, Boot, StartClaim, StartRefused, Launch, StartFails, AskIdle,
      RetryClaim, RetryLaunch, RetryRefused, RetryFails, RenewOwner, LastFuture, BatchEnd,
      StopIdle, OwnerCrash, Exit, ownerVars

\* A superseded manager is fenced for good: only the release that gives up its old
\* claim lets it ask again (_acquire_runtime_owner, _owner_current).
THEOREM FenceHolds == OwnerSpec => FencedUntilReleased
<1>1. OwnerTypeOK /\ [OwnerNext]_ownerVars =>
        [\A m \in Managers : Fenced(m) /\ held'[m] # 0 => Fenced(m)']_ownerVars
  BY FenceStep
<1> QED BY <1>1, OwnerTypeCorrect, PTL DEF OwnerSpec, FencedUntilReleased

-----------------------------------------------------------------------------
(* One batch at a time, when calls do not overlap and nothing is retried.  *)

\* Some release of the manager has still to clear its claim.
Waiting(m) == \E c \in Closers : closing[m][c].at \in {"asking", "decided"}

\* The strengthening: a manager with a batch has no release in flight and owns a live
\* row; one without a batch has no claim, or a release that is going to clear it.
Calm(m) ==
    /\ ~retrying[m]
    /\ Up(m) \/ (batch[m] = "none" /\ held[m] = 0)
    /\ batch[m] # "none" => Quiet(m) /\ Holding(m) /\ record.left > 0
    /\ beating[m] => batch[m] = "running"
    /\ batch[m] = "none" /\ held[m] # 0 => Waiting(m)

CalmInv ==
    /\ OwnerTypeOK
    /\ record.id \in Managers => record.epoch > 0
    /\ \A m \in Managers : Calm(m)

\* No manager of a fresh database has anything.
LEMMA CalmInit == OwnerInit => CalmInv
  BY TypeInit, OwnerAssumption DEF OwnerInit, CalmInv, Calm, Free

\* A release that has not cleared its claim is in flight.
LEMMA NotQuiet ==
  ASSUME OwnerTypeOK, NEW m \in Managers, Waiting(m) PROVE ~Quiet(m)
  BY ClosedState DEF Waiting, Quiet

\* A manager whose own variables a step leaves alone stays calm, if the step spares a
\* live row that names it.
LEMMA CalmKept ==
  ASSUME NEW n \in Managers, Calm(n),
         retrying'[n] = retrying[n], life'[n] = life[n], batch'[n] = batch[n],
         held'[n] = held[n], closing'[n] = closing[n], beating'[n] = beating[n],
         batch[n] # "none" => record' = record
  PROVE  Calm(n)'
  BY DEF Calm, Up, Quiet, Holding, Matches, Waiting

\* Another manager's claim is not granted while n runs a batch.
LEMMA ClaimSpares ==
  ASSUME CalmInv, NEW m \in Managers, NEW n \in Managers, m # n, ClaimOwner(m),
         batch[n] # "none"
  PROVE  record' = record
<1>1. OwnerLive /\ record.id = n
  BY OwnerAssumption DEF CalmInv, Calm, Holding, Matches, OwnerLive
<1>2. ~Grantable(m)
  BY <1>1, OwnerAssumption DEF Grantable
<1> QED BY <1>2 DEF ClaimOwner

\* No other manager's release matches the row of one with a batch.
LEMMA ReleaseSpares ==
  ASSUME CalmInv, NEW m \in Managers, NEW n \in Managers, m # n, NEW e,
         batch[n] # "none"
  PROVE  ~Matches(m, e)
  BY DEF CalmInv, Calm, Holding, Matches

\* The epoch of an owner is positive.
LEMMA EpochStep ==
  ASSUME CalmInv, [OwnerNext]_ownerVars PROVE (record.id \in Managers => record.epoch > 0)'
<1>1. record \in OwnerRecord /\ (record.id \in Managers => record.epoch > 0)
  BY DEF CalmInv, OwnerTypeOK, OwnerRecord
<1>2. ASSUME NEW m \in Managers, ClaimOwner(m) PROVE (record.id \in Managers => record.epoch > 0)'
  <2>1. NextEpoch(m) > 0
    BY <1>1 DEF NextEpoch, OwnerRecord
  <2> QED BY <1>1, <1>2, <2>1 DEF ClaimOwner
<1>3. record' = Free => (record.id \in Managers => record.epoch > 0)'
  BY OwnerAssumption DEF Free
<1>4. record' = [record EXCEPT !.left = record.left - 1] \/ record' = [record EXCEPT !.left = OwnerTTL]
      => (record.id \in Managers => record.epoch > 0)'
  BY <1>1 DEF OwnerRecord
<1>5. record' = record => (record.id \in Managers => record.epoch > 0)'
  BY <1>1
<1> QED
  BY <1>2, <1>3, <1>4, <1>5
  DEF OwnerNext, ManagerStep, Age, Boot, StartClaim, StartRefused, Launch, StartFails, AskIdle,
      RetryClaim, RetryLaunch, RetryRefused, RetryFails, RenewOwner, LastFuture, BatchEnd,
      StopIdle, ReleaseClear, ReleaseDelete, OwnerCrash, Exit, ownerVars

\* Every step keeps it, when calls of one manager do not overlap, heartbeats are in time and
\* nothing is retried.
LEMMA CalmStep ==
  ASSUME Sequential, OwnerPunctual, ~Retries, CalmInv, [OwnerNext]_ownerVars
  PROVE  CalmInv'
<1>1. OwnerTypeOK'
  BY TypeStep DEF CalmInv
<1>2. (record.id \in Managers => record.epoch > 0)'
  BY EpochStep
<1> SUFFICES ASSUME NEW n \in Managers PROVE Calm(n)'
  BY <1>1, <1>2 DEF CalmInv
<1>3. Calm(n) /\ OwnerTypeOK /\ record \in OwnerRecord
  BY DEF CalmInv, OwnerTypeOK, OwnerRecord
<1> USE DEF Up
<1>4. CASE Age
  <2>1. batch[n] # "none" => record.left > 1 /\ record'.left = record.left - 1
                             /\ record'.id = record.id /\ record'.epoch = record.epoch
    BY <1>3, <1>4 DEF Age, Calm, Holding, Matches, Tended, Busy, OwnerRecord
  <2>2. record.left \in Nat
    BY <1>3, OwnerAssumption DEF OwnerRecord
  <2> QED BY <1>3, <1>4, <2>1, <2>2 DEF Age, Calm, Quiet, Holding, Matches, Waiting
<1>5. ASSUME NEW m \in Managers, Boot(m) PROVE Calm(n)'
  BY <1>3, <1>5 DEF Boot, Calm, Quiet, Holding, Matches, Waiting, OwnerTypeOK
<1>6. ASSUME NEW m \in Managers, StartClaim(m) PROVE Calm(n)'
  <2>1. Calm(m) /\ Quiet(m)
    BY <1>6 DEF StartClaim, CalmInv
  <2>2. held[m] = 0
    BY <1>3, <1>6, <2>1, NotQuiet DEF Calm, StartClaim, Busy
  <2>3. CASE m = n
    <3>1. NextEpoch(m) \in Nat /\ NextEpoch(m) > 0
      BY NextEpochNat, <1>3 DEF NextEpoch, CalmInv, OwnerRecord
    <3> QED BY <1>3, <1>6, <2>1, <2>2, <2>3, <3>1, OwnerAssumption
            DEF StartClaim, ClaimOwner, SetBatch, Calm, Quiet, Holding, Matches, OwnerTypeOK
  <2>4. CASE m # n
    BY <1>3, <1>6, <2>4, CalmKept, ClaimSpares DEF StartClaim, ClaimOwner, SetBatch, OwnerTypeOK
  <2> QED BY <2>3, <2>4
<1>7. ASSUME NEW m \in Managers, StartRefused(m) PROVE Calm(n)'
  <2>1. CASE m = n
    <3>1. closing'[n]["fail"].at = "asking"
      BY <1>3, <1>7, <2>1, AskedState, CloserNames DEF StartRefused, Close, OwnerTypeOK
    <3>2. Waiting(n)'
      BY <3>1, CloserNames DEF Waiting
    <3> QED BY <1>3, <1>7, <2>1, <3>2 DEF StartRefused, Calm, Busy
  <2>2. CASE m # n
    BY <1>3, <1>7, <2>2, CalmKept DEF StartRefused, Close, OwnerTypeOK
  <2> QED BY <2>1, <2>2
<1>8. ASSUME NEW m \in Managers, Launch(m) PROVE Calm(n)'
  BY <1>3, <1>8, CalmKept DEF Launch, SetBatch, Calm, Quiet, Holding, Matches, Waiting, OwnerTypeOK
<1>9. ASSUME NEW m \in Managers, StartFails(m) PROVE Calm(n)'
  <2>1. CASE m = n
    <3>1. closing'[n]["fail"].at = "asking"
      BY <1>3, <1>9, <2>1, AskedState, CloserNames DEF StartFails, OwnerTypeOK
    <3>2. Waiting(n)'
      BY <3>1, CloserNames DEF Waiting
    <3>3. ~beating[n]' /\ batch'[n] = "none"
      BY <1>3, <1>9, <2>1, AskedState DEF StartFails, SetBatch, Calm, OwnerTypeOK
    <3> QED BY <1>3, <1>9, <2>1, <3>2, <3>3 DEF StartFails, Calm
  <2>2. CASE m # n
    BY <1>3, <1>9, <2>2, CalmKept DEF StartFails, SetBatch, OwnerTypeOK
  <2> QED BY <2>1, <2>2
<1>10. ASSUME NEW m \in Managers, AskIdle(m) PROVE Calm(n)'
  <2>1. CASE m = n
    <3>1. batch[n] = "none"
      BY <1>3, <1>10, <2>1, ClosedState, CloserNames DEF AskIdle, Calm, Quiet
    <3>2. closing'[n]["fail"].at = "decided"
      BY <1>3, <1>10, <2>1, <3>1, AskedState, CloserNames DEF AskIdle, Close, OwnerTypeOK
    <3>3. Waiting(n)'
      BY <3>2, CloserNames DEF Waiting
    <3> QED BY <1>3, <1>10, <2>1, <3>1, <3>3 DEF AskIdle, Calm
  <2>2. CASE m # n
    BY <1>3, <1>10, <2>2, CalmKept DEF AskIdle, Close, OwnerTypeOK
  <2> QED BY <2>1, <2>2
<1>11. ASSUME NEW m \in Managers, RetryClaim(m) \/ RetryLaunch(m) \/ RetryRefused(m) \/ RetryFails(m)
       PROVE  FALSE
  BY <1>11 DEF CalmInv, Calm, RetryClaim, RetryLaunch, RetryRefused, RetryFails
<1>12. ASSUME NEW m \in Managers, RenewOwner(m) PROVE Calm(n)'
  <2>1. Holding(m)
    BY <1>12 DEF RenewOwner, CalmInv, Calm
  <2>2. record' = [record EXCEPT !.left = OwnerTTL] /\ beating' = beating
    BY <1>12, <2>1, <1>3 DEF RenewOwner, Holding, Fenced
  <2>3. record'.id = record.id /\ record'.epoch = record.epoch /\ record'.left > 0
    BY <1>3, <2>2, OwnerAssumption DEF OwnerRecord
  <2> QED BY <1>3, <1>12, <2>2, <2>3 DEF RenewOwner, Calm, Quiet, Holding, Matches, Waiting
<1>13. ASSUME NEW m \in Managers, LastFuture(m) PROVE Calm(n)'
  BY <1>3, <1>13, CalmKept DEF LastFuture, SetBatch, Calm, Quiet, Holding, Matches, Waiting, OwnerTypeOK
<1>14. ASSUME NEW m \in Managers, BatchEnd(m) PROVE Calm(n)'
  <2>1. CASE m = n
    <3>1. closing'[n]["end"].at = "decided"
      BY <1>3, <1>14, <2>1, AskedState, CloserNames DEF BatchEnd, Close, OwnerTypeOK
    <3>2. Waiting(n)'
      BY <3>1, CloserNames DEF Waiting
    <3> QED BY <1>3, <1>14, <2>1, <3>2 DEF BatchEnd, SetBatch, Calm, OwnerTypeOK
  <2>2. CASE m # n
    BY <1>3, <1>14, <2>2, CalmKept DEF BatchEnd, SetBatch, Close, OwnerTypeOK
  <2> QED BY <2>1, <2>2
<1>15. ASSUME NEW m \in Managers, StopIdle(m) PROVE Calm(n)'
  <2>1. CASE m = n
    <3>1. closing'[n]["stop"].at = "decided"
      BY <1>3, <1>15, <2>1, AskedState, CloserNames DEF StopIdle, Close, OwnerTypeOK
    <3>2. Waiting(n)'
      BY <3>1, CloserNames DEF Waiting
    <3> QED BY <1>3, <1>15, <2>1, <3>2 DEF StopIdle, SetBatch, Calm, OwnerTypeOK
  <2>2. CASE m # n
    BY <1>3, <1>15, <2>2, CalmKept DEF StopIdle, Close, OwnerTypeOK
  <2> QED BY <2>1, <2>2
<1>16. ASSUME NEW m \in Managers, NEW c \in Closers, ReleaseClear(m, c) PROVE Calm(n)'
  <2>1. batch[m] = "none"
    BY <1>16, ClosedState DEF ReleaseClear, CalmInv, Calm, Quiet
  <2>2. batch' = batch
    BY <1>3, <1>16, <2>1 DEF ReleaseClear, SetBatch, OwnerTypeOK
  <2>3. CASE m = n
    <3>1. held'[n] = 0
      BY <1>3, <1>16, <2>3 DEF ReleaseClear, OwnerTypeOK
    <3> QED BY <1>3, <1>16, <2>1, <2>2, <2>3, <3>1 DEF ReleaseClear, Calm
  <2>4. CASE m # n
    BY <1>3, <1>16, <2>2, <2>4, CalmKept DEF ReleaseClear, OwnerTypeOK
  <2> QED BY <2>3, <2>4
<1>17. ASSUME NEW m \in Managers, NEW c \in Closers, ReleaseDelete(m, c) PROVE Calm(n)'
  <2>1. batch[m] = "none"
    BY <1>17, ClosedState DEF ReleaseDelete, CalmInv, Calm, Quiet
  <2>2. batch' = batch
    BY <1>3, <1>17, <2>1 DEF ReleaseDelete, SetBatch, OwnerTypeOK
  <2>3. CASE m = n
    <3>1. ASSUME held[n] # 0 PROVE Waiting(n)'
      <4>1. PICK d \in Closers : closing[n][d].at \in {"asking", "decided"}
        BY <1>3, <2>1, <2>3, <3>1 DEF Calm, Waiting
      <4>2. d # c /\ closing'[n][d] = closing[n][d]
        BY <1>3, <1>17, <2>3, <4>1 DEF ReleaseDelete, OwnerTypeOK
      <4> QED BY <4>1, <4>2 DEF Waiting
    <3> QED BY <1>3, <1>17, <2>1, <2>2, <2>3, <3>1 DEF ReleaseDelete, Calm
  <2>4. CASE m # n
    <3>1. batch[n] # "none" => record' = record
      BY <1>17, <2>4, ReleaseSpares DEF ReleaseDelete
    <3> QED BY <1>3, <1>17, <2>2, <2>4, <3>1, CalmKept DEF ReleaseDelete, OwnerTypeOK
  <2> QED BY <2>3, <2>4
<1>18. ASSUME NEW m \in Managers, Gone(m), record' = record \/ (Holding(m) /\ record' = Free)
       PROVE  Calm(n)'
  <2>1. CASE m = n
    BY <1>3, <1>18, <2>1 DEF Gone, Calm, OwnerTypeOK
  <2>2. CASE m # n
    <3>1. batch[n] # "none" => record' = record
      BY <1>18, <2>2, ReleaseSpares DEF Holding
    <3> QED BY <1>3, <1>18, <2>2, <3>1, CalmKept DEF Gone, OwnerTypeOK
  <2> QED BY <2>1, <2>2
<1>19. CASE UNCHANGED ownerVars
  BY <1>3, <1>19, CalmKept DEF ownerVars
<1> QED
  BY <1>4, <1>5, <1>6, <1>7, <1>8, <1>9, <1>10, <1>11, <1>12, <1>13, <1>14, <1>15, <1>16,
     <1>17, <1>18, <1>19
  DEF OwnerNext, ManagerStep, OwnerCrash, Exit

\* With heartbeats in time, calls that do not overlap and no retries, a manager that
\* runs a batch is the one the owner row names, among any number of processes.
THEOREM OwnedBatch ==
  ASSUME Sequential, OwnerPunctual, ~Retries PROVE OwnerSpec => []BatchIsOwned
<1>1. CalmInv => BatchIsOwned
  BY DEF CalmInv, Calm, BatchIsOwned
<1>2. CalmInv /\ [OwnerNext]_ownerVars => CalmInv'
  BY CalmStep
<1> QED BY <1>1, <1>2, CalmInit, PTL DEF OwnerSpec

\* ... and so no two of them run batches at a time.
THEOREM SingleBatch ==
  ASSUME Sequential, OwnerPunctual, ~Retries PROVE OwnerSpec => []OneBatch
<1>1. BatchIsOwned => OneBatch
  BY DEF BatchIsOwned, OneBatch, Holding, Matches
<1> QED BY <1>1, OwnedBatch, PTL

-----------------------------------------------------------------------------
(***************************************************************************)
(* The task table.  What a step may do to a row is said once per part of    *)
(* FreeInv: TaskKept and EndedKept for the rows a step does not touch,      *)
(* CopyOfOther for the copies of processes that did not create the task,    *)
(* then a lemma per action.                                                 *)
(***************************************************************************)

Jobs == {"none", "created", "rolledback", "queued", "working", "halting", "leaving", "ended"}
Live == {"created", "queued", "working", "halting"}
Starting == {"created", "rolledback"}
Running == {"queued", "working", "halting", "leaving"}

\* A manager that has not recovered yet, or not started, has no tasks of its own.
ManagerSound(m) ==
    /\ loaded[m] => batch[m] = "none"
    /\ loaded[m] \/ life[m] = "off" => \A t \in FreeTaskIds : home[t] # m
    /\ drained[m] => batch[m] = "draining"

\* Nobody has heard of a task before it is created.
Fresh(t) ==
    home[t] = NoManager =>
        /\ stored[t] = "absent" /\ t \notin deleted /\ Idle(t)
        /\ \A n \in Managers : local[n][t] = "absent" /\ t \notin known[n]

\* A worker is where the batch of its manager is, and has a result when it is over.
JobPlace(t) ==
    /\ job[t] = "none" <=> home[t] = NoManager
    /\ \A m \in Managers : home[t] = m =>
          /\ job[t] \in Starting => Up(m) /\ batch[m] = "starting" /\ local[m][t] # "absent"
          /\ job[t] \in Running => Up(m) /\ batch[m] = "running"
          /\ job[t] \in {"leaving", "ended"} => local[m][t] \in Finished \cup {"absent"}

\* A row is only dropped by whoever deletes it, or by the rollback of its start.
DroppedByOwn(t) ==
    \A n \in Managers :
        t \in known[n] /\ local[n][t] = "absent" =>
            t \in deleted \/ (n = home[t] /\ job[t] = "ended")

\* While the worker lives another process has only seen the end that is stored.
EndIsStored(t) ==
    t \notin deleted /\ job[t] \in Live =>
        \A n \in Managers : n # home[t] /\ local[n][t] \in Finished => stored[t] \in Finished

\* A task that was never saved is known to its own manager alone.
NeverSaved(t) ==
    \A m \in Managers :
        home[t] = m /\ t \notin deleted /\ stored[t] = "absent" /\ local[m][t] # "absent" =>
            \A n \in Managers : n # m => local[n][t] = "absent"

\* A full save of the manager's copy is still to come, as far as one of them may fail.
SaveToCome(m) ==
    \/ batch[m] = "running"
    \/ batch[m] = "draining" /\ ~drained[m] /\ (~Idle(m) \/ lostSaves >= 1)
    \/ batch[m] = "draining" /\ drained[m] /\ ~Idle(m) /\ lostSaves >= 1

\* What became of a task is in the table, or will be.
EndIsTold(t) ==
    \A m \in Managers :
        /\ home[t] = m /\ job[t] = "ended" /\ t \notin promoted \cup deleted /\ lostSaves <= 1
        /\ local[m][t] # "absent" /\ stored[t] \notin {local[m][t], "absent"}
        => SaveToCome(m)

\* Nothing disturbs the manager m.
Alone(m) == Up(m) /\ lostSaves = 0 /\ requests = 0 /\ \A n \in Managers : n # m => life[n] = "off"

\* The two checkpoints of a rollback save the row, end it and delete it.
RollsBack(t) ==
    \A m \in Managers : home[t] = m /\ Alone(m) =>
        /\ job[t] = "created" => ~Idle(m) \/ (stored[t] # "absent" /\ t \in known[m])
        /\ job[t] = "rolledback" =>
              /\ t \in known[m] /\ stored[t] # "absent" /\ local[m][t] \in Finished
              /\ ~Idle(m) \/ stored[t] \in Finished
        /\ local[m][t] = "absent" =>
              /\ job[t] = "ended"
              /\ \/ stored[t] = "absent"
                 \/ /\ ~Idle(m) /\ batch[m] = "starting"
                    /\ t \in known[m] /\ stored[t] \in Finished

TaskInv(t) ==
    /\ Fresh(t) /\ JobPlace(t) /\ DroppedByOwn(t) /\ EndIsStored(t) /\ NeverSaved(t)
    /\ EndIsTold(t) /\ RollsBack(t)

FreeInv ==
    /\ CalmInv /\ FreeTypeOK
    /\ \A m \in Managers : ManagerSound(m)
    /\ \A t \in FreeTaskIds : TaskInv(t)

\* A fresh table and managers that have not started satisfy the invariant.
LEMMA RowsStart == FreeInit => FreeInv
<1> SUFFICES ASSUME FreeInit PROVE FreeInv
  OBVIOUS
<1>1. OwnerInit /\ CalmInv
  BY CalmInit DEF FreeInit
<1>2. FreeTypeOK
  BY FreeTaskAssumption DEF FreeInit, FreeTypeOK, Nothing, Status
<1>3. \A m \in Managers : ManagerSound(m)
  BY OwnerAssumption DEF FreeInit, ManagerSound
<1>4. \A t \in FreeTaskIds : TaskInv(t)
  BY OwnerAssumption DEF FreeInit, OwnerInit, TaskInv, Fresh, JobPlace, DroppedByOwn, EndIsStored, NeverSaved,
     EndIsTold, RollsBack, Idle, Savers, Nothing, Live, Starting, Running
<1> QED BY <1>1, <1>2, <1>3, <1>4 DEF FreeInv

\* A task with a worker has a manager.
LEMMA HomeOf ==
  ASSUME FreeInv, NEW t \in FreeTaskIds
  PROVE  /\ home[t] \in Managers \cup {NoManager} /\ job[t] \in Jobs
         /\ job[t] # "none" <=> home[t] \in Managers
<1>1. TaskInv(t) /\ FreeTypeOK
  BY DEF FreeInv
<1> QED BY <1>1, OwnerAssumption DEF TaskInv, JobPlace, FreeTypeOK, Jobs

\* The owner's part of a step.
LEMMA OwnerPart == FreeInv /\ [FreeNext]_freeVars => [OwnerNext]_ownerVars
<1> SUFFICES ASSUME FreeInv, FreeNext PROVE [OwnerNext]_ownerVars
  BY DEF freeVars
<1>1. ASSUME NEW m \in Managers,
             Boot(m) \/ StartClaim(m) \/ Launch(m) \/ StartFails(m) \/ LastFuture(m) \/ BatchEnd(m) \/ OwnerCrash(m)
             \/ Exit(m) \/ StartRefused(m) \/ AskIdle(m) \/ RenewOwner(m) \/ StopIdle(m)
      PROVE  OwnerNext
  BY <1>1 DEF OwnerNext, ManagerStep
<1>2. ASSUME NEW m \in Managers, NEW c \in Closers, ReleaseClear(m, c) \/ ReleaseDelete(m, c) PROVE OwnerNext
  BY <1>2 DEF OwnerNext, ManagerStep
<1>3. ASSUME NEW m \in Managers,
             LoadTasks(m) \/ RecoverTasks(m) \/ ClaimForStart(m) \/ SubmitTasks(m)
             \/ MarkRolledBack(m) \/ DropRolledBack(m) \/ GiveUpStart(m)
             \/ Checkpoint(m) \/ EndBatch(m) \/ StopTasks(m) \/ LeaveProcess(m) \/ OwnerAlone(m)
      PROVE  [OwnerNext]_ownerVars
  BY <1>1, <1>2, <1>3 DEF LoadTasks, RecoverTasks, ClaimForStart, SubmitTasks, MarkRolledBack, DropRolledBack,
     GiveUpStart, Checkpoint, EndBatch, StopTasks, LeaveProcess, OwnerAlone
<1>4. ASSUME NEW m \in Managers, NEW tasks \in SUBSET FreeTaskIds, CreateTasks(m, tasks) PROVE [OwnerNext]_ownerVars
  BY <1>4 DEF CreateTasks
<1>5. ASSUME NEW m \in Managers, NEW t \in FreeTaskIds, DeleteTask(m, t) PROVE [OwnerNext]_ownerVars
  BY <1>5 DEF DeleteTask
<1>6. ASSUME NEW s \in Savers, WriteSave(s) \/ DropSave(s) \/ LoseSave(s) PROVE [OwnerNext]_ownerVars
  BY <1>6 DEF WriteSave, DropSave, LoseSave
<1>7. ASSUME NEW t \in FreeTaskIds, BeginWork(t) \/ PromoteTask(t) PROVE [OwnerNext]_ownerVars
  BY <1>7 DEF BeginWork, PromoteTask
<1>8. ASSUME NEW t \in FreeTaskIds, NEW outcome \in Outcomes, EndWork(t, outcome) PROVE [OwnerNext]_ownerVars
  BY <1>8 DEF EndWork
<1>9. Age => OwnerNext
  BY DEF OwnerNext
<1>10. ASSUME NEW t \in FreeTaskIds, FutureDone(t) PROVE [OwnerNext]_ownerVars
  <2>1. home[t] \in Managers
    BY <1>10, HomeOf DEF FutureDone
  <2> QED BY <1>1, <1>10, <2>1 DEF FutureDone
<1> QED BY <1>10, <1>3, <1>4, <1>5, <1>6, <1>7, <1>8, <1>9 DEF FreeNext

-----------------------------------------------------------------------------
(* The helpers of the actions, and type correctness.                       *)

\* A manager sets the status of some tasks.
LEMMA SetRows ==
  ASSUME FreeTypeOK, NEW m \in Managers, NEW tasks, NEW status \in Status, Set(m, tasks, status)
  PROVE  /\ local' \in [Managers -> [FreeTaskIds -> Status]]
         /\ \A n \in Managers, u \in FreeTaskIds :
               local'[n][u] = IF n = m /\ u \in tasks THEN status ELSE local[n][u]
<1> DEFINE row == [t \in FreeTaskIds |-> IF t \in tasks THEN status ELSE local[m][t]]
<1>1. local \in [Managers -> [FreeTaskIds -> Status]]
  BY DEF FreeTypeOK
<1>2. row \in [FreeTaskIds -> Status]
  BY <1>1
<1>3. local' = [local EXCEPT ![m] = row]
  BY DEF Set
<1> QED BY <1>1, <1>2, <1>3

\* Asking for a save changes the state of its caller only.
LEMMA AskRows ==
  ASSUME FreeTypeOK, NEW s \in Savers, Ask(s)
  PROVE  /\ saving' \in [Savers -> {"idle", "asked"}] /\ saving'[s] = "asked"
         /\ \A r \in Savers : r # s => saving'[r] = saving[r]
  BY DEF FreeTypeOK, Ask

\* Workers and managers are told apart.
LEMMA SaverSets ==
  /\ \A t \in FreeTaskIds : t \in Savers /\ t \notin Managers
  /\ \A m \in Managers : m \in Savers
  BY FreeTaskAssumption DEF Savers

\* Which statuses are ends.
LEMMA StatusSets ==
  /\ Finished \subseteq Status /\ {"queued", "running", "absent", "stopped", "success", "failed"} \subseteq Status
  /\ {"stopped", "success", "failed"} \subseteq Finished
  /\ "queued" \notin Finished /\ "running" \notin Finished /\ "absent" \notin Finished
  /\ Outcomes \subseteq Status
  BY FreeTaskAssumption DEF Status, Finished

\* Who asks for a save has a manager to write it.
LEMMA WriterIs ==
  ASSUME FreeInv, NEW s \in Savers, saving[s] = "asked"
  PROVE  Writer(s) \in Managers
<1>1. CASE s \in Managers
  BY <1>1 DEF Writer
<1>2. CASE s \notin Managers
  <2>1. s \in FreeTaskIds
    BY <1>2 DEF Savers
  <2>2. TaskInv(s) /\ home[s] \in Managers \cup {NoManager}
    BY <2>1, HomeOf DEF FreeInv
  <2> QED BY <1>2, <2>2 DEF TaskInv, Fresh, Idle, Writer
<1> QED BY <1>1, <1>2

\* The copy of a task is a status.
LEMMA CopyIs ==
  ASSUME FreeTypeOK, NEW m \in Managers, NEW t \in FreeTaskIds
  PROVE  local[m][t] \in Status /\ stored[t] \in Status
  BY DEF FreeTypeOK

\* What a save does: tasks of the snapshot lose to a finished row, or are written.
LEMMA SaveRows ==
  ASSUME FreeTypeOK, NEW s \in Savers, WriteSave(s), Writer(s) \in Managers
  PROVE  /\ stored' \in [FreeTaskIds -> Status] /\ local' \in [Managers -> [FreeTaskIds -> Status]]
         /\ known' \in [Managers -> SUBSET FreeTaskIds]
         /\ \A t \in FreeTaskIds :
              LET m == Writer(s)
              IN  /\ t \in Snapshot(s) => local[m][t] # "absent"
                  /\ t \in Pruned(s) => /\ s \in Managers /\ t \in known[s] /\ local[s][t] = "absent"
                                        /\ stored[t] \in Finished
                  /\ stored'[t] = IF t \in Pruned(s) THEN "absent"
                                  ELSE IF t \in Snapshot(s) /\ (stored[t] \notin Finished \/ stored[t] = local[m][t])
                                       THEN local[m][t] ELSE stored[t]
                  /\ local'[m][t] = IF t \in Snapshot(s) THEN stored'[t] ELSE local[m][t]
                  /\ t \in known'[m] <=> (t \in known[m] \cup Snapshot(s) /\ t \notin Pruned(s))
                  /\ \A n \in Managers : n # m => /\ local'[n][t] = local[n][t]
                                                  /\ t \in known'[n] => t \in known[n]
<1> DEFINE m == Writer(s)
           written == {t \in Snapshot(s) : ~Wins(m, t)}
<1>1. /\ stored \in [FreeTaskIds -> Status] /\ local \in [Managers -> [FreeTaskIds -> Status]]
      /\ known \in [Managers -> SUBSET FreeTaskIds] /\ m \in Managers
  BY DEF FreeTypeOK
<1>2. /\ stored' = [t \in FreeTaskIds |-> IF t \in Pruned(s) THEN "absent"
                                            ELSE IF t \in written THEN local[m][t]
                                            ELSE stored[t]]
      /\ local' = [local EXCEPT ![m] = [t \in FreeTaskIds |-> IF t \in Snapshot(s) THEN stored'[t] ELSE local[m][t]]]
      /\ known' = [n \in Managers |-> IF n = m THEN (known[m] \cup Snapshot(s)) \ Pruned(s) ELSE known[n] \ written]
  BY DEF WriteSave
<1>3. \A t \in FreeTaskIds : /\ t \in Snapshot(s) => local[m][t] # "absent"
                             /\ t \in Pruned(s) => /\ s \in Managers /\ t \in known[s] /\ local[s][t] = "absent"
                                                   /\ stored[t] \in Finished
                             /\ t \in written <=> t \in Snapshot(s) /\ (stored[t] \notin Finished \/ stored[t] = local[m][t])
  BY DEF Snapshot, Pruned, Wins
<1>4. Snapshot(s) \subseteq FreeTaskIds
  BY DEF Snapshot
<1> HIDE DEF m, written
<1>5. stored' \in [FreeTaskIds -> Status]
  BY <1>1, <1>2, StatusSets
<1>6. [t \in FreeTaskIds |-> IF t \in Snapshot(s) THEN stored'[t] ELSE local[m][t]] \in [FreeTaskIds -> Status]
  BY <1>1, <1>5
<1>7. /\ local' \in [Managers -> [FreeTaskIds -> Status]]
      /\ \A t \in FreeTaskIds : /\ local'[m][t] = IF t \in Snapshot(s) THEN stored'[t] ELSE local[m][t]
                                /\ \A n \in Managers : n # m => local'[n][t] = local[n][t]
  BY <1>1, <1>2, <1>6
<1>8. /\ known' \in [Managers -> SUBSET FreeTaskIds]
      /\ \A t \in FreeTaskIds : /\ t \in known'[m] <=> (t \in known[m] \cup Snapshot(s) /\ t \notin Pruned(s))
                                /\ \A n \in Managers : n # m /\ t \in known'[n] => t \in known[n]
  BY <1>1, <1>2, <1>4
<1>9. \A t \in FreeTaskIds :
         stored'[t] = IF t \in Pruned(s) THEN "absent"
                      ELSE IF t \in Snapshot(s) /\ (stored[t] \notin Finished \/ stored[t] = local[m][t])
                           THEN local[m][t] ELSE stored[t]
  BY <1>2, <1>3
<1> QED BY <1>3, <1>5, <1>7, <1>8, <1>9 DEF m

-----------------------------------------------------------------------------
RecoveredStatus(x) == IF x = "queued" THEN "stopped" ELSE IF x = "running" THEN "failed" ELSE x

\* A recovery ends what it loaded, or nothing.
LEMMA RecoveredRows ==
  ASSUME NEW m \in Managers, RecoverTasks(m)
  PROVE  \/ UNCHANGED local
         \/ local' = [local EXCEPT ![m] = [t \in FreeTaskIds |-> RecoveredStatus(local[m][t])]]
<1>1. \A x : RecoveredStatus(x) = CASE x = "queued" -> "stopped" [] x = "running" -> "failed" [] OTHER -> x
  BY DEF RecoveredStatus
<1> QED BY <1>1 DEF RecoverTasks

\* Every action keeps the types of rows, copies, saves and workers.
LEMMA RowsTyped == FreeInv /\ [FreeNext]_freeVars => FreeTypeOK'
<1> SUFFICES ASSUME FreeInv, [FreeNext]_freeVars PROVE FreeTypeOK'
  OBVIOUS
<1>1. FreeTypeOK
  BY DEF FreeInv
<1> USE <1>1
<1>2. ASSUME NEW m \in Managers, LoadTasks(m) PROVE FreeTypeOK'
  BY <1>2, StatusSets DEF LoadTasks, FreeTypeOK
<1>14. ASSUME NEW m \in Managers, LeaveProcess(m) PROVE FreeTypeOK'
  <2>1. Nothing \in [FreeTaskIds -> Status]
    BY StatusSets DEF Nothing
  <2>2. /\ local' \in [Managers -> [FreeTaskIds -> Status]]
        /\ known' \in [Managers -> SUBSET FreeTaskIds] /\ dirtied' \in [Managers -> SUBSET FreeTaskIds]
    BY <1>14, <2>1 DEF LeaveProcess, FreeTypeOK
  <2>3. /\ saving' \in [Savers -> {"idle", "asked"}]
        /\ job' \in [FreeTaskIds -> {"none", "created", "rolledback", "queued", "working",
                                     "halting", "leaving", "ended"}]
    BY <1>14 DEF LeaveProcess, FreeTypeOK
  <2>4. /\ loaded' \in [Managers -> BOOLEAN] /\ drained' \in [Managers -> BOOLEAN]
        /\ stopping' \in [Managers -> BOOLEAN] /\ UNCHANGED <<stored, home, promoted, deleted, lostSaves, requests>>
    BY <1>14 DEF LeaveProcess, FreeTypeOK
  <2> QED BY <2>2, <2>3, <2>4 DEF FreeTypeOK
<1>3. ASSUME NEW m \in Managers, RecoverTasks(m) PROVE FreeTypeOK'
  <2>1. /\ loaded' = [loaded EXCEPT ![m] = FALSE]
        /\ UNCHANGED <<stored, known, dirtied, job, home, drained, stopping, promoted, deleted, lostSaves, requests>>
    BY <1>3 DEF RecoverTasks
  <2>2. local' \in [Managers -> [FreeTaskIds -> Status]]
    <3>1. CASE UNCHANGED local
      BY <3>1 DEF FreeTypeOK
    <3>2. CASE local' = [local EXCEPT ![m] = [t \in FreeTaskIds |-> RecoveredStatus(local[m][t])]]
      <4>1. \A x \in Status : RecoveredStatus(x) \in Status
        BY StatusSets DEF RecoveredStatus
      <4>2. [t \in FreeTaskIds |-> RecoveredStatus(local[m][t])] \in [FreeTaskIds -> Status]
        BY <4>1 DEF FreeTypeOK
      <4> QED BY <3>2, <4>2 DEF FreeTypeOK
    <3> QED BY <1>3, <3>1, <3>2, RecoveredRows
  <2>3. saving' \in [Savers -> {"idle", "asked"}]
    BY <1>3, AskRows, SaverSets DEF RecoverTasks, FreeTypeOK
  <2> QED BY <2>1, <2>2, <2>3 DEF FreeTypeOK
<1>4. ASSUME NEW m \in Managers,
             ClaimForStart(m) \/ GiveUpStart(m) \/ EndBatch(m) \/ OwnerAlone(m)
      PROVE  FreeTypeOK'
  BY <1>4 DEF ClaimForStart, GiveUpStart, EndBatch, OwnerAlone, FreeTypeOK, taskVars
<1>15. ASSUME NEW m \in Managers, SubmitTasks(m) PROVE FreeTypeOK'
  BY <1>15 DEF SubmitTasks, FreeTypeOK
<1>16. ASSUME NEW m \in Managers, Checkpoint(m) PROVE FreeTypeOK'
  <2>1. saving' \in [Savers -> {"idle", "asked"}] /\ drained' \in [Managers -> BOOLEAN]
    BY <1>16, AskRows, SaverSets DEF Checkpoint, FreeTypeOK
  <2> QED BY <1>16, <2>1 DEF Checkpoint, FreeTypeOK
<1>5. ASSUME NEW m \in Managers, NEW tasks \in SUBSET FreeTaskIds, CreateTasks(m, tasks) PROVE FreeTypeOK'
  BY <1>5, AskRows, SaverSets, SetRows, StatusSets DEF CreateTasks, FreeTypeOK
<1>6. ASSUME NEW m \in Managers, MarkRolledBack(m) \/ DropRolledBack(m) PROVE FreeTypeOK'
  BY <1>6, AskRows, SaverSets, SetRows, StatusSets DEF MarkRolledBack, DropRolledBack, RollbackStatus, FreeTypeOK
<1>7. ASSUME NEW m \in Managers, StopTasks(m) PROVE FreeTypeOK'
  <2>1. requests' \in 0..MaxRequests
    BY <1>7, FreeTaskAssumption DEF StopTasks, Request, FreeTypeOK
  <2> QED BY <1>7, <2>1, AskRows, SaverSets, SetRows, StatusSets DEF StopTasks, FreeTypeOK
<1>8. ASSUME NEW m \in Managers, NEW t \in FreeTaskIds, DeleteTask(m, t) PROVE FreeTypeOK'
  <2>1. requests' \in 0..MaxRequests
    BY <1>8, FreeTaskAssumption DEF DeleteTask, Request, FreeTypeOK
  <2> QED BY <1>8, <2>1, AskRows, SaverSets, SetRows, StatusSets DEF DeleteTask, FreeTypeOK
<1>9. ASSUME NEW t \in FreeTaskIds, PromoteTask(t) PROVE FreeTypeOK'
  <2>1. requests' \in 0..MaxRequests
    BY <1>9, FreeTaskAssumption DEF PromoteTask, Request, FreeTypeOK
  <2>2. home[t] \in Managers /\ dirtied' \in [Managers -> SUBSET FreeTaskIds]
    BY <1>9 DEF PromoteTask, Mark, FreeTypeOK
  <2> QED BY <1>9, <2>1, <2>2, AskRows, SaverSets, SetRows, StatusSets DEF PromoteTask, FreeTypeOK
<1>10. ASSUME NEW t \in FreeTaskIds, BeginWork(t) \/ FutureDone(t) \/ \E outcome \in Outcomes : EndWork(t, outcome)
       PROVE  FreeTypeOK'
  <2>1. home[t] \in Managers
    BY <1>10, HomeOf DEF BeginWork, FutureDone, EndWork
  <2>2. dirtied' \in [Managers -> SUBSET FreeTaskIds]
    BY <1>10, <2>1 DEF BeginWork, FutureDone, EndWork, Mark, FreeTypeOK
  <2>3. saving' \in [Savers -> {"idle", "asked"}]
    BY <1>10, <2>1, AskRows, SaverSets DEF BeginWork, FutureDone, EndWork, FreeTypeOK
  <2>4. local' \in [Managers -> [FreeTaskIds -> Status]]
    <3>1. ASSUME NEW outcome \in Outcomes, EndWork(t, outcome) PROVE local' \in [Managers -> [FreeTaskIds -> Status]]
      <4>1. outcome \in Status
        BY StatusSets
      <4>2. UNCHANGED local \/ Set(home[t], Present(home[t], {t}), outcome)
        BY <3>1 DEF EndWork
      <4> QED BY <2>1, <4>1, <4>2, SetRows DEF FreeTypeOK
    <3>2. ASSUME BeginWork(t) PROVE local' \in [Managers -> [FreeTaskIds -> Status]]
      <4>1. UNCHANGED local \/ Set(home[t], Present(home[t], {t}), "running")
        BY <3>2 DEF BeginWork
      <4> QED BY <2>1, <4>1, SetRows, StatusSets DEF FreeTypeOK
    <3>3. ASSUME FutureDone(t) PROVE local' \in [Managers -> [FreeTaskIds -> Status]]
      BY <3>3 DEF FutureDone, FreeTypeOK
    <3> QED BY <1>10, <3>1, <3>2, <3>3
  <2>5. /\ job' \in [FreeTaskIds -> {"none", "created", "rolledback", "queued", "working",
                                "halting", "leaving", "ended"}]
        /\ UNCHANGED <<stored, known, home, loaded, drained, stopping, promoted, deleted, lostSaves, requests>>
    <3>1. \E j \in {"leaving", "halting", "working", "ended"} : job' = [job EXCEPT ![t] = j]
      BY <1>10 DEF BeginWork, FutureDone, EndWork
    <3>2. UNCHANGED <<stored, known, home, loaded, drained, stopping, promoted, deleted, lostSaves, requests>>
      BY <1>10 DEF BeginWork, FutureDone, EndWork
    <3> QED BY <3>1, <3>2 DEF FreeTypeOK
  <2> QED BY <2>2, <2>3, <2>4, <2>5 DEF FreeTypeOK
<1>11. ASSUME NEW s \in Savers, WriteSave(s) \/ DropSave(s) \/ LoseSave(s) PROVE FreeTypeOK'
  <2>1. s \notin Managers => s \in FreeTaskIds
    BY DEF Savers
  <2>2. saving' \in [Savers -> {"idle", "asked"}] /\ lostSaves' \in 0..MaxLostSaves
    BY <1>11, FreeTaskAssumption DEF WriteSave, DropSave, LoseSave, FreeTypeOK
  <2>3. dirtied' \in [Managers -> SUBSET FreeTaskIds]
    BY <1>11, <2>1 DEF WriteSave, DropSave, LoseSave, FreeTypeOK
  <2>4. ASSUME ~WriteSave(s) PROVE FreeTypeOK'
    BY <1>11, <2>2, <2>3, <2>4 DEF DropSave, LoseSave, FreeTypeOK
  <2>5. ASSUME WriteSave(s) PROVE FreeTypeOK'
    <3>1. /\ stored' \in [FreeTaskIds -> Status]
          /\ local' \in [Managers -> [FreeTaskIds -> Status]] /\ known' \in [Managers -> SUBSET FreeTaskIds]
      <4>1. Writer(s) \in Managers
        BY <2>5, WriterIs DEF WriteSave
      <4> QED BY <2>5, <4>1, SaveRows
    <3> QED BY <2>2, <2>3, <2>5, <3>1 DEF WriteSave, FreeTypeOK
  <2> QED BY <2>4, <2>5
<1>12. CASE Age /\ UNCHANGED taskVars
  BY <1>12 DEF taskVars, FreeTypeOK
<1>13. CASE UNCHANGED freeVars
  BY <1>13 DEF freeVars, taskVars, FreeTypeOK
<1>17. ASSUME FreeNext PROVE FreeTypeOK'
  BY <1>2, <1>3, <1>4, <1>5, <1>6, <1>7, <1>8, <1>9, <1>10, <1>11, <1>12, <1>14, <1>15, <1>16, <1>17 DEF FreeNext
<1> QED BY <1>13, <1>17

-----------------------------------------------------------------------------
(* What a step leaves alone.                                               *)

\* A step that has nothing to do with the task, its manager, or what was lost so far.
RowStays(t) ==
    /\ home'[t] = home[t] /\ job'[t] = job[t] /\ stored'[t] = stored[t]
    /\ (t \in deleted' <=> t \in deleted) /\ (t \in promoted => t \in promoted')
    /\ \A n \in Managers : local'[n][t] = local[n][t] /\ (t \in known'[n] <=> t \in known[n])
ManagerStays(m) ==
    /\ life'[m] = life[m] /\ batch'[m] = batch[m] /\ (drained'[m] <=> drained[m])
    /\ saving[m] # "idle" => saving'[m] # "idle"
Onward ==
    /\ lostSaves' >= lostSaves /\ requests' >= requests
    /\ \A n \in Managers : life'[n] = "off" => life[n] = "off"

\* Lost saves and requests are counted.
LEMMA Counters ==
  ASSUME FreeTypeOK PROVE lostSaves \in Nat /\ requests \in Nat
  BY FreeTaskAssumption DEF FreeTypeOK

\* Who is alone after a step was alone before it.
LEMMA AloneBefore ==
  ASSUME FreeTypeOK, FreeTypeOK', Onward, NEW m \in Managers, life'[m] = life[m], Alone(m)'
  PROVE  Alone(m) /\ lostSaves' = 0 /\ requests' = 0
<1>1. lostSaves \in Nat /\ requests \in Nat
  BY Counters
<1> QED BY <1>1 DEF Alone, Onward, Up

\* A step that leaves a task's row, copies and manager alone keeps what is known of it.
LEMMA TaskKept ==
  ASSUME FreeInv, FreeTypeOK', Onward, NEW t \in FreeTaskIds, RowStays(t),
         home[t] = NoManager => saving'[t] = saving[t],
         \A m \in Managers : m = home[t] => ManagerStays(m)
  PROVE  TaskInv(t)'
<1>1. TaskInv(t) /\ FreeTypeOK
  BY DEF FreeInv
<1>2. home[t] \in Managers \cup {NoManager} /\ job[t] \in Jobs /\ (job[t] # "none" <=> home[t] \in Managers)
  BY HomeOf
<1>3. Fresh(t)'
  BY <1>1 DEF TaskInv, Fresh, RowStays, Idle
<1>4. JobPlace(t)'
  BY <1>1, <1>2, OwnerAssumption DEF TaskInv, JobPlace, RowStays, ManagerStays, Up, Starting, Running, Jobs
<1>5. DroppedByOwn(t)' /\ EndIsStored(t)' /\ NeverSaved(t)'
  BY <1>1 DEF TaskInv, DroppedByOwn, EndIsStored, NeverSaved, RowStays
<1>6. EndIsTold(t)'
  <2> SUFFICES ASSUME NEW m \in Managers, home[t] = m, job[t] = "ended", t \notin promoted \cup deleted,
                      lostSaves' <= 1, local[m][t] # "absent", stored[t] \notin {local[m][t], "absent"}
               PROVE  SaveToCome(m)'
    BY DEF EndIsTold, RowStays
  <2>1. lostSaves <= 1 /\ lostSaves \in Nat /\ lostSaves' \in Nat /\ lostSaves' >= lostSaves
    BY <1>1, Counters, FreeTaskAssumption DEF Onward, FreeTypeOK
  <2>2. SaveToCome(m) /\ ManagerStays(m)
    BY <1>1, <2>1 DEF TaskInv, EndIsTold
  <2> QED BY <2>1, <2>2 DEF SaveToCome, ManagerStays, Idle
<1>7. RollsBack(t)'
  <2> SUFFICES ASSUME NEW m \in Managers, home[t] = m, Alone(m)'
               PROVE  /\ job'[t] = "created" => saving'[m] # "idle" \/ (stored'[t] # "absent" /\ t \in known'[m])
                      /\ job'[t] = "rolledback" =>
                            /\ t \in known'[m] /\ stored'[t] # "absent" /\ local'[m][t] \in Finished
                            /\ saving'[m] # "idle" \/ stored'[t] \in Finished
                      /\ local'[m][t] = "absent" =>
                            /\ job'[t] = "ended"
                            /\ \/ stored'[t] = "absent"
                               \/ /\ saving'[m] # "idle" /\ batch'[m] = "starting"
                                  /\ t \in known'[m] /\ stored'[t] \in Finished
    BY DEF RollsBack, RowStays, Idle
  <2>1. ManagerStays(m) /\ Alone(m)
    BY <1>1, AloneBefore DEF ManagerStays
  <2> QED BY <1>1, <2>1 DEF TaskInv, RollsBack, ManagerStays, RowStays, Idle
<1> QED BY <1>3, <1>4, <1>5, <1>6, <1>7 DEF TaskInv

\* A task that is over, while its manager's batch goes on.
LEMMA EndedKept ==
  ASSUME FreeInv, FreeTypeOK', Onward, NEW t \in FreeTaskIds, NEW m \in Managers, home[t] = m,
         RowStays(t), job[t] = "ended", life'[m] = life[m],
         SaveToCome(m) => SaveToCome(m)' \/ lostSaves' >= 2,
         batch[m] = "starting" /\ saving[m] # "idle" /\ lostSaves' = 0 =>
             batch'[m] = "starting" /\ saving'[m] # "idle"
  PROVE  TaskInv(t)'
<1>1. TaskInv(t) /\ FreeTypeOK /\ m # NoManager
  BY OwnerAssumption DEF FreeInv
<1>2. Fresh(t)' /\ JobPlace(t)'
  BY <1>1 DEF TaskInv, Fresh, JobPlace, RowStays, Starting, Running
<1>3. DroppedByOwn(t)' /\ EndIsStored(t)' /\ NeverSaved(t)'
  BY <1>1 DEF TaskInv, DroppedByOwn, EndIsStored, NeverSaved, RowStays
<1>4. EndIsTold(t)'
  <2>1. lostSaves \in Nat /\ lostSaves' \in Nat /\ lostSaves' >= lostSaves
    BY <1>1, Counters, FreeTaskAssumption DEF Onward, FreeTypeOK
  <2> QED BY <1>1, <2>1 DEF TaskInv, EndIsTold, RowStays
<1>5. RollsBack(t)'
  <2> SUFFICES ASSUME Alone(m)', local[m][t] = "absent"
               PROVE  \/ stored'[t] = "absent"
                      \/ /\ saving'[m] # "idle" /\ batch'[m] = "starting"
                         /\ t \in known'[m] /\ stored'[t] \in Finished
    BY DEF RollsBack, RowStays, Idle
  <2>1. Alone(m) /\ lostSaves' = 0
    BY <1>1, AloneBefore
  <2> QED BY <1>1, <2>1 DEF TaskInv, RollsBack, RowStays, Idle
<1> QED BY <1>2, <1>3, <1>4, <1>5 DEF TaskInv

\* Only managers of a batch have workers.
LEMMA NoWorkers ==
  ASSUME FreeInv, NEW t \in FreeTaskIds, NEW m \in Managers, home[t] = m
  PROVE  /\ job[t] # "none"
         /\ batch[m] \notin {"starting", "running"} => job[t] = "ended"
         /\ batch[m] = "starting" => job[t] \in Starting \cup {"ended"}
         /\ batch[m] = "running" => job[t] \in Running \cup {"ended"}
         /\ t \notin Batch(m) => job[t] = "ended"
<1>1. TaskInv(t) /\ job[t] \in Jobs /\ job[t] # "none"
  BY HomeOf DEF FreeInv
<1> QED BY <1>1 DEF TaskInv, JobPlace, Starting, Running, Jobs, Batch, Own

Sound == (\A n \in Managers : ManagerSound(n)') /\ (\A t \in FreeTaskIds : TaskInv(t)')

\* A step of the owner's part alone that starts and ends no batch.
LEMMA OwnerSteps ==
  ASSUME FreeInv, FreeTypeOK', UNCHANGED taskVars, UNCHANGED <<batch, life>>
  PROVE  Sound
<1>1. /\ Onward /\ \A t \in FreeTaskIds : RowStays(t) /\ saving'[t] = saving[t]
      /\ \A n \in Managers : ManagerStays(n)
  BY Counters DEF taskVars, Onward, RowStays, ManagerStays, FreeInv
<1>2. \A t \in FreeTaskIds : TaskInv(t)'
  BY <1>1, TaskKept
<1>3. \A n \in Managers : ManagerSound(n)'
  BY DEF FreeInv, ManagerSound, taskVars
<1> QED BY <1>2, <1>3 DEF Sound

\* Renewals, refused starts and releases: nothing happens to the tasks.
LEMMA AloneStep == ASSUME FreeInv, FreeTypeOK', NEW m \in Managers, OwnerAlone(m) PROVE Sound
<1>1. UNCHANGED taskVars /\ UNCHANGED <<batch, life>>
  <2>1. ASSUME NEW c \in Closers, ReleaseClear(m, c) \/ ReleaseDelete(m, c) PROVE batch' = batch /\ life' = life
    <3>1. batch[m] = "none" /\ OwnerTypeOK
      BY <2>1, ClosedState DEF ReleaseClear, ReleaseDelete, FreeInv, CalmInv, Calm, Quiet
    <3> QED BY <2>1, <3>1 DEF ReleaseClear, ReleaseDelete, SetBatch, OwnerTypeOK
  <2> QED BY <2>1 DEF OwnerAlone, StartRefused, AskIdle, RenewOwner, StopIdle
<1> QED BY <1>1, OwnerSteps

\* Time passes.
LEMMA AgeStep == ASSUME FreeInv, FreeTypeOK', Age /\ UNCHANGED taskVars PROVE Sound
  BY OwnerSteps DEF Age

\* A start that claims the database finds the batch before it saved.
LEMMA ClaimRowsStep == ASSUME FreeInv, FreeTypeOK', NEW m \in Managers, ClaimForStart(m) PROVE Sound
<1>1. /\ UNCHANGED taskVars /\ batch[m] = "none" /\ ~loaded[m] /\ life' = life /\ Up(m)
      /\ batch' = [batch EXCEPT ![m] = "starting"] /\ OwnerTypeOK
  BY DEF ClaimForStart, StartClaim, Busy, SetBatch, FreeInv, CalmInv
<1>2. /\ Onward /\ \A t \in FreeTaskIds : RowStays(t) /\ saving'[t] = saving[t]
      /\ \A n \in Managers \ {m} : ManagerStays(n) /\ batch'[n] = batch[n]
  BY <1>1, Counters DEF taskVars, Onward, RowStays, ManagerStays, FreeInv, OwnerTypeOK
<1>3. ASSUME NEW t \in FreeTaskIds, home[t] = m PROVE TaskInv(t)'
  <2>1. job[t] = "ended"
    BY <1>1, <1>3, NoWorkers
  <2>2. ~SaveToCome(m)
    BY <1>1 DEF SaveToCome
  <2> QED BY <1>1, <1>2, <1>3, <2>1, <2>2, EndedKept
<1>4. ASSUME NEW t \in FreeTaskIds, home[t] # m PROVE TaskInv(t)'
  BY <1>2, <1>4, TaskKept
<1>5. \A n \in Managers : ManagerSound(n)'
  BY <1>1, <1>2 DEF FreeInv, ManagerSound, taskVars, Up, OwnerTypeOK
<1> QED BY <1>3, <1>4, <1>5 DEF Sound

\* A start that gives up has dropped what it created.
LEMMA GiveUpStep == ASSUME FreeInv, FreeTypeOK', NEW m \in Managers, GiveUpStart(m) PROVE Sound
<1>1. /\ UNCHANGED taskVars /\ batch[m] = "starting" /\ life' = life /\ Idle(m) /\ Batch(m) = {}
      /\ batch' = [batch EXCEPT ![m] = "none"] /\ OwnerTypeOK
  BY DEF GiveUpStart, StartFails, SetBatch, FreeInv, CalmInv
<1>2. /\ Onward /\ \A t \in FreeTaskIds : RowStays(t) /\ saving'[t] = saving[t]
      /\ \A n \in Managers \ {m} : ManagerStays(n) /\ batch'[n] = batch[n]
  BY <1>1, Counters DEF taskVars, Onward, RowStays, ManagerStays, FreeInv, OwnerTypeOK
<1>3. ASSUME NEW t \in FreeTaskIds, home[t] = m PROVE TaskInv(t)'
  <2>1. job[t] = "ended"
    BY <1>1, <1>3, NoWorkers
  <2>2. ~SaveToCome(m)
    BY <1>1 DEF SaveToCome
  <2> QED BY <1>1, <1>2, <1>3, <2>1, <2>2, EndedKept DEF Idle
<1>4. ASSUME NEW t \in FreeTaskIds, home[t] # m PROVE TaskInv(t)'
  BY <1>2, <1>4, TaskKept
<1>5. \A n \in Managers : ManagerSound(n)'
  BY <1>1, <1>2 DEF FreeInv, ManagerSound, taskVars, OwnerTypeOK
<1> QED BY <1>3, <1>4, <1>5 DEF Sound

-----------------------------------------------------------------------------
(* Batches, and saves that write nothing.                                  *)

\* Submitting: the created tasks of the batch have workers.
LEMMA SubmitStep == ASSUME FreeInv, FreeTypeOK', NEW m \in Managers, SubmitTasks(m) PROVE Sound
<1>1. /\ batch[m] = "starting" /\ life' = life /\ Up(m) /\ Idle(m) /\ batch' = [batch EXCEPT ![m] = "running"]
      /\ \A t \in Batch(m) : job[t] = "created"
      /\ UNCHANGED <<stored, known, local, saving, home, loaded, drained, promoted, deleted, lostSaves, requests>>
      /\ OwnerTypeOK /\ FreeTypeOK
  BY DEF SubmitTasks, Launch, SetBatch, FreeInv, CalmInv
<1>2. \A t \in FreeTaskIds : job'[t] = IF home[t] = m /\ job[t] # "ended" THEN "queued" ELSE job[t]
  <2>1. \A t \in FreeTaskIds : t \in Batch(m) <=> home[t] = m /\ job[t] # "ended"
    BY NoWorkers DEF Batch, Own
  <2> QED BY <2>1 DEF SubmitTasks
<1>3. Onward /\ \A n \in Managers \ {m} : ManagerStays(n) /\ batch'[n] = batch[n]
  BY <1>1, Counters DEF Onward, ManagerStays, OwnerTypeOK
<1>4. ASSUME NEW t \in FreeTaskIds, home[t] = m PROVE TaskInv(t)'
  <2>1. CASE job[t] = "ended"
    <3>1. RowStays(t)
      BY <1>1, <1>2, <2>1 DEF RowStays
    <3>2. ~SaveToCome(m)
      BY <1>1 DEF SaveToCome
    <3> QED BY <1>1, <1>3, <1>4, <2>1, <3>1, <3>2, EndedKept DEF Idle
  <2>2. CASE job[t] # "ended"
    <3>1. job[t] = "created" /\ job'[t] = "queued"
      BY <1>1, <1>2, <1>4, <2>2, NoWorkers DEF Batch, Own
    <3>2. TaskInv(t) /\ m # NoManager /\ batch'[m] = "running"
      BY <1>1, OwnerAssumption DEF FreeInv, OwnerTypeOK
    <3>3. Fresh(t)' /\ JobPlace(t)' /\ DroppedByOwn(t)' /\ EndIsStored(t)' /\ NeverSaved(t)' /\ EndIsTold(t)'
      BY <1>1, <1>4, <3>1, <3>2
      DEF TaskInv, Fresh, JobPlace, DroppedByOwn, EndIsStored, NeverSaved, EndIsTold, Starting, Running, Live, Up, Idle
    <3>4. RollsBack(t)'
      <4>1. Alone(m)' => Alone(m)
        BY <1>1, <1>3, AloneBefore
      <4> QED BY <1>1, <1>4, <3>1, <3>2, <4>1 DEF TaskInv, RollsBack
    <3> QED BY <3>3, <3>4 DEF TaskInv
  <2> QED BY <2>1, <2>2
<1>5. ASSUME NEW t \in FreeTaskIds, home[t] # m PROVE TaskInv(t)'
  <2>1. RowStays(t)
    BY <1>1, <1>2, <1>5 DEF RowStays
  <2> QED BY <1>1, <1>3, <1>5, <2>1, TaskKept
<1>6. \A n \in Managers : ManagerSound(n)'
  BY <1>1, <1>3 DEF FreeInv, ManagerSound, OwnerTypeOK
<1> QED BY <1>4, <1>5, <1>6 DEF Sound

\* The end of a batch: its final checkpoint is over, so no save is left to come.
LEMMA EndBatchStep == ASSUME FreeInv, FreeTypeOK', NEW m \in Managers, EndBatch(m) PROVE Sound
<1>1. /\ batch[m] = "draining" /\ drained[m] /\ life' = life /\ Idle(m) /\ batch' = [batch EXCEPT ![m] = "none"]
      /\ drained' = [drained EXCEPT ![m] = FALSE]
      /\ UNCHANGED <<stored, known, local, saving, job, home, loaded, promoted, deleted, lostSaves, requests>>
      /\ OwnerTypeOK /\ FreeTypeOK
  BY DEF EndBatch, BatchEnd, SetBatch, FreeInv, CalmInv
<1>2. /\ Onward /\ \A t \in FreeTaskIds : RowStays(t)
      /\ \A n \in Managers \ {m} : ManagerStays(n) /\ batch'[n] = batch[n] /\ drained'[n] = drained[n]
  BY <1>1, Counters DEF Onward, RowStays, ManagerStays, OwnerTypeOK, FreeTypeOK
<1>3. ASSUME NEW t \in FreeTaskIds, home[t] = m PROVE TaskInv(t)'
  <2>1. job[t] = "ended"
    BY <1>1, <1>3, NoWorkers
  <2>2. ~SaveToCome(m)
    BY <1>1 DEF SaveToCome
  <2> QED BY <1>1, <1>2, <1>3, <2>1, <2>2, EndedKept
<1>4. ASSUME NEW t \in FreeTaskIds, home[t] # m PROVE TaskInv(t)'
  BY <1>1, <1>2, <1>4, TaskKept
<1>5. \A n \in Managers : ManagerSound(n)'
  BY <1>1, <1>2 DEF FreeInv, ManagerSound, OwnerTypeOK, FreeTypeOK
<1> QED BY <1>3, <1>4, <1>5 DEF Sound

\* The final checkpoint takes over from the full save of the last future.
LEMMA CheckpointStep == ASSUME FreeInv, FreeTypeOK', NEW m \in Managers, Checkpoint(m) PROVE Sound
<1>1. /\ batch[m] = "draining" /\ ~drained[m] /\ Idle(m) /\ drained' = [drained EXCEPT ![m] = TRUE]
      /\ UNCHANGED <<stored, known, local, job, home, loaded, promoted, deleted, lostSaves, requests>>
      /\ UNCHANGED <<batch, life>> /\ FreeTypeOK
  BY DEF Checkpoint, Settled, ownerVars, FreeInv
<1>2. saving'[m] = "asked" /\ \A r \in Savers : r # m => saving'[r] = saving[r]
  BY <1>1, AskRows, SaverSets DEF Checkpoint
<1>3. /\ Onward /\ \A t \in FreeTaskIds : RowStays(t) /\ saving'[t] = saving[t]
      /\ \A n \in Managers \ {m} : ManagerStays(n) /\ drained'[n] = drained[n]
  BY <1>1, <1>2, Counters, SaverSets DEF Onward, RowStays, ManagerStays, FreeTypeOK
<1>4. ASSUME NEW t \in FreeTaskIds, home[t] = m PROVE TaskInv(t)'
  <2>1. job[t] = "ended"
    BY <1>1, <1>4, NoWorkers
  <2>2. SaveToCome(m) => SaveToCome(m)'
    BY <1>1, <1>2 DEF SaveToCome, Idle, FreeTypeOK
  <2> QED BY <1>1, <1>2, <1>3, <1>4, <2>1, <2>2, EndedKept
<1>5. ASSUME NEW t \in FreeTaskIds, home[t] # m PROVE TaskInv(t)'
  BY <1>1, <1>3, <1>5, TaskKept
<1>6. \A n \in Managers : ManagerSound(n)'
  BY <1>1, <1>3 DEF FreeInv, ManagerSound, FreeTypeOK
<1> QED BY <1>4, <1>5, <1>6 DEF Sound

\* A save of a worker, which the storage or the fence drops, changes no row.
LEMMA SilentWorkerSave ==
  ASSUME FreeInv, FreeTypeOK', NEW s \in FreeTaskIds, saving[s] = "asked", saving' = [saving EXCEPT ![s] = "idle"],
         UNCHANGED ownerVars, lostSaves' >= lostSaves,
         UNCHANGED <<stored, known, local, job, home, loaded, drained, promoted, deleted, requests>>
  PROVE  Sound
<1>1. FreeTypeOK /\ TaskInv(s)
  BY DEF FreeInv
<1>2. home[s] # NoManager
  BY <1>1 DEF TaskInv, Fresh, Idle
<1>3. \A m \in Managers : m # s
  BY SaverSets
<1>4. /\ Onward /\ \A t \in FreeTaskIds : RowStays(t) /\ (home[t] = NoManager => saving'[t] = saving[t])
      /\ \A n \in Managers : ManagerStays(n)
  BY <1>1, <1>2, <1>3, Counters, SaverSets DEF Onward, RowStays, ManagerStays, ownerVars, FreeTypeOK
<1>5. \A t \in FreeTaskIds : TaskInv(t)'
  BY <1>4, TaskKept
<1>6. \A n \in Managers : ManagerSound(n)'
  BY DEF FreeInv, ManagerSound, ownerVars
<1> QED BY <1>5, <1>6 DEF Sound

\* So does a save of the manager's own, but it may have been the last to come.
LEMMA SilentFullSave ==
  ASSUME FreeInv, FreeTypeOK', NEW m \in Managers, saving[m] = "asked", saving' = [saving EXCEPT ![m] = "idle"],
         UNCHANGED ownerVars, lostSaves' = lostSaves + 1 \/ (lostSaves' = lostSaves /\ batch[m] = "none"),
         UNCHANGED <<stored, known, local, job, home, loaded, drained, promoted, deleted, requests>>
  PROVE  Sound
<1>1. FreeTypeOK /\ lostSaves \in Nat /\ lostSaves' >= lostSaves
  BY Counters DEF FreeInv
<1>2. /\ Onward /\ \A t \in FreeTaskIds : RowStays(t) /\ saving'[t] = saving[t]
      /\ \A n \in Managers \ {m} : ManagerStays(n)
  BY <1>1, SaverSets DEF Onward, RowStays, ManagerStays, ownerVars, FreeTypeOK
<1>3. ASSUME NEW t \in FreeTaskIds, home[t] = m PROVE TaskInv(t)'
  <2>1. CASE job[t] = "ended"
    <3>1. SaveToCome(m) => SaveToCome(m)' \/ lostSaves' >= 2
      BY <1>1 DEF SaveToCome, Idle, ownerVars
    <3> QED BY <1>1, <1>2, <1>3, <2>1, <3>1, EndedKept DEF ownerVars
  <2>2. CASE job[t] # "ended"
    <3>1. batch[m] # "none" /\ lostSaves' # 0
      BY <1>1, <1>3, <2>2, NoWorkers
    <3>2. TaskInv(t) /\ m # NoManager
      BY OwnerAssumption DEF FreeInv
    <3>3. Fresh(t)' /\ JobPlace(t)' /\ DroppedByOwn(t)' /\ EndIsStored(t)' /\ NeverSaved(t)' /\ EndIsTold(t)'
      BY <1>3, <2>2, <3>2
      DEF TaskInv, Fresh, JobPlace, DroppedByOwn, EndIsStored, NeverSaved, EndIsTold, Up, ownerVars
    <3>4. RollsBack(t)'
      BY <1>3, <3>1 DEF RollsBack, Alone
    <3> QED BY <3>3, <3>4 DEF TaskInv
  <2> QED BY <2>1, <2>2
<1>4. ASSUME NEW t \in FreeTaskIds, home[t] # m PROVE TaskInv(t)'
  BY <1>2, <1>4, TaskKept
<1>5. \A n \in Managers : ManagerSound(n)'
  BY DEF FreeInv, ManagerSound, ownerVars
<1> QED BY <1>3, <1>4, <1>5 DEF Sound

\* A save that the fence or the storage drops.
LEMMA SilentSaveStep == ASSUME FreeInv, FreeTypeOK', NEW s \in Savers, DropSave(s) \/ LoseSave(s) PROVE Sound
<1>1. /\ saving[s] = "asked" /\ saving' = [saving EXCEPT ![s] = "idle"] /\ UNCHANGED ownerVars
      /\ UNCHANGED <<stored, known, local, job, home, loaded, drained, promoted, deleted, requests>>
      /\ Up(Writer(s)) /\ (lostSaves' = lostSaves + 1 \/ (lostSaves' = lostSaves /\ ~OwnerCurrent(Writer(s))))
  BY DEF DropSave, LoseSave
<1>2. lostSaves \in Nat /\ lostSaves' >= lostSaves
  BY <1>1, Counters DEF FreeInv
<1>3. CASE s \in Managers
  <2>1. Calm(s) /\ Writer(s) = s
    BY <1>3 DEF FreeInv, CalmInv, Writer
  <2>2. ~OwnerCurrent(Writer(s)) => batch[s] = "none"
    BY <2>1 DEF Calm, OwnerCurrent
  <2> QED BY <1>1, <1>3, <2>2, SilentFullSave
<1>4. CASE s \notin Managers
  <2>1. s \in FreeTaskIds
    BY <1>4 DEF Savers
  <2> QED BY <1>1, <1>2, <2>1, SilentWorkerSave
<1> QED BY <1>3, <1>4

\* The batch in progress is what its manager created and has not ended.
LEMMA BatchIs ==
  ASSUME FreeInv, NEW m \in Managers
  PROVE  \A t \in FreeTaskIds : t \in Batch(m) <=> home[t] = m /\ job[t] # "ended"
  BY NoWorkers DEF Batch, Own

\* Creating: the tasks of a batch are known to nobody else.
LEMMA CreateStep ==
  ASSUME FreeInv, FreeTypeOK', NEW m \in Managers, NEW tasks \in SUBSET FreeTaskIds, CreateTasks(m, tasks)
  PROVE  Sound
<1>1. /\ batch[m] = "starting" /\ Up(m) /\ Idle(m) /\ UNCHANGED <<batch, life>>
      /\ UNCHANGED <<stored, known, loaded, drained, promoted, deleted, lostSaves, requests>>
      /\ FreeTypeOK /\ Batch(m) = {} /\ \A t \in tasks : home[t] = NoManager
  BY DEF CreateTasks, ownerVars, FreeInv
<1>2. saving'[m] = "asked" /\ \A r \in Savers : r # m => saving'[r] = saving[r]
  BY <1>1, AskRows, SaverSets DEF CreateTasks
<1>3. \A n \in Managers, t \in FreeTaskIds : local'[n][t] = IF n = m /\ t \in tasks THEN "queued" ELSE local[n][t]
  BY <1>1, SetRows, StatusSets DEF CreateTasks
<1>4. \A t \in FreeTaskIds : /\ home'[t] = IF t \in tasks THEN m ELSE home[t]
                             /\ job'[t] = IF t \in tasks THEN "created" ELSE job[t]
  BY DEF CreateTasks
<1>5. /\ Onward /\ \A t \in FreeTaskIds : saving'[t] = saving[t]
      /\ \A n \in Managers \ {m} : ManagerStays(n)
  BY <1>1, <1>2, Counters, SaverSets DEF Onward, ManagerStays
<1>6. ASSUME NEW t \in FreeTaskIds, t \in tasks PROVE TaskInv(t)'
  <2>1. TaskInv(t) /\ m # NoManager /\ home[t] = NoManager
    BY <1>1, <1>6, OwnerAssumption DEF FreeInv
  <2>2. /\ stored'[t] = "absent" /\ t \notin deleted' /\ home'[t] = m /\ job'[t] = "created" /\ local'[m][t] = "queued"
        /\ \A n \in Managers : n # m => local'[n][t] = "absent"
        /\ \A n \in Managers : t \notin known'[n]
    BY <1>1, <1>3, <1>4, <1>6, <2>1 DEF TaskInv, Fresh
  <2>3. Fresh(t)' /\ DroppedByOwn(t)' /\ EndIsStored(t)' /\ NeverSaved(t)' /\ EndIsTold(t)'
    BY <2>1, <2>2, StatusSets DEF Fresh, DroppedByOwn, EndIsStored, NeverSaved, EndIsTold
  <2>4. JobPlace(t)' /\ RollsBack(t)'
    BY <1>1, <1>2, <2>1, <2>2 DEF JobPlace, RollsBack, Starting, Running, Up, Idle
  <2> QED BY <2>3, <2>4 DEF TaskInv
<1>7. ASSUME NEW t \in FreeTaskIds, t \notin tasks PROVE TaskInv(t)'
  <2>1. RowStays(t)
    BY <1>1, <1>3, <1>4, <1>7 DEF RowStays
  <2>2. CASE home[t] = m
    <3>1. job[t] = "ended" /\ ~SaveToCome(m)
      BY <1>1, <2>2, BatchIs DEF SaveToCome
    <3> QED BY <1>1, <1>2, <1>5, <2>1, <2>2, <3>1, EndedKept
  <2> QED BY <1>5, <2>1, <2>2, TaskKept
<1>8. \A n \in Managers : ManagerSound(n)'
  BY <1>1, <1>4 DEF FreeInv, ManagerSound, Up
<1> QED BY <1>6, <1>7, <1>8 DEF Sound

\* The first checkpoint of a rollback ends the tasks of the start.
LEMMA MarkStep == ASSUME FreeInv, FreeTypeOK', NEW m \in Managers, MarkRolledBack(m) PROVE Sound
<1>1. /\ batch[m] = "starting" /\ Up(m) /\ Idle(m) /\ UNCHANGED <<batch, life>>
      /\ UNCHANGED <<stored, known, home, loaded, drained, promoted, deleted, lostSaves, requests>>
      /\ FreeTypeOK /\ \A t \in Batch(m) : job[t] = "created"
  BY DEF MarkRolledBack, ownerVars, FreeInv
<1>2. saving'[m] = "asked" /\ \A r \in Savers : r # m => saving'[r] = saving[r]
  BY <1>1, AskRows, SaverSets DEF MarkRolledBack
<1>3. \A n \in Managers, t \in FreeTaskIds : local'[n][t] = IF n = m /\ t \in Batch(m) THEN "stopped" ELSE local[n][t]
  BY <1>1, SetRows, StatusSets DEF MarkRolledBack, RollbackStatus
<1>4. \A t \in FreeTaskIds : job'[t] = IF t \in Batch(m) THEN "rolledback" ELSE job[t]
  BY DEF MarkRolledBack
<1>5. /\ Onward /\ \A t \in FreeTaskIds : saving'[t] = saving[t]
      /\ \A n \in Managers \ {m} : ManagerStays(n)
  BY <1>1, <1>2, Counters, SaverSets DEF Onward, ManagerStays
<1>6. ASSUME NEW t \in FreeTaskIds, t \in Batch(m) PROVE TaskInv(t)'
  <2>1. TaskInv(t) /\ m # NoManager /\ home[t] = m /\ job[t] = "created"
    BY <1>1, <1>6, BatchIs, OwnerAssumption DEF FreeInv
  <2>2. /\ stored'[t] = stored[t] /\ home'[t] = m /\ job'[t] = "rolledback" /\ local'[m][t] = "stopped"
        /\ \A n \in Managers : n # m => local'[n][t] = local[n][t]
    BY <1>1, <1>3, <1>4, <1>6, <2>1
  <2>3. local[m][t] # "absent"
    BY <2>1 DEF TaskInv, JobPlace, Starting
  <2>4. Fresh(t)' /\ DroppedByOwn(t)' /\ EndIsStored(t)' /\ NeverSaved(t)' /\ EndIsTold(t)'
    BY <1>1, <2>1, <2>2, <2>3 DEF TaskInv, Fresh, DroppedByOwn, EndIsStored, NeverSaved, EndIsTold, Live
  <2>5. JobPlace(t)'
    BY <1>1, <2>1, <2>2 DEF JobPlace, Starting, Running, Up
  <2>6. RollsBack(t)'
    <3>1. Alone(m)' => Alone(m)
      BY <1>1, <1>5, AloneBefore
    <3>2. Alone(m) => stored[t] # "absent" /\ t \in known[m]
      BY <1>1, <2>1 DEF TaskInv, RollsBack
    <3> QED BY <1>1, <1>2, <2>1, <2>2, <3>1, <3>2, StatusSets DEF RollsBack, Idle
  <2> QED BY <2>4, <2>5, <2>6 DEF TaskInv
<1>7. ASSUME NEW t \in FreeTaskIds, t \notin Batch(m) PROVE TaskInv(t)'
  <2>1. RowStays(t)
    BY <1>1, <1>3, <1>4, <1>7 DEF RowStays
  <2>2. CASE home[t] = m
    <3>1. job[t] = "ended" /\ ~SaveToCome(m)
      BY <1>1, <1>7, <2>2, BatchIs DEF SaveToCome
    <3> QED BY <1>1, <1>2, <1>5, <2>1, <2>2, <3>1, EndedKept
  <2> QED BY <1>5, <2>1, <2>2, TaskKept
<1>8. \A n \in Managers : ManagerSound(n)'
  BY <1>1 DEF FreeInv, ManagerSound
<1> QED BY <1>6, <1>7, <1>8 DEF Sound

\* The second drops them, once their rows are finished.
LEMMA DropStep == ASSUME FreeInv, FreeTypeOK', NEW m \in Managers, DropRolledBack(m) PROVE Sound
<1>1. /\ batch[m] = "starting" /\ Up(m) /\ Idle(m) /\ UNCHANGED <<batch, life>>
      /\ UNCHANGED <<stored, known, home, loaded, drained, promoted, deleted, lostSaves, requests>>
      /\ FreeTypeOK /\ \A t \in Batch(m) : job[t] = "rolledback"
  BY DEF DropRolledBack, ownerVars, FreeInv
<1>2. saving'[m] = "asked" /\ \A r \in Savers : r # m => saving'[r] = saving[r]
  BY <1>1, AskRows, SaverSets DEF DropRolledBack
<1>3. \A n \in Managers, t \in FreeTaskIds : local'[n][t] = IF n = m /\ t \in Batch(m) THEN "absent" ELSE local[n][t]
  BY <1>1, SetRows, StatusSets DEF DropRolledBack
<1>4. \A t \in FreeTaskIds : job'[t] = IF t \in Batch(m) THEN "ended" ELSE job[t]
  BY DEF DropRolledBack
<1>5. /\ Onward /\ \A t \in FreeTaskIds : saving'[t] = saving[t]
      /\ \A n \in Managers \ {m} : ManagerStays(n)
  BY <1>1, <1>2, Counters, SaverSets DEF Onward, ManagerStays
<1>6. ASSUME NEW t \in FreeTaskIds, t \in Batch(m) PROVE TaskInv(t)'
  <2>1. TaskInv(t) /\ m # NoManager /\ home[t] = m /\ job[t] = "rolledback"
    BY <1>1, <1>6, BatchIs, OwnerAssumption DEF FreeInv
  <2>2. /\ stored'[t] = stored[t] /\ home'[t] = m /\ job'[t] = "ended" /\ local'[m][t] = "absent"
        /\ \A n \in Managers : n # m => local'[n][t] = local[n][t]
    BY <1>1, <1>3, <1>4, <1>6, <2>1
  <2>4. Fresh(t)' /\ DroppedByOwn(t)' /\ EndIsStored(t)' /\ NeverSaved(t)' /\ EndIsTold(t)'
    BY <1>1, <2>1, <2>2 DEF TaskInv, Fresh, DroppedByOwn, EndIsStored, NeverSaved, EndIsTold, Live
  <2>5. JobPlace(t)'
    BY <1>1, <2>1, <2>2 DEF JobPlace, Starting, Running, Up
  <2>6. RollsBack(t)'
    <3>1. Alone(m)' => Alone(m)
      BY <1>1, <1>5, AloneBefore
    <3>2. Alone(m) => stored[t] \in Finished /\ t \in known[m]
      BY <1>1, <2>1 DEF TaskInv, RollsBack
    <3> QED BY <1>1, <1>2, <2>1, <2>2, <3>1, <3>2 DEF RollsBack, Idle
  <2> QED BY <2>4, <2>5, <2>6 DEF TaskInv
<1>7. ASSUME NEW t \in FreeTaskIds, t \notin Batch(m) PROVE TaskInv(t)'
  <2>1. RowStays(t)
    BY <1>1, <1>3, <1>4, <1>7 DEF RowStays
  <2>2. CASE home[t] = m
    <3>1. job[t] = "ended" /\ ~SaveToCome(m)
      BY <1>1, <1>7, <2>2, BatchIs DEF SaveToCome
    <3> QED BY <1>1, <1>2, <1>5, <2>1, <2>2, <3>1, EndedKept
  <2> QED BY <1>5, <2>1, <2>2, TaskKept
<1>8. \A n \in Managers : ManagerSound(n)'
  BY <1>1 DEF FreeInv, ManagerSound
<1> QED BY <1>6, <1>7, <1>8 DEF Sound

-----------------------------------------------------------------------------
(* Processes come and go.                                                  *)

\* What a manager does to its copy of somebody else's task.
LEMMA CopyOfOther ==
  ASSUME FreeInv, FreeTypeOK', Onward, NEW t \in FreeTaskIds, NEW m \in Managers, home[t] # m,
         home'[t] = home[t], job'[t] = job[t], stored'[t] = stored[t],
         t \in promoted => t \in promoted', t \in deleted => t \in deleted',
         \A n \in Managers : n # m => local'[n][t] = local[n][t] /\ (t \in known'[n] => t \in known[n]),
         t \in known'[m] /\ local'[m][t] = "absent" => t \in deleted',
         t \notin deleted' /\ job[t] \in Live /\ local'[m][t] \in Finished => stored[t] \in Finished,
         t \notin deleted' /\ stored[t] = "absent" /\ local[m][t] = "absent" => local'[m][t] = "absent",
         Fresh(t)',
         \A n \in Managers : home[t] = n => ManagerStays(n) /\ ~Alone(n)'
  PROVE  TaskInv(t)'
<1>1. TaskInv(t) /\ FreeTypeOK
  BY DEF FreeInv
<1>2. home[t] \in Managers \cup {NoManager} /\ job[t] \in Jobs /\ (job[t] # "none" <=> home[t] \in Managers)
  BY HomeOf
<1>4. JobPlace(t)'
  BY <1>1, <1>2, OwnerAssumption DEF TaskInv, JobPlace, ManagerStays, Up, Starting, Running, Jobs
<1>5. DroppedByOwn(t)'
  BY <1>1 DEF TaskInv, DroppedByOwn
<1>6. EndIsStored(t)'
  BY <1>1 DEF TaskInv, EndIsStored
<1>7. NeverSaved(t)'
  BY <1>1 DEF TaskInv, NeverSaved
<1>8. EndIsTold(t)'
  <2> SUFFICES ASSUME NEW n \in Managers, home[t] = n, job[t] = "ended", t \notin promoted' \cup deleted',
                      lostSaves' <= 1, local[n][t] # "absent", stored[t] \notin {local[n][t], "absent"}
               PROVE  SaveToCome(n)'
    BY DEF EndIsTold
  <2>1. lostSaves <= 1 /\ lostSaves \in Nat /\ lostSaves' \in Nat /\ lostSaves' >= lostSaves
    BY <1>1, Counters, FreeTaskAssumption DEF Onward, FreeTypeOK
  <2>2. SaveToCome(n) /\ ManagerStays(n)
    BY <1>1, <2>1 DEF TaskInv, EndIsTold
  <2> QED BY <2>1, <2>2 DEF SaveToCome, ManagerStays, Idle
<1>9. RollsBack(t)'
  BY DEF RollsBack
<1> QED BY <1>4, <1>5, <1>6, <1>7, <1>8, <1>9 DEF TaskInv

\* A process that runs disturbs every other.
LEMMA NotAlone ==
  ASSUME NEW m \in Managers, life'[m] # "off", NEW n \in Managers, n # m PROVE ~Alone(n)'
  BY DEF Alone

\* A constructor copies the table.
LEMMA LoadStep == ASSUME FreeInv, FreeTypeOK', NEW m \in Managers, LoadTasks(m) PROVE Sound
<1>1. /\ life[m] = "off" /\ life' = [life EXCEPT ![m] = "up"] /\ batch' = batch
      /\ UNCHANGED <<stored, saving, job, home, drained, promoted, deleted, lostSaves, requests>>
      /\ OwnerTypeOK /\ FreeTypeOK
  BY DEF LoadTasks, Boot, FreeInv, CalmInv
<1>2. \A t \in FreeTaskIds, n \in Managers :
         /\ local'[n][t] = IF n = m THEN stored[t] ELSE local[n][t]
         /\ t \in known'[n] <=> IF n = m THEN stored[t] # "absent" ELSE t \in known[n]
  BY <1>1 DEF LoadTasks, FreeTypeOK
<1>3. \A n \in Managers : loaded'[n] <=> n = m \/ loaded[n]
  BY <1>1 DEF LoadTasks, FreeTypeOK
<1>4. /\ Onward /\ life'[m] = "up" /\ \A t \in FreeTaskIds : home[t] # m
      /\ \A n \in Managers \ {m} : ManagerStays(n)
  BY <1>1, Counters DEF Onward, ManagerStays, OwnerTypeOK, FreeInv, ManagerSound
<1>5. ASSUME NEW t \in FreeTaskIds PROVE TaskInv(t)'
  <2>1. TaskInv(t)
    BY DEF FreeInv
  <2>2. Fresh(t)'
    BY <1>1, <1>2, <2>1 DEF TaskInv, Fresh, Idle
  <2> QED BY <1>1, <1>2, <1>4, <2>2, NotAlone, CopyOfOther
<1>6. ASSUME NEW n \in Managers PROVE ManagerSound(n)'
  <2>1. batch[m] = "none"
    BY <1>1 DEF FreeInv, CalmInv, Calm, Up
  <2> QED BY <1>1, <1>3, <1>4, <2>1 DEF FreeInv, ManagerSound, OwnerTypeOK
<1> QED BY <1>5, <1>6 DEF Sound

\* Nobody works on a database without a live owner.
LEMMA UnownedWork ==
  ASSUME FreeInv, ~OwnerLive, NEW t \in FreeTaskIds PROVE job[t] \in {"none", "ended"}
<1>1. ASSUME NEW m \in Managers PROVE batch[m] = "none"
  BY OwnerAssumption DEF FreeInv, CalmInv, Calm, Holding, Matches, OwnerLive, Up
<1>2. TaskInv(t) /\ job[t] \in Jobs /\ home[t] \in Managers \cup {NoManager}
  BY HomeOf DEF FreeInv
<1> QED BY <1>1, <1>2 DEF TaskInv, JobPlace, Starting, Running, Jobs

\* A recovery ends the tasks of its own copy that nobody works on.
LEMMA RecoverStep == ASSUME FreeInv, FreeTypeOK', NEW m \in Managers, RecoverTasks(m) PROVE Sound
<1>1. /\ Up(m) /\ loaded[m] /\ loaded' = [loaded EXCEPT ![m] = FALSE] /\ UNCHANGED <<batch, life>>
      /\ UNCHANGED <<stored, known, job, home, drained, promoted, deleted, lostSaves, requests>>
      /\ FreeTypeOK
  BY DEF RecoverTasks, ownerVars, FreeInv
<1>2. /\ Onward /\ life'[m] # "off" /\ \A t \in FreeTaskIds : home[t] # m
  BY <1>1, Counters DEF Onward, FreeInv, ManagerSound, Up
<1>3. \A r \in Savers : r # m => saving'[r] = saving[r]
  BY <1>1, AskRows, SaverSets DEF RecoverTasks
<1>4. \A n \in Managers \ {m} : ManagerStays(n)
  BY <1>1, <1>3, SaverSets DEF ManagerStays
<1>5. \A t \in FreeTaskIds, n \in Managers : n # m => local'[n][t] = local[n][t]
  BY <1>1, RecoveredRows DEF FreeTypeOK
<1>6. \A t \in FreeTaskIds : (local'[m][t] = "absent" <=> local[m][t] = "absent")
  <2>1. \A x : RecoveredStatus(x) = "absent" <=> x = "absent"
    BY DEF RecoveredStatus
  <2>2. CASE UNCHANGED local
    BY <2>2
  <2>3. CASE local' = [local EXCEPT ![m] = [t \in FreeTaskIds |-> RecoveredStatus(local[m][t])]]
    <3>1. \A t \in FreeTaskIds : local'[m][t] = RecoveredStatus(local[m][t])
      BY <1>1, <2>3 DEF FreeTypeOK
    <3> QED BY <2>1, <3>1
  <2> QED BY <2>2, <2>3, RecoveredRows
<1>7. \A t \in FreeTaskIds : local'[m][t] # local[m][t] => ~OwnerLive
  BY DEF RecoverTasks, Unowned
<1>8. ASSUME NEW t \in FreeTaskIds PROVE TaskInv(t)'
  <2>1. TaskInv(t)
    BY DEF FreeInv
  <2>2. Fresh(t)'
    <3>1. saving'[t] = saving[t]
      BY <1>3, SaverSets
    <3> QED BY <1>1, <1>5, <1>6, <2>1, <3>1 DEF TaskInv, Fresh, Idle
  <2>3. t \in known'[m] /\ local'[m][t] = "absent" => t \in deleted'
    BY <1>1, <1>2, <1>6, <2>1 DEF TaskInv, DroppedByOwn
  <2>4. t \notin deleted' /\ job[t] \in Live /\ local'[m][t] \in Finished => stored[t] \in Finished
    <3>1. CASE local'[m][t] = local[m][t]
      BY <1>1, <1>2, <2>1, <3>1 DEF TaskInv, EndIsStored
    <3>2. CASE local'[m][t] # local[m][t]
      BY <1>7, <3>2, UnownedWork DEF Live
    <3> QED BY <3>1, <3>2
  <2>5. \A n \in Managers : home[t] = n => ManagerStays(n) /\ ~Alone(n)'
    BY <1>2, <1>4, NotAlone
  <2> QED BY <1>1, <1>2, <1>5, <1>6, <2>2, <2>3, <2>4, <2>5, CopyOfOther
<1>9. \A n \in Managers : ManagerSound(n)'
  BY <1>1 DEF FreeInv, ManagerSound, FreeTypeOK, Up
<1> QED BY <1>8, <1>9 DEF Sound

\* A process that is gone takes its copy, its saves and its workers along.
LEMMA LeaveStep == ASSUME FreeInv, FreeTypeOK', NEW m \in Managers, LeaveProcess(m) PROVE Sound
<1>1. /\ life' = [life EXCEPT ![m] = "dead"] /\ batch' = [batch EXCEPT ![m] = "none"]
      /\ UNCHANGED <<stored, home, promoted, deleted, lostSaves, requests>>
      /\ OwnerTypeOK /\ FreeTypeOK
  BY DEF LeaveProcess, OwnerCrash, Exit, Gone, FreeInv, CalmInv
<1>2. \A t \in FreeTaskIds, n \in Managers :
         /\ local'[n][t] = IF n = m THEN "absent" ELSE local[n][t]
         /\ t \in known'[n] <=> n # m /\ t \in known[n]
  BY <1>1 DEF LeaveProcess, FreeTypeOK, Nothing
<1>3. \A t \in FreeTaskIds : /\ job'[t] = IF home[t] = m THEN "ended" ELSE job[t]
                             /\ saving'[t] = IF home[t] = m THEN "idle" ELSE saving[t]
  BY SaverSets DEF LeaveProcess, Own
<1>4. \A n \in Managers \ {m} : saving'[n] = saving[n] /\ drained'[n] = drained[n] /\ loaded'[n] = loaded[n]
  BY <1>1, SaverSets DEF LeaveProcess, Own, FreeTypeOK
<1>5. ~loaded'[m] /\ ~drained'[m] /\ life'[m] = "dead"
  BY <1>1 DEF LeaveProcess, FreeTypeOK, OwnerTypeOK
<1>6. Onward /\ \A n \in Managers \ {m} : ManagerStays(n) /\ batch'[n] = batch[n] /\ life'[n] = life[n]
  BY <1>1, <1>4, <1>5, Counters DEF Onward, ManagerStays, OwnerTypeOK
<1>7. ASSUME NEW t \in FreeTaskIds, home[t] = m PROVE TaskInv(t)'
  <2>1. TaskInv(t) /\ m # NoManager /\ home'[t] = m /\ job'[t] = "ended" /\ local'[m][t] = "absent"
    BY <1>1, <1>2, <1>3, <1>7, OwnerAssumption DEF FreeInv
  <2>2. Fresh(t)' /\ JobPlace(t)' /\ EndIsStored(t)' /\ NeverSaved(t)' /\ EndIsTold(t)' /\ RollsBack(t)'
    BY <1>5, <2>1 DEF Fresh, JobPlace, EndIsStored, NeverSaved, EndIsTold, RollsBack, Starting, Running, Live, Alone, Up
  <2>3. DroppedByOwn(t)'
    BY <1>1, <1>2, <1>7, <2>1 DEF TaskInv, DroppedByOwn
  <2> QED BY <2>2, <2>3 DEF TaskInv
<1>8. ASSUME NEW t \in FreeTaskIds, home[t] # m PROVE TaskInv(t)'
  <2>1. TaskInv(t)
    BY DEF FreeInv
  <2>2. Fresh(t)'
    BY <1>1, <1>2, <1>3, <1>8, <2>1 DEF TaskInv, Fresh, Idle
  <2>3. \A n \in Managers : home[t] = n => ManagerStays(n) /\ ~Alone(n)'
    BY <1>5, <1>6, <1>8, NotAlone
  <2>4. job'[t] = job[t] /\ "absent" \notin Finished
    BY <1>3, <1>8, StatusSets
  <2> QED BY <1>1, <1>2, <1>6, <1>8, <2>2, <2>3, <2>4, CopyOfOther
<1>9. ASSUME NEW n \in Managers PROVE ManagerSound(n)'
  BY <1>1, <1>4, <1>5, <1>6 DEF FreeInv, ManagerSound
<1> QED BY <1>7, <1>8, <1>9 DEF Sound

\* Once an operator asked for something no manager is alone.
LEMMA NotUnasked ==
  ASSUME FreeTypeOK, Request
  PROVE  (\A n \in Managers : ~Alone(n)') /\ requests' >= requests
<1>1. requests \in Nat /\ requests' = requests + 1
  BY Counters DEF Request
<1> QED BY <1>1 DEF Alone

\* A deletion drops the task from one copy.
LEMMA DeleteStep ==
  ASSUME FreeInv, FreeTypeOK', NEW m \in Managers, NEW t \in FreeTaskIds, DeleteTask(m, t) PROVE Sound
<1>1. /\ Up(m) /\ LockFree(m) /\ Idle(m) /\ local[m][t] \in Finished /\ UNCHANGED <<batch, life>>
      /\ UNCHANGED <<stored, known, job, home, loaded, drained, promoted, lostSaves>>
      /\ deleted' = deleted \cup {t} /\ FreeTypeOK
  BY DEF DeleteTask, ownerVars, FreeInv
<1>2. saving'[m] = "asked" /\ \A r \in Savers : r # m => saving'[r] = saving[r]
  BY <1>1, AskRows, SaverSets DEF DeleteTask
<1>3. \A n \in Managers, u \in FreeTaskIds : local'[n][u] = IF n = m /\ u = t THEN "absent" ELSE local[n][u]
  BY <1>1, SetRows, StatusSets DEF DeleteTask
<1>4. /\ Onward /\ (\A n \in Managers : ~Alone(n)') /\ \A u \in FreeTaskIds : saving'[u] = saving[u]
      /\ \A n \in Managers : ManagerStays(n)
  BY <1>1, <1>2, NotUnasked, Counters, SaverSets DEF Onward, ManagerStays, DeleteTask
<1>5. TaskInv(t)'
  <2>1. TaskInv(t) /\ home[t] # NoManager
    BY <1>1, StatusSets DEF FreeInv, TaskInv, Fresh
  <2>2. home'[t] = home[t] /\ job'[t] = job[t] /\ t \in deleted'
    BY <1>1
  <2>3. JobPlace(t)'
    BY <1>1, <1>3, <2>1, <2>2 DEF TaskInv, JobPlace, LockFree, Starting, Up
  <2>4. Fresh(t)' /\ DroppedByOwn(t)' /\ EndIsStored(t)' /\ NeverSaved(t)' /\ EndIsTold(t)' /\ RollsBack(t)'
    BY <1>4, <2>1, <2>2 DEF Fresh, DroppedByOwn, EndIsStored, NeverSaved, EndIsTold, RollsBack
  <2> QED BY <2>3, <2>4 DEF TaskInv
<1>6. ASSUME NEW u \in FreeTaskIds, u # t PROVE TaskInv(u)'
  <2>1. RowStays(u)
    BY <1>1, <1>3, <1>6 DEF RowStays
  <2> QED BY <1>4, <2>1, TaskKept
<1>7. \A n \in Managers : ManagerSound(n)'
  BY <1>1 DEF FreeInv, ManagerSound
<1> QED BY <1>5, <1>6, <1>7 DEF Sound

\* A plan check makes a partial success a success.
LEMMA PromoteStep == ASSUME FreeInv, FreeTypeOK', NEW t \in FreeTaskIds, PromoteTask(t) PROVE Sound
<1> DEFINE m == home[t]
<1>1. /\ m \in Managers /\ job[t] = "ended" /\ local[m][t] = "partial_success" /\ UNCHANGED <<batch, life>>
      /\ UNCHANGED <<stored, known, job, home, loaded, drained, deleted, lostSaves>>
      /\ promoted' = promoted \cup {t} /\ FreeTypeOK
      /\ Set(m, {t}, "success") /\ Ask(t) /\ Request
  BY DEF PromoteTask, ownerVars, FreeInv
<1> HIDE DEF m
<1>2. \A r \in Savers : r # t => saving'[r] = saving[r]
  BY <1>1, AskRows, SaverSets
<1>3. \A n \in Managers, u \in FreeTaskIds : local'[n][u] = IF n = m /\ u = t THEN "success" ELSE local[n][u]
  BY <1>1, SetRows, StatusSets
<1>4. /\ Onward /\ (\A n \in Managers : ~Alone(n)') /\ \A u \in FreeTaskIds : u # t => saving'[u] = saving[u]
      /\ \A n \in Managers : ManagerStays(n)
  BY <1>1, <1>2, NotUnasked, Counters, SaverSets DEF Onward, ManagerStays
<1>5. TaskInv(t)'
  <2>1. TaskInv(t) /\ m # NoManager /\ home[t] = m
    BY <1>1, OwnerAssumption DEF FreeInv, m
  <2>2. home'[t] = m /\ job'[t] = "ended" /\ t \in promoted' /\ local'[m][t] = "success"
    BY <1>1, <1>3, <2>1
  <2>3. JobPlace(t)'
    BY <2>1, <2>2, StatusSets DEF JobPlace, Starting, Running
  <2>4. DroppedByOwn(t)' /\ NeverSaved(t)'
    BY <1>1, <1>3, <2>1, <2>2 DEF TaskInv, DroppedByOwn, NeverSaved
  <2>5. Fresh(t)' /\ EndIsStored(t)' /\ EndIsTold(t)' /\ RollsBack(t)'
    BY <1>4, <2>1, <2>2 DEF Fresh, EndIsStored, EndIsTold, RollsBack, Live
  <2> QED BY <2>3, <2>4, <2>5 DEF TaskInv
<1>6. ASSUME NEW u \in FreeTaskIds, u # t PROVE TaskInv(u)'
  <2>1. RowStays(u)
    BY <1>1, <1>3, <1>6 DEF RowStays
  <2> QED BY <1>4, <1>6, <2>1, TaskKept
<1>7. \A n \in Managers : ManagerSound(n)'
  BY <1>1 DEF FreeInv, ManagerSound
<1> QED BY <1>5, <1>6, <1>7 DEF Sound

\* stop() ends the queued tasks of its own batch.
LEMMA StopStep == ASSUME FreeInv, FreeTypeOK', NEW m \in Managers, StopTasks(m) PROVE Sound
<1> DEFINE tasks == {t \in Batch(m) : local[m][t] = "queued"}
<1>1. /\ batch[m] \in {"running", "draining"} /\ UNCHANGED <<batch, life>>
      /\ UNCHANGED <<stored, known, job, home, loaded, drained, promoted, deleted, lostSaves>>
      /\ FreeTypeOK /\ Set(m, tasks, "stopped") /\ Ask(m) /\ Request
  BY DEF StopTasks, ownerVars, FreeInv
<1>2. saving'[m] = "asked" /\ \A r \in Savers : r # m => saving'[r] = saving[r]
  BY <1>1, AskRows, SaverSets
<1>3. \A t \in FreeTaskIds : t \in tasks <=> home[t] = m /\ job[t] # "ended" /\ local[m][t] = "queued"
  BY BatchIs
<1> HIDE DEF tasks
<1>4. \A n \in Managers, t \in FreeTaskIds : local'[n][t] = IF n = m /\ t \in tasks THEN "stopped" ELSE local[n][t]
  BY <1>1, SetRows, StatusSets
<1>5. /\ Onward /\ (\A n \in Managers : ~Alone(n)') /\ \A t \in FreeTaskIds : saving'[t] = saving[t]
      /\ \A n \in Managers : ManagerStays(n)
  BY <1>1, <1>2, NotUnasked, Counters, SaverSets DEF Onward, ManagerStays
<1>6. ASSUME NEW t \in FreeTaskIds, t \in tasks PROVE TaskInv(t)'
  <2>1. TaskInv(t) /\ m # NoManager /\ home[t] = m /\ job[t] # "ended" /\ local[m][t] = "queued"
    BY <1>3, <1>6, OwnerAssumption DEF FreeInv
  <2>2. /\ stored'[t] = stored[t] /\ home'[t] = m /\ job'[t] = job[t] /\ local'[m][t] = "stopped"
        /\ \A n \in Managers : n # m => local'[n][t] = local[n][t]
    BY <1>1, <1>4, <1>6, <2>1
  <2>3. JobPlace(t)'
    BY <1>1, <2>1, <2>2, StatusSets DEF TaskInv, JobPlace, Starting, Running, Up
  <2>4. DroppedByOwn(t)' /\ EndIsStored(t)' /\ NeverSaved(t)'
    BY <1>1, <2>1, <2>2 DEF TaskInv, DroppedByOwn, EndIsStored, NeverSaved
  <2>5. Fresh(t)' /\ EndIsTold(t)' /\ RollsBack(t)'
    BY <1>5, <2>1, <2>2 DEF Fresh, EndIsTold, RollsBack
  <2> QED BY <2>3, <2>4, <2>5 DEF TaskInv
<1>7. ASSUME NEW t \in FreeTaskIds, t \notin tasks PROVE TaskInv(t)'
  <2>1. RowStays(t)
    BY <1>1, <1>4, <1>7 DEF RowStays
  <2> QED BY <1>5, <2>1, TaskKept
<1>8. \A n \in Managers : ManagerSound(n)'
  BY <1>1 DEF FreeInv, ManagerSound
<1> QED BY <1>6, <1>7, <1>8 DEF Sound

-----------------------------------------------------------------------------
(* Workers and their last callbacks.                                       *)

\* Whoever runs a batch owns the database, with nothing of the start left to do.
LEMMA RunnerIs ==
  ASSUME FreeInv, NEW t \in FreeTaskIds, job[t] \in Running
  PROVE  /\ home[t] \in Managers /\ Up(home[t]) /\ OwnerCurrent(home[t]) /\ batch[home[t]] = "running"
         /\ ~loaded[home[t]] /\ ~drained[home[t]]
<1>1. home[t] \in Managers
  BY HomeOf DEF Running
<1>2. PICK m \in Managers : m = home[t]
  BY <1>1
<1>3. Up(m) /\ batch[m] = "running"
  BY <1>2 DEF FreeInv, TaskInv, JobPlace
<1>4. OwnerCurrent(m) /\ ~loaded[m] /\ ~drained[m]
  BY <1>3 DEF FreeInv, CalmInv, Calm, OwnerCurrent, ManagerSound
<1> QED BY <1>2, <1>3, <1>4

\* A worker's step: it announces or ends its work, and asks for its save.
LEMMA WorkerStep ==
  ASSUME FreeInv, FreeTypeOK', NEW t \in FreeTaskIds, NEW m \in Managers, home[t] = m,
         job[t] \in {"queued", "working", "halting"}, NEW status \in Status \ {"absent"}, NEW j \in Running,
         Set(m, Present(m, {t}), status), Ask(t), job' = [job EXCEPT ![t] = j],
         j = "leaving" => status \in Finished,
         j # "leaving" => status = "running",
         UNCHANGED <<ownerVars, stored, known, home, loaded, drained, promoted, deleted, lostSaves, requests>>
  PROVE  Sound
<1>1. /\ FreeTypeOK /\ UNCHANGED <<batch, life>> /\ Up(m) /\ batch[m] = "running" /\ m # NoManager
      /\ job'[t] = j /\ \A u \in FreeTaskIds : u # t => job'[u] = job[u]
  BY RunnerIs, OwnerAssumption DEF ownerVars, FreeInv, FreeTypeOK, Running
<1>2. \A r \in Savers : r # t => saving'[r] = saving[r]
  BY <1>1, AskRows, SaverSets
<1>3. \A n \in Managers, u \in FreeTaskIds :
         local'[n][u] = IF n = m /\ u = t /\ local[m][t] # "absent" THEN status ELSE local[n][u]
  BY <1>1, SetRows DEF Present
<1>4. /\ Onward /\ \A u \in FreeTaskIds : u # t => saving'[u] = saving[u]
      /\ \A n \in Managers : ManagerStays(n)
  BY <1>1, <1>2, Counters, SaverSets DEF Onward, ManagerStays
<1>5. TaskInv(t)'
  <2>1. TaskInv(t)
    BY DEF FreeInv
  <2>2. /\ local'[m][t] = "absent" <=> local[m][t] = "absent"
        /\ local'[m][t] \in {"absent", status}
    BY <1>3
  <2>3. Fresh(t)' /\ JobPlace(t)'
    BY <1>1, <2>2 DEF Fresh, JobPlace, Starting, Running, Up
  <2>4. DroppedByOwn(t)'
    BY <1>1, <1>3, <2>1, <2>2 DEF TaskInv, DroppedByOwn
  <2>5. EndIsStored(t)'
    BY <1>1, <1>3, <2>1 DEF TaskInv, EndIsStored, Live, Running
  <2>6. NeverSaved(t)' /\ EndIsTold(t)'
    BY <1>1, <1>3, <2>1, <2>2 DEF TaskInv, NeverSaved, EndIsTold, Running
  <2>7. RollsBack(t)'
    <3>1. Alone(m)' => Alone(m)
      BY <1>1, <1>4, AloneBefore
    <3>2. Alone(m) => local[m][t] # "absent"
      BY <2>1 DEF TaskInv, RollsBack
    <3> QED BY <1>1, <2>2, <3>1, <3>2 DEF RollsBack, Running
  <2> QED BY <2>3, <2>4, <2>5, <2>6, <2>7 DEF TaskInv
<1>6. ASSUME NEW u \in FreeTaskIds, u # t PROVE TaskInv(u)'
  <2>1. RowStays(u)
    BY <1>1, <1>3, <1>6 DEF RowStays
  <2> QED BY <1>4, <1>6, <2>1, TaskKept
<1>7. \A n \in Managers : ManagerSound(n)'
  BY <1>1 DEF FreeInv, ManagerSound
<1> QED BY <1>5, <1>6, <1>7 DEF Sound

\* A worker announces that it runs.
LEMMA BeginStep == ASSUME FreeInv, FreeTypeOK', NEW t \in FreeTaskIds, BeginWork(t) PROVE Sound
<1>1. PICK m \in Managers : m = home[t] /\ OwnerCurrent(m) /\ job[t] = "queued"
  BY RunnerIs DEF BeginWork, Running
<1>2. PICK j \in {"halting", "working"} : job' = [job EXCEPT ![t] = j]
  BY <1>1 DEF BeginWork
<1>3. /\ Set(m, Present(m, {t}), "running") /\ Ask(t)
      /\ UNCHANGED <<ownerVars, stored, known, home, loaded, drained, promoted, deleted, lostSaves, requests>>
  BY <1>1 DEF BeginWork
<1>4. "running" \in Status \ {"absent"} /\ j \in Running /\ j # "leaving"
  BY StatusSets DEF Running
<1> QED BY <1>1, <1>2, <1>3, <1>4, WorkerStep

\* A worker ends with its outcome.
LEMMA EndStep ==
  ASSUME FreeInv, FreeTypeOK', NEW t \in FreeTaskIds, NEW outcome \in Outcomes, EndWork(t, outcome) PROVE Sound
<1>1. PICK m \in Managers : m = home[t] /\ OwnerCurrent(m) /\ job[t] \in {"working", "halting"}
  BY RunnerIs DEF EndWork, Running
<1>2. job' = [job EXCEPT ![t] = "leaving"]
  BY DEF EndWork
<1>3. /\ Set(m, Present(m, {t}), outcome) /\ Ask(t)
      /\ UNCHANGED <<ownerVars, stored, known, home, loaded, drained, promoted, deleted, lostSaves, requests>>
  BY <1>1 DEF EndWork
<1>4. outcome \in Status \ {"absent"} /\ outcome \in Finished /\ "leaving" \in Running
  BY StatusSets, FreeTaskAssumption DEF Running
<1> QED BY <1>1, <1>2, <1>3, <1>4, WorkerStep

\* A completion callback asks for a save: of its task, or of all when it is the last.
LEMMA FutureStep == ASSUME FreeInv, FreeTypeOK', NEW t \in FreeTaskIds, FutureDone(t) PROVE Sound
<1>1. PICK m \in Managers : /\ m = home[t] /\ Up(m) /\ batch[m] = "running" /\ job[t] = "leaving"
                            /\ ~loaded[m] /\ ~drained[m]
  BY RunnerIs DEF FutureDone, Running
<1>2. /\ job' = [job EXCEPT ![t] = "ended"] /\ life' = life /\ FreeTypeOK /\ OwnerTypeOK
      /\ UNCHANGED <<stored, known, local, home, loaded, drained, promoted, deleted, lostSaves, requests>>
  BY DEF FutureDone, LastFuture, ownerVars, FreeInv, CalmInv
<1>3. \A u \in FreeTaskIds : job'[u] = IF u = t THEN "ended" ELSE job[u]
  BY <1>2 DEF FreeTypeOK
<1>4. ASSUME \A r \in Savers \ {m, t} : saving'[r] = saving[r], saving[m] # "idle" => saving'[m] # "idle",
             \A n \in Managers : n # m => batch'[n] = batch[n], batch'[m] # "none",
             SaveToCome(m)', \A u \in FreeTaskIds : u # t /\ home[u] = m => job[u] = "ended" \/ batch'[m] = batch[m]
      PROVE  Sound
  <2>1. Onward /\ \A n \in Managers : n # m => ManagerStays(n)
    BY <1>2, <1>4, Counters, SaverSets DEF Onward, ManagerStays
  <2>2. \A u \in FreeTaskIds : u # t => RowStays(u) /\ saving'[u] = saving[u]
    BY <1>2, <1>3, <1>4, SaverSets DEF RowStays
  <2>3. TaskInv(t)'
    <3>1. TaskInv(t) /\ m # NoManager /\ home'[t] = m /\ job'[t] = "ended"
      BY <1>1, <1>2, <1>3, OwnerAssumption DEF FreeInv
    <3>2. JobPlace(t)'
      BY <1>1, <1>2, <3>1 DEF TaskInv, JobPlace, Starting, Running
    <3>3. DroppedByOwn(t)' /\ NeverSaved(t)'
      BY <1>1, <1>2, <3>1 DEF TaskInv, DroppedByOwn, NeverSaved
    <3>4. Fresh(t)' /\ EndIsStored(t)' /\ EndIsTold(t)'
      BY <1>1, <1>4, <3>1 DEF Fresh, EndIsStored, EndIsTold, Live
    <3>5. RollsBack(t)'
      <4>1. Alone(m)' => Alone(m)
        BY <1>2, <2>1, AloneBefore
      <4>2. Alone(m) => local[m][t] # "absent"
        BY <1>1, <3>1 DEF TaskInv, RollsBack
      <4> QED BY <1>2, <3>1, <4>1, <4>2 DEF RollsBack
    <3> QED BY <3>2, <3>3, <3>4, <3>5 DEF TaskInv
  <2>4. ASSUME NEW u \in FreeTaskIds, u # t PROVE TaskInv(u)'
    <3>1. CASE home[u] # m
      BY <2>1, <2>2, <2>4, <3>1, TaskKept
    <3>2. CASE home[u] = m /\ job[u] = "ended"
      BY <1>1, <1>2, <1>4, <2>1, <2>2, <2>4, <3>2, EndedKept
    <3>3. CASE home[u] = m /\ batch'[m] = batch[m]
      <4>1. ManagerStays(m)
        BY <1>2, <1>4, <3>3 DEF ManagerStays
      <4> QED BY <2>1, <2>2, <2>4, <3>3, <4>1, TaskKept
    <3> QED BY <1>4, <2>4, <3>1, <3>2, <3>3
  <2>5. \A n \in Managers : ManagerSound(n)'
    BY <1>1, <1>2, <1>4 DEF FreeInv, ManagerSound, Up
  <2> QED BY <2>3, <2>4, <2>5 DEF Sound
<1>5. CASE Ask(t) /\ UNCHANGED ownerVars
  <2>1. \A r \in Savers : r # t => saving'[r] = saving[r]
    BY <1>2, <1>5, AskRows, SaverSets
  <2>2. batch' = batch /\ m # t /\ m \in Savers
    BY <1>5, SaverSets DEF ownerVars
  <2>3. SaveToCome(m)'
    BY <1>1, <2>2 DEF SaveToCome
  <2> QED BY <1>1, <1>4, <2>1, <2>2, <2>3
<1>6. CASE Batch(m) = {t} /\ LastFuture(m) /\ Ask(m)
  <2>1. saving'[m] = "asked" /\ \A r \in Savers : r # m => saving'[r] = saving[r]
    BY <1>2, <1>6, AskRows, SaverSets
  <2>2. batch'[m] = "draining" /\ \A n \in Managers : n # m => batch'[n] = batch[n]
    BY <1>2, <1>6 DEF LastFuture, SetBatch, OwnerTypeOK
  <2>3. SaveToCome(m)'
    BY <1>1, <1>2, <2>1, <2>2 DEF SaveToCome, Idle
  <2>4. \A u \in FreeTaskIds : u # t /\ home[u] = m => job[u] = "ended"
    BY <1>6, BatchIs
  <2> QED BY <1>4, <2>1, <2>2, <2>3, <2>4
<1> QED BY <1>1, <1>5, <1>6 DEF FutureDone

-----------------------------------------------------------------------------
(* The save.                                                               *)

\* A save writes a snapshot over rows that others may have written since: a finished row wins,
\* only the deleted or rolled back are pruned, and the copy follows the table.
LEMMA SaveStep == ASSUME FreeInv, FreeTypeOK', NEW s \in Savers, WriteSave(s) PROVE Sound
<1>1. PICK m \in Managers : m = Writer(s)
  BY WriterIs DEF WriteSave
<1>2. /\ Up(m) /\ UNCHANGED <<batch, life>> /\ saving' = [saving EXCEPT ![s] = "idle"] /\ FreeTypeOK
      /\ UNCHANGED <<job, home, loaded, drained, promoted, deleted, lostSaves, requests>>
  BY <1>1 DEF WriteSave, ownerVars, FreeInv
<1>3. /\ s \in Managers => s = m
      /\ \A n \in Managers : n # s => saving'[n] = saving[n]
      /\ s = m => saving[m] = "asked"
      /\ \A t \in FreeTaskIds : saving[t] = "idle" => saving'[t] = "idle"
  BY <1>1, <1>2, SaverSets DEF Writer, FreeTypeOK, WriteSave
<1>4. \A t \in FreeTaskIds :
         /\ t \in Snapshot(s) =>
               /\ local[m][t] # "absent" /\ t \notin Pruned(s) /\ local'[m][t] = stored'[t]
               /\ stored'[t] = IF stored[t] \in Finished THEN stored[t] ELSE local[m][t]
         /\ t \notin Snapshot(s) => local'[m][t] = local[m][t]
         /\ t \in Pruned(s) =>
               s = m /\ t \in known[m] /\ local[m][t] = "absent" /\ stored[t] \in Finished /\ stored'[t] = "absent"
         /\ t \notin Snapshot(s) /\ t \notin Pruned(s) => stored'[t] = stored[t]
  BY <1>1, <1>2, <1>3, SaveRows
<1>5. \A t \in FreeTaskIds :
         /\ t \in known'[m] <=> (t \in known[m] \/ t \in Snapshot(s)) /\ t \notin Pruned(s)
         /\ \A n \in Managers : n # m => local'[n][t] = local[n][t] /\ (t \in known'[n] => t \in known[n])
  BY <1>1, <1>2, SaveRows
<1>6. s = m => \A t \in FreeTaskIds : /\ local[m][t] # "absent" => t \in Snapshot(s)
                                      /\ t \in known[m] /\ local[m][t] = "absent" /\ stored[t] \in Finished
                                         => t \in Pruned(s)
  BY <1>1 DEF Snapshot, Pruned
<1>7. ASSUME NEW t \in FreeTaskIds PROVE TaskInv(t)'
  <2>1. TaskInv(t)
    BY DEF FreeInv
  <2>2. Fresh(t)'
    BY <1>2, <1>3, <1>4, <1>5, <2>1 DEF TaskInv, Fresh, Idle
  <2>3. local'[m][t] = "absent" => t \notin Snapshot(s) /\ local[m][t] = "absent"
    BY <1>4, StatusSets
  <2>4. JobPlace(t)'
    <3>1. local[m][t] # "absent" => local'[m][t] # "absent"
      BY <1>4, StatusSets
    <3>2. local[m][t] \in Finished \cup {"absent"} => local'[m][t] \in Finished \cup {"absent"}
      BY <1>4
    <3> QED BY <1>2, <1>5, <2>1, <3>1, <3>2 DEF TaskInv, JobPlace, Up
  <2>5. DroppedByOwn(t)'
    BY <1>2, <1>5, <2>1, <2>3 DEF TaskInv, DroppedByOwn
  <2>6. ASSUME t \notin deleted, t \in Pruned(s) PROVE m = home[t] /\ job[t] = "ended"
    BY <1>4, <2>1, <2>6 DEF TaskInv, DroppedByOwn
  <2>7. EndIsStored(t)'
    <3> SUFFICES ASSUME t \notin deleted, job[t] \in Live, NEW n \in Managers, n # home[t], local'[n][t] \in Finished
                 PROVE  stored'[t] \in Finished
      BY <1>2 DEF EndIsStored
    <3>1. t \notin Pruned(s)
      BY <2>6 DEF Live
    <3>2. stored[t] \in Finished => stored'[t] \in Finished
      BY <1>4, <3>1
    <3>3. CASE n = m /\ t \in Snapshot(s)
      BY <1>4, <3>3
    <3>4. CASE n # m \/ t \notin Snapshot(s)
      BY <1>4, <1>5, <2>1, <3>2, <3>4 DEF TaskInv, EndIsStored
    <3> QED BY <3>3, <3>4
  <2>8. NeverSaved(t)'
    <3> SUFFICES ASSUME NEW h \in Managers, home[t] = h, t \notin deleted, stored'[t] = "absent",
                        local'[h][t] # "absent", NEW n \in Managers, n # h
                 PROVE  local'[n][t] = "absent"
      BY <1>2 DEF NeverSaved
    <3>1. t \notin Pruned(s)
      BY <1>4, <2>6
    <3>2. t \notin Snapshot(s)
      BY <1>4, StatusSets
    <3> QED BY <1>4, <1>5, <2>1, <3>1, <3>2 DEF TaskInv, NeverSaved
  <2>9. EndIsTold(t)'
    <3> SUFFICES ASSUME NEW h \in Managers, home[t] = h, job[t] = "ended", t \notin promoted \cup deleted,
                        lostSaves <= 1, local'[h][t] # "absent", stored'[t] \notin {local'[h][t], "absent"}
                 PROVE  SaveToCome(h)'
      BY <1>2 DEF EndIsTold
    <3>1. CASE h = m
      <4>1. t \notin Snapshot(s) /\ t \notin Pruned(s) /\ s # m
        BY <1>4, <1>6, <3>1
      <4>2. SaveToCome(m)
        BY <1>4, <2>1, <3>1, <4>1 DEF TaskInv, EndIsTold
      <4> QED BY <1>2, <1>3, <3>1, <4>1, <4>2 DEF SaveToCome, Idle
    <3>2. CASE h # m
      <4>1. local[h][t] \in Finished /\ local'[h][t] = local[h][t]
        BY <1>5, <2>1, <3>2 DEF TaskInv, JobPlace
      <4>2. stored[t] # local[h][t]
        BY <1>4, <4>1
      <4>3. stored[t] # "absent"
        <5>1. stored[t] = "absent" => local[m][t] = "absent"
          BY <2>1, <3>2, <4>1, StatusSets DEF TaskInv, NeverSaved
        <5> QED BY <1>4, <5>1
      <4>4. SaveToCome(h) /\ saving'[h] = saving[h]
        BY <1>3, <2>1, <3>2, <4>1, <4>2, <4>3 DEF TaskInv, EndIsTold
      <4> QED BY <1>2, <4>4 DEF SaveToCome, Idle
    <3> QED BY <3>1, <3>2
  <2>10. RollsBack(t)'
    <3> SUFFICES ASSUME NEW h \in Managers, home[t] = h, Alone(h)'
                 PROVE  /\ job[t] = "created" => saving'[h] # "idle" \/ (stored'[t] # "absent" /\ t \in known'[h])
                        /\ job[t] = "rolledback" =>
                              /\ t \in known'[h] /\ stored'[t] # "absent" /\ local'[h][t] \in Finished
                              /\ saving'[h] # "idle" \/ stored'[t] \in Finished
                        /\ local'[h][t] = "absent" =>
                              /\ job[t] = "ended"
                              /\ \/ stored'[t] = "absent"
                                 \/ /\ saving'[h] # "idle" /\ batch[h] = "starting"
                                    /\ t \in known'[h] /\ stored'[t] \in Finished
      BY <1>2 DEF RollsBack, Idle
    <3>1. Alone(h) /\ h = m
      BY <1>2 DEF Alone, Up
    <3>2. ASSUME job[t] = "created"
          PROVE  saving'[m] # "idle" \/ (stored'[t] # "absent" /\ t \in known'[m])
      <4>1. local[m][t] # "absent" /\ t \notin Pruned(s)
        BY <1>4, <2>1, <3>1, <3>2 DEF TaskInv, JobPlace, Starting
      <4>2. saving[m] # "idle" \/ (stored[t] # "absent" /\ t \in known[m])
        BY <2>1, <3>1, <3>2 DEF TaskInv, RollsBack, Idle
      <4>3. CASE s = m
        BY <1>4, <1>5, <1>6, <4>1, <4>3, StatusSets
      <4>4. CASE s # m
        BY <1>3, <1>4, <1>5, <4>1, <4>2, <4>4, StatusSets
      <4> QED BY <4>3, <4>4
    <3>3. ASSUME job[t] = "rolledback"
          PROVE  /\ t \in known'[m] /\ stored'[t] # "absent" /\ local'[m][t] \in Finished
                 /\ saving'[m] # "idle" \/ stored'[t] \in Finished
      <4>1. /\ t \in known[m] /\ stored[t] # "absent" /\ local[m][t] \in Finished
            /\ saving[m] # "idle" \/ stored[t] \in Finished
        BY <2>1, <3>1, <3>3 DEF TaskInv, RollsBack, Idle
      <4>2. t \notin Pruned(s) /\ local[m][t] # "absent"
        BY <1>4, <4>1, StatusSets
      <4>3. CASE s = m
        BY <1>4, <1>5, <1>6, <4>1, <4>2, <4>3, StatusSets
      <4>4. CASE s # m
        BY <1>3, <1>4, <1>5, <4>1, <4>2, <4>4, StatusSets
      <4> QED BY <4>3, <4>4
    <3>4. ASSUME local'[m][t] = "absent"
          PROVE  /\ job[t] = "ended"
                 /\ \/ stored'[t] = "absent"
                    \/ /\ saving'[m] # "idle" /\ batch[m] = "starting"
                       /\ t \in known'[m] /\ stored'[t] \in Finished
      <4>1. t \notin Snapshot(s) /\ local[m][t] = "absent"
        BY <2>3, <3>4
      <4>2. /\ job[t] = "ended"
            /\ \/ stored[t] = "absent"
               \/ saving[m] # "idle" /\ batch[m] = "starting" /\ t \in known[m] /\ stored[t] \in Finished
        BY <2>1, <3>1, <4>1 DEF TaskInv, RollsBack, Idle
      <4>3. CASE s = m
        BY <1>4, <1>6, <4>1, <4>2, <4>3
      <4>4. CASE s # m
        BY <1>3, <1>4, <1>5, <4>1, <4>2, <4>4
      <4> QED BY <4>3, <4>4
    <3> QED BY <3>1, <3>2, <3>3, <3>4
  <2> QED BY <2>10, <2>2, <2>4, <2>5, <2>7, <2>8, <2>9 DEF TaskInv
<1>8. \A n \in Managers : ManagerSound(n)'
  BY <1>2 DEF FreeInv, ManagerSound
<1> QED BY <1>7, <1>8 DEF Sound

-----------------------------------------------------------------------------
(* The theorems.                                                           *)

\* Every step keeps the invariant.
LEMMA RowsStep ==
  ASSUME Sequential, OwnerPunctual, ~Retries, FreeInv, [FreeNext]_freeVars PROVE FreeInv'
<1>1. CalmInv'
  BY OwnerPart, CalmStep DEF FreeInv
<1>2. FreeTypeOK'
  BY RowsTyped
<1> SUFFICES Sound
  BY <1>1, <1>2 DEF FreeInv, Sound
<1>3. CASE UNCHANGED freeVars
  <2>1. UNCHANGED taskVars /\ UNCHANGED <<batch, life>>
    BY <1>3 DEF freeVars, ownerVars
  <2> QED BY <1>2, <2>1, OwnerSteps
<1>4. CASE Age /\ UNCHANGED taskVars
  BY <1>2, <1>4, AgeStep
<1>5. ASSUME NEW s \in Savers, WriteSave(s) \/ DropSave(s) \/ LoseSave(s) PROVE Sound
  BY <1>2, <1>5, SaveStep, SilentSaveStep
<1>6. ASSUME NEW m \in Managers,
             \/ LoadTasks(m) \/ RecoverTasks(m) \/ ClaimForStart(m) \/ SubmitTasks(m)
             \/ MarkRolledBack(m) \/ DropRolledBack(m) \/ GiveUpStart(m)
             \/ Checkpoint(m) \/ EndBatch(m) \/ StopTasks(m) \/ LeaveProcess(m) \/ OwnerAlone(m)
      PROVE  Sound
  BY <1>2, <1>6, LoadStep, RecoverStep, ClaimRowsStep, SubmitStep, MarkStep, DropStep, GiveUpStep, CheckpointStep,
     EndBatchStep, StopStep, LeaveStep, AloneStep
<1>7. ASSUME NEW m \in Managers, NEW tasks \in SUBSET FreeTaskIds, CreateTasks(m, tasks) PROVE Sound
  BY <1>2, <1>7, CreateStep
<1>8. ASSUME NEW m \in Managers, NEW t \in FreeTaskIds, DeleteTask(m, t) PROVE Sound
  BY <1>2, <1>8, DeleteStep
<1>9. ASSUME NEW t \in FreeTaskIds, BeginWork(t) \/ FutureDone(t) \/ PromoteTask(t) PROVE Sound
  BY <1>2, <1>9, BeginStep, FutureStep, PromoteStep
<1>10. ASSUME NEW t \in FreeTaskIds, NEW outcome \in Outcomes, EndWork(t, outcome) PROVE Sound
  BY <1>2, <1>10, EndStep
<1> QED BY <1>3, <1>4, <1>5, <1>6, <1>7, <1>8, <1>9, <1>10 DEF FreeNext

\* The invariant of the task table.
LEMMA RowsHold == ASSUME Sequential, OwnerPunctual, ~Retries PROVE FreeSpec => []FreeInv
<1>1. FreeInv /\ [FreeNext]_freeVars => FreeInv'
  BY RowsStep
<1> QED BY <1>1, RowsStart, PTL DEF FreeSpec

\* Rows, copies, remembered revisions, saves and workers keep their types, whatever
\* managers, workers and the operator do to the task table.
THEOREM FreeTypeCorrect ==
  ASSUME Sequential, OwnerPunctual, ~Retries PROVE FreeSpec => []FreeTypeOK
<1>1. FreeInv => FreeTypeOK
  BY DEF FreeInv
<1> QED BY <1>1, RowsHold, PTL

\* What it says of a manager at rest.
LEMMA RestIsTold == FreeInv => RowsTellTheTask
<1> SUFFICES ASSUME FreeInv PROVE AgreesAtRest /\ NoOrphanRow
  BY DEF RowsTellTheTask
<1>1. AgreesAtRest
  <2> SUFFICES ASSUME NEW m \in Managers, batch[m] = "none", lostSaves <= 1,
                      NEW t \in Own(m) \ (promoted \cup deleted)
               PROVE  /\ local[m][t] \in Finished \cup {"absent"}
                      /\ local[m][t] # "absent" => stored[t] \in {local[m][t], "absent"}
    BY DEF AgreesAtRest
  <2>1. t \in FreeTaskIds /\ home[t] = m /\ TaskInv(t)
    BY DEF Own, FreeInv
  <2>2. job[t] = "ended" /\ ~SaveToCome(m)
    BY <2>1, NoWorkers DEF SaveToCome
  <2> QED BY <2>1, <2>2 DEF TaskInv, JobPlace, EndIsTold
<1>2. NoOrphanRow
  <2> SUFFICES ASSUME NEW m \in Managers, Up(m), batch[m] = "none", lostSaves = 0, requests = 0,
                      NEW t \in Own(m), local[m][t] = "absent", \A n \in Managers \ {m} : life[n] = "off"
               PROVE  stored[t] = "absent"
    BY DEF NoOrphanRow
  <2>1. t \in FreeTaskIds /\ home[t] = m /\ TaskInv(t) /\ Alone(m)
    BY DEF Own, FreeInv, Alone
  <2> QED BY <2>1 DEF TaskInv, RollsBack
<1> QED BY <1>1, <1>2

\* Once a batch is over, whatever snapshots of workers, full saves and checkpoints overlapped
\* and even when one was lost, the table says of its tasks what the manager says, and a start that
\* was rolled back leaves no row (_save_tasks_safely, _future_done, _rollback_failed_startup).
THEOREM RowsTellAtRest ==
  ASSUME Sequential, OwnerPunctual, ~Retries PROVE FreeSpec => []RowsTellTheTask
  BY RowsHold, RestIsTold, PTL

\* Only a save touches rows.
LEMMA RowsAdvance ==
  ASSUME FreeInv, [FreeNext]_freeVars, NEW t \in FreeTaskIds PROVE FinishedIsFinal(t) /\ WorkIsRespected(t)
<1>1. CASE stored' = stored
  BY <1>1, StatusSets DEF FinishedIsFinal, WorkIsRespected
<1>2. ASSUME NEW s \in Savers, WriteSave(s) PROVE FinishedIsFinal(t) /\ WorkIsRespected(t)
  <2>1. PICK m \in Managers : m = Writer(s)
    BY <1>2, WriterIs DEF WriteSave
  <2>2. FreeTypeOK /\ TaskInv(t)
    BY DEF FreeInv
  <2>3. /\ t \in Snapshot(s) => local[m][t] # "absent"
        /\ t \in Pruned(s) => stored[t] \in Finished
        /\ stored'[t] = IF t \in Pruned(s) THEN "absent"
                        ELSE IF t \in Snapshot(s) /\ (stored[t] \notin Finished \/ stored[t] = local[m][t])
                             THEN local[m][t] ELSE stored[t]
    BY <1>2, <2>1, <2>2, SaveRows
  <2>4. FinishedIsFinal(t)
    BY <2>3 DEF FinishedIsFinal
  <2>5. WorkIsRespected(t)
    <3> SUFFICES ASSUME job[t] \in {"queued", "working", "halting"}, t \notin deleted,
                        stored[t] \notin Finished, stored'[t] \in Finished
                 PROVE  stored'[t] = local[home[t]][t]
      BY StatusSets DEF WorkIsRespected
    <3>1. stored'[t] = local[m][t]
      BY <2>3
    <3>2. m = home[t]
      BY <2>2, <3>1 DEF TaskInv, EndIsStored, Live
    <3> QED BY <3>1, <3>2
  <2> QED BY <2>4, <2>5
<1>3. stored' = stored \/ \E s \in Savers : WriteSave(s)
  <2>1. ASSUME NEW s \in Savers, DropSave(s) \/ LoseSave(s) PROVE stored' = stored
    BY <2>1 DEF DropSave, LoseSave
  <2>2. ASSUME NEW m \in Managers,
               \/ LoadTasks(m) \/ RecoverTasks(m) \/ ClaimForStart(m) \/ SubmitTasks(m)
               \/ MarkRolledBack(m) \/ DropRolledBack(m) \/ GiveUpStart(m)
               \/ Checkpoint(m) \/ EndBatch(m) \/ StopTasks(m) \/ LeaveProcess(m) \/ OwnerAlone(m)
        PROVE  stored' = stored
    BY <2>2 DEF LoadTasks, RecoverTasks, ClaimForStart, SubmitTasks, MarkRolledBack, DropRolledBack, GiveUpStart,
       Checkpoint, EndBatch, StopTasks, LeaveProcess, OwnerAlone, taskVars
  <2>3. ASSUME NEW m \in Managers, NEW u \in FreeTaskIds, DeleteTask(m, u) PROVE stored' = stored
    BY <2>3 DEF DeleteTask
  <2>4. ASSUME NEW m \in Managers, NEW tasks \in SUBSET FreeTaskIds, CreateTasks(m, tasks) PROVE stored' = stored
    BY <2>4 DEF CreateTasks
  <2>5. ASSUME NEW u \in FreeTaskIds, BeginWork(u) \/ FutureDone(u) \/ PromoteTask(u) PROVE stored' = stored
    BY <2>5 DEF BeginWork, FutureDone, PromoteTask
  <2>6. ASSUME NEW u \in FreeTaskIds, NEW outcome \in Outcomes, EndWork(u, outcome) PROVE stored' = stored
    BY <2>6 DEF EndWork
  <2>7. (Age /\ UNCHANGED taskVars) \/ UNCHANGED freeVars => stored' = stored
    BY DEF taskVars, freeVars
  <2> QED BY <2>1, <2>2, <2>3, <2>4, <2>5, <2>6, <2>7 DEF FreeNext
<1> QED BY <1>1, <1>2, <1>3

\* A finished row keeps its end until it is deleted, an unfinished one is never deleted, and
\* nobody but its own manager ends a task that is being worked on, unless somebody deleted it:
\* _save_one refuses what another process's stale copy says.
THEOREM RowsAreFinal ==
  ASSUME Sequential, OwnerPunctual, ~Retries PROVE FreeSpec => RowsOnlyAdvance
<1>1. FreeInv /\ [FreeNext]_freeVars =>
        [\A t \in FreeTaskIds : FinishedIsFinal(t) /\ WorkIsRespected(t)]_freeVars
  BY RowsAdvance
<1> QED BY <1>1, RowsHold, PTL DEF FreeSpec, RowsOnlyAdvance
=============================================================================
