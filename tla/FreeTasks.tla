------------------------------ MODULE FreeTasks ------------------------------
(***************************************************************************)
(* The Free task table (free_storage_tasks.py, free_storage_adapter_task.py) *)
(* and the managers that write it: start-up and its rollback, workers, the *)
(* end of a batch, stop, delete, recovery (free_register_runtime.py,       *)
(* free_register_startup.py, free_register_scheduler.py).  Composed with   *)
(* ManagerOwner: who owns the database decides who may write.              *)
(*                                                                         *)
(* A manager keeps its own copy of the table and writes snapshots of it.   *)
(* A call of _save_tasks_safely is a step of its own, after the change it   *)
(* saves: the snapshot is taken and written under the lock, and whoever    *)
(* else has the lock first is in it.  Only the caller waits for it.        *)
(***************************************************************************)
EXTENDS ManagerOwner

CONSTANTS
    FreeTaskIds,    \* tasks; an id is drawn anew for each one
    Outcomes,       \* bound: the terminal statuses a worker ends with
    MaxLostSaves,   \* bound: saves that the storage fails
    MaxRequests     \* bound: stops, deletions and promotions

Finished == {"success", "partial_success", "failed", "stopped", "twofa_pending"}

ASSUME FreeTaskAssumption ==
    /\ MaxLostSaves \in Nat /\ MaxRequests \in Nat /\ FreeTaskIds \cap Managers = {}
    /\ Outcomes \subseteq Finished

VARIABLES
    stored,     \* tasks.status of each row, or "absent"
    known,      \* rows whose revision each manager's adapter remembers truly
    local,      \* manager._tasks: each manager's status of each task
    dirtied,    \* _task_dirty
    saving,     \* the save each caller is in: a worker's, or a manager's own
    job,        \* the worker of each task
    home,       \* the manager that created the task
    loaded,     \* the constructor has loaded the table but not recovered yet
    drained,    \* the batch's final checkpoint was asked for
    stopping,   \* manager._stop
    promoted,   \* tasks whose mailbox row became "success" by a plan check
    deleted,    \* bookkeeping: tasks that somebody deleted
    lostSaves,
    requests    \* stops, deletions and promotions so far

taskVars == <<stored, known, local, dirtied, saving, job, home, loaded, drained, stopping,
              promoted, deleted, lostSaves, requests>>
freeVars == <<ownerVars, taskVars>>

Status   == Finished \cup {"absent", "queued", "running"}
Savers   == FreeTaskIds \cup Managers
Nothing  == [t \in FreeTaskIds |-> "absent"]
Own(m)   == {t \in FreeTaskIds : home[t] = m}
\* The tasks of the batch in progress.
Batch(m) == {t \in Own(m) : job[t] \notin {"none", "ended"}}

FreeInit ==
    /\ OwnerInit
    /\ stored = Nothing /\ known = [m \in Managers |-> {}]
    /\ local = [m \in Managers |-> Nothing] /\ dirtied = [m \in Managers |-> {}]
    /\ saving = [s \in Savers |-> "idle"]
    /\ job = [t \in FreeTaskIds |-> "none"] /\ home = [t \in FreeTaskIds |-> NoManager]
    /\ loaded = [m \in Managers |-> FALSE] /\ drained = [m \in Managers |-> FALSE]
    /\ stopping = [m \in Managers |-> FALSE] /\ promoted = {} /\ deleted = {}
    /\ lostSaves = 0 /\ requests = 0

Idle(s) == saving[s] = "idle"
Ask(s)  == saving' = [saving EXCEPT ![s] = "asked"]
Set(m, tasks, status) ==
    local' = [local EXCEPT ![m] = [t \in FreeTaskIds |-> IF t \in tasks THEN status
                                                         ELSE local[m][t]]]
Request == requests < MaxRequests /\ requests' = requests + 1
Mark(m, t) == dirtied' = [dirtied EXCEPT ![m] = @ \cup {t}]

-----------------------------------------------------------------------------
(* _save_tasks_safely and the adapter's save.                              *)

Writer(s) == IF s \in Managers THEN s ELSE home[s]

\* A worker's save is of the dirty tasks, or of all when none is dirty.
Snapshot(s) ==
    LET m == Writer(s)
    IN  {t \in FreeTaskIds : /\ local[m][t] # "absent"
                             /\ s \in Managers \/ dirtied[m] = {} \/ t \in dirtied[m]}

\* mutant: what is stored wins, finished or not.
WinsAlways(m, t) == stored[t] # "absent"
\* _save_one: a finished row wins over a snapshot that says otherwise; any other
\* row is written, after a refresh of its revision if need be.
Wins(m, t) == stored[t] \in Finished /\ stored[t] # local[m][t]

\* A full save then deletes the finished rows the manager dropped, if their
\* revision is still the one it saw.
Pruned(s) ==
    IF s \notin Managers THEN {}
    ELSE {t \in known[s] : local[s][t] = "absent" /\ stored[t] \in Finished}

WriteSave(s) ==
    LET m       == Writer(s)
        written == {t \in Snapshot(s) : ~Wins(m, t)}
    IN  /\ saving[s] = "asked" /\ Up(m) /\ OwnerCurrent(m)
        /\ saving' = [saving EXCEPT ![s] = "idle"]
        /\ stored' = [t \in FreeTaskIds |-> IF t \in Pruned(s) THEN "absent"
                                            ELSE IF t \in written THEN local[m][t]
                                            ELSE stored[t]]
        /\ local' = [local EXCEPT ![m] = [t \in FreeTaskIds |->
                        IF t \in Snapshot(s) THEN stored'[t] ELSE local[m][t]]]
        /\ known' = [n \in Managers |->
                        IF n = m THEN (known[m] \cup Snapshot(s)) \ Pruned(s)
                        ELSE known[n] \ written]
        /\ dirtied' = IF s \in Managers THEN dirtied ELSE [dirtied EXCEPT ![m] = {}]
        /\ UNCHANGED <<ownerVars, job, home, loaded, drained, stopping, promoted, deleted, lostSaves,
                       requests>>

\* A fenced manager's snapshot is dropped.
DropSave(s) ==
    /\ saving[s] = "asked" /\ Up(Writer(s)) /\ ~OwnerCurrent(Writer(s))
    /\ saving' = [saving EXCEPT ![s] = "idle"]
    /\ UNCHANGED <<ownerVars, stored, known, local, dirtied, job, home, loaded, drained,
                   stopping, promoted, deleted, lostSaves, requests>>

\* The storage fails: the error is logged, and the dirty marks are gone.
LoseSave(s) ==
    /\ saving[s] = "asked" /\ Up(Writer(s)) /\ OwnerCurrent(Writer(s))
    /\ lostSaves < MaxLostSaves
    /\ lostSaves' = lostSaves + 1
    /\ saving' = [saving EXCEPT ![s] = "idle"]
    /\ dirtied' = IF s \in Managers THEN dirtied ELSE [dirtied EXCEPT ![home[s]] = {}]
    /\ UNCHANGED <<ownerVars, stored, known, local, job, home, loaded, drained, stopping,
                   promoted, deleted, requests>>

-----------------------------------------------------------------------------
(* Start-up.                                                               *)

\* The constructor loads the table ...
LoadTasks(m) ==
    /\ Boot(m)
    /\ local' = [local EXCEPT ![m] = stored]
    /\ known' = [known EXCEPT ![m] = {t \in FreeTaskIds : stored[t] # "absent"}]
    /\ loaded' = [loaded EXCEPT ![m] = TRUE]
    /\ UNCHANGED <<stored, dirtied, saving, job, home, drained, stopping, promoted, deleted,
                   lostSaves, requests>>

\* mutant: a constructor recovers whoever owns the database.
UnownedAlways == TRUE
Unowned == ~OwnerLive

\* ... then looks for a live owner, and without one ends what it loaded.
RecoverTasks(m) ==
    /\ Up(m) /\ loaded[m] /\ Idle(m) /\ loaded' = [loaded EXCEPT ![m] = FALSE]
    /\ \/ ~Unowned /\ UNCHANGED <<local, saving>>
       \/ /\ Unowned /\ Ask(m)
          /\ local' = [local EXCEPT ![m] = [t \in FreeTaskIds |->
                CASE local[m][t] = "queued"  -> "stopped"
                  [] local[m][t] = "running" -> "failed"
                  [] OTHER -> local[m][t]]]
    /\ UNCHANGED <<ownerVars, stored, known, dirtied, job, home, drained, stopping, promoted, deleted,
                   lostSaves, requests>>

ClaimForStart(m) == StartClaim(m) /\ ~loaded[m] /\ Idle(m) /\ UNCHANGED taskVars

\* _start_locked creates the tasks and saves them before it submits any.
CreateTasks(m, tasks) ==
    /\ Up(m) /\ batch[m] = "starting" /\ Idle(m) /\ Batch(m) = {}
    /\ tasks # {} /\ \A t \in tasks : home[t] = NoManager
    /\ home' = [t \in FreeTaskIds |-> IF t \in tasks THEN m ELSE home[t]]
    /\ job' = [t \in FreeTaskIds |-> IF t \in tasks THEN "created" ELSE job[t]]
    /\ Set(m, tasks, "queued") /\ Ask(m)
    /\ UNCHANGED <<ownerVars, stored, known, dirtied, loaded, drained, stopping, promoted, deleted,
                   lostSaves, requests>>

SubmitTasks(m) ==
    /\ Launch(m) /\ Idle(m) /\ Batch(m) # {} /\ \A t \in Batch(m) : job[t] = "created"
    /\ job' = [t \in FreeTaskIds |-> IF t \in Batch(m) THEN "queued" ELSE job[t]]
    /\ stopping' = [stopping EXCEPT ![m] = FALSE]
    /\ UNCHANGED <<stored, known, local, dirtied, saving, home, loaded, drained, promoted, deleted,
                   lostSaves, requests>>

RollbackStatus == "stopped"
\* _rollback_failed_startup: a checkpoint with the tasks marked terminal, so
\* that the one without them may delete their rows.
MarkRolledBack(m) ==
    /\ Up(m) /\ batch[m] = "starting" /\ Idle(m)
    /\ Batch(m) # {} /\ \A t \in Batch(m) : job[t] = "created"
    /\ Set(m, Batch(m), RollbackStatus) /\ Ask(m)
    /\ job' = [t \in FreeTaskIds |-> IF t \in Batch(m) THEN "rolledback" ELSE job[t]]
    /\ UNCHANGED <<ownerVars, stored, known, dirtied, home, loaded, drained, stopping,
                   promoted, deleted, lostSaves, requests>>

DropRolledBack(m) ==
    /\ Up(m) /\ batch[m] = "starting" /\ Idle(m)
    /\ Batch(m) # {} /\ \A t \in Batch(m) : job[t] = "rolledback"
    /\ Set(m, Batch(m), "absent") /\ Ask(m)
    /\ job' = [t \in FreeTaskIds |-> IF t \in Batch(m) THEN "ended" ELSE job[t]]
    /\ UNCHANGED <<ownerVars, stored, known, dirtied, home, loaded, drained, stopping,
                   promoted, deleted, lostSaves, requests>>

GiveUpStart(m) == StartFails(m) /\ Idle(m) /\ Batch(m) = {} /\ UNCHANGED taskVars

-----------------------------------------------------------------------------
(* A worker and its completion callback.                                   *)

Present(m, tasks) == {t \in tasks : local[m][t] # "absent"}

\* _worker: a fenced manager's worker returns; any other announces "running",
\* whatever the task's status is, and finds out next that it was stopped.
BeginWork(t) ==
    LET m == home[t]
    IN  /\ job[t] = "queued" /\ Up(m) /\ LockFree(m) /\ Idle(t)
        /\ \/ /\ ~OwnerCurrent(m) /\ job' = [job EXCEPT ![t] = "leaving"]
              /\ UNCHANGED <<local, dirtied, saving>>
           \/ /\ OwnerCurrent(m)
              /\ job' = [job EXCEPT ![t] = IF stopping[m] THEN "halting" ELSE "working"]
              /\ Set(m, Present(m, {t}), "running") /\ Mark(m, t) /\ Ask(t)
        /\ UNCHANGED <<ownerVars, stored, known, home, loaded, drained, stopping, promoted, deleted,
                       lostSaves, requests>>

\* The outcome, unless the manager has lost the database meanwhile.
EndWork(t, outcome) ==
    LET m == home[t]
    IN  /\ job[t] \in {"working", "halting"} /\ Up(m) /\ Idle(t)
        /\ job[t] = "halting" => outcome = "stopped"
        /\ outcome = "stopped" => stopping[m]
        /\ job' = [job EXCEPT ![t] = "leaving"]
        /\ \/ /\ ~OwnerCurrent(m) /\ UNCHANGED <<local, dirtied, saving>>
           \/ /\ OwnerCurrent(m)
              /\ Set(m, Present(m, {t}), outcome) /\ Mark(m, t) /\ Ask(t)
        /\ UNCHANGED <<ownerVars, stored, known, home, loaded, drained, stopping, promoted, deleted,
                       lostSaves, requests>>

\* _future_done: the last one saves all, and any other its own task.
FutureDone(t) ==
    LET m == home[t]
    IN  /\ job[t] = "leaving" /\ Up(m) /\ LockFree(m) /\ Idle(t)
        /\ job' = [job EXCEPT ![t] = "ended"]
        /\ \/ /\ Batch(m) # {t} /\ Mark(m, t) /\ Ask(t)
              /\ UNCHANGED ownerVars
           \/ /\ Batch(m) = {t} /\ Idle(m) /\ LastFuture(m) /\ Ask(m)
              /\ UNCHANGED dirtied
        /\ UNCHANGED <<stored, known, local, home, loaded, drained, stopping, promoted, deleted,
                       lostSaves, requests>>

Settled(m) == Idle(m) /\ \A t \in Own(m) : Idle(t)

\* Once the executor is shut down: the batch's final checkpoint, then its end.
Checkpoint(m) ==
    /\ Up(m) /\ batch[m] = "draining" /\ ~drained[m] /\ Settled(m)
    /\ drained' = [drained EXCEPT ![m] = TRUE] /\ Ask(m)
    /\ UNCHANGED <<ownerVars, stored, known, local, dirtied, job, home, loaded, stopping,
                   promoted, deleted, lostSaves, requests>>

EndBatch(m) ==
    /\ BatchEnd(m) /\ drained[m] /\ Idle(m)
    /\ drained' = [drained EXCEPT ![m] = FALSE]
    /\ UNCHANGED <<stored, known, local, dirtied, saving, job, home, loaded, stopping,
                   promoted, deleted, lostSaves, requests>>

-----------------------------------------------------------------------------
(* The operator and the plan check.                                        *)

\* stop(): queued tasks of the batch are stopped at once.
StopTasks(m) ==
    /\ Request
    /\ Up(m) /\ batch[m] \in {"running", "draining"} /\ Idle(m) /\ ~stopping[m]
    /\ stopping' = [stopping EXCEPT ![m] = TRUE]
    /\ Set(m, {t \in Batch(m) : local[m][t] = "queued"}, "stopped") /\ Ask(m)
    /\ UNCHANGED <<ownerVars, stored, known, dirtied, job, home, loaded, drained, promoted, deleted,
                   lostSaves>>

DeleteTask(m, t) ==
    /\ Request
    /\ Up(m) /\ LockFree(m) /\ ~loaded[m] /\ Idle(m) /\ local[m][t] \in Finished
    /\ Set(m, {t}, "absent") /\ Ask(m) /\ deleted' = deleted \cup {t}
    /\ UNCHANGED <<ownerVars, stored, known, dirtied, job, home, loaded, drained, stopping,
                   promoted, lostSaves>>

\* A plan check found what a partial success lacked: the mailbox row becomes a
\* success, and _sync_plan_task_snapshot does the same to the task.
PromoteTask(t) ==
    LET m == home[t]
    IN  /\ Request /\ m \in Managers /\ Up(m) /\ LockFree(m) /\ job[t] = "ended" /\ Idle(t)
        /\ t \notin promoted /\ local[m][t] = "partial_success"
        /\ promoted' = promoted \cup {t}
        /\ Set(m, {t}, "success") /\ Mark(m, t) /\ Ask(t)
        /\ UNCHANGED <<ownerVars, stored, known, job, home, loaded, drained, stopping, deleted,
                       lostSaves>>

\* The process is gone, by a crash or in order.
LeaveProcess(m) ==
    /\ OwnerCrash(m) \/ Exit(m)
    /\ local' = [local EXCEPT ![m] = Nothing] /\ known' = [known EXCEPT ![m] = {}]
    /\ dirtied' = [dirtied EXCEPT ![m] = {}]
    /\ saving' = [s \in Savers |-> IF s = m \/ s \in Own(m) THEN "idle" ELSE saving[s]]
    /\ job' = [t \in FreeTaskIds |-> IF t \in Own(m) THEN "ended" ELSE job[t]]
    /\ loaded' = [loaded EXCEPT ![m] = FALSE] /\ drained' = [drained EXCEPT ![m] = FALSE]
    /\ stopping' = [stopping EXCEPT ![m] = FALSE]
    /\ UNCHANGED <<stored, home, promoted, deleted, lostSaves, requests>>

OwnerAlone(m) ==
    /\ \/ StartRefused(m) \/ AskIdle(m) \/ RenewOwner(m) \/ StopIdle(m)
       \/ \E c \in Closers : ReleaseClear(m, c) \/ ReleaseDelete(m, c)
    /\ UNCHANGED taskVars

FreeNext ==
    \/ Age /\ UNCHANGED taskVars
    \/ \E s \in Savers : WriteSave(s) \/ DropSave(s) \/ LoseSave(s)
    \/ \E m \in Managers :
          \/ LoadTasks(m) \/ RecoverTasks(m) \/ ClaimForStart(m) \/ SubmitTasks(m)
          \/ MarkRolledBack(m) \/ DropRolledBack(m) \/ GiveUpStart(m)
          \/ Checkpoint(m) \/ EndBatch(m) \/ StopTasks(m)
          \/ LeaveProcess(m) \/ OwnerAlone(m)
          \/ \E tasks \in SUBSET FreeTaskIds : CreateTasks(m, tasks)
          \/ \E t \in FreeTaskIds : DeleteTask(m, t)
    \/ \E t \in FreeTaskIds :
          \/ BeginWork(t) \/ FutureDone(t) \/ PromoteTask(t)
          \/ \E outcome \in Outcomes : EndWork(t, outcome)

FreeSpec == FreeInit /\ [][FreeNext]_freeVars

-----------------------------------------------------------------------------
FreeTypeOK ==
    /\ stored \in [FreeTaskIds -> Status] /\ known \in [Managers -> SUBSET FreeTaskIds]
    /\ local \in [Managers -> [FreeTaskIds -> Status]]
    /\ dirtied \in [Managers -> SUBSET FreeTaskIds]
    /\ saving \in [Savers -> {"idle", "asked"}]
    /\ job \in [FreeTaskIds -> {"none", "created", "rolledback", "queued", "working",
                                "halting", "leaving", "ended"}]
    /\ home \in [FreeTaskIds -> Managers \cup {NoManager}]
    /\ loaded \in [Managers -> BOOLEAN] /\ drained \in [Managers -> BOOLEAN]
    /\ stopping \in [Managers -> BOOLEAN]
    /\ promoted \subseteq FreeTaskIds /\ deleted \subseteq FreeTaskIds
    /\ lostSaves \in 0..MaxLostSaves /\ requests \in 0..MaxRequests

\* A finished row keeps its status until it is deleted, and an unfinished one is
\* never deleted.
FinishedIsFinal(t) ==
    stored'[t] # stored[t] =>
        /\ stored[t] \in Finished => stored'[t] = "absent"
        /\ stored'[t] = "absent" => stored[t] \in Finished

\* While a task's worker lives, no one but its own manager ends it, unless somebody
\* deleted it: then the copies that other processes loaded come back one by one.
WorkIsRespected(t) ==
    /\ job[t] \in {"queued", "working", "halting"} /\ t \notin deleted
    /\ stored[t] \in {"queued", "running"} /\ stored'[t] \in Finished
    => stored'[t] = local[home[t]][t]

\* Whatever snapshots two processes and their threads still write, and whatever
\* another process recovers, a row never goes back from its end, and never gets
\* there while somebody works on it.
RowsOnlyAdvance ==
    [][\A t \in FreeTaskIds : FinishedIsFinal(t) /\ WorkIsRespected(t)]_freeVars

\* Once a batch is over its tasks are finished in memory, and the table says the
\* same as the manager's copy: dirty marks, snapshots and full saves lose nothing,
\* even when the storage failed one of them.
AgreesAtRest ==
    \A m \in Managers : Up(m) /\ batch[m] = "none" /\ Settled(m) /\ lostSaves <= 1 =>
        \A t \in Own(m) \ (promoted \cup deleted) :
                          /\ local[m][t] \in Finished \cup {"absent"}
                          /\ local[m][t] # "absent" => stored[t] \in {local[m][t], "absent"}

\* A rolled-back start leaves no row behind, unless a save was lost or another
\* process read the row before: its own copy comes back.  (A deletion may, too: it
\* drops a task before the worker saved that it had finished.)
NoOrphanRow ==
    \A m \in Managers :
        Up(m) /\ batch[m] = "none" /\ Settled(m) /\ lostSaves = 0 /\ requests = 0 =>
            \A t \in Own(m) : /\ local[m][t] = "absent"
                              /\ \A n \in Managers \ {m} : life[n] = "off"
                              => stored[t] = "absent"

\* At rest the table says what became of every task, and of no other.
RowsTellTheTask == AgreesAtRest /\ NoOrphanRow
=============================================================================
