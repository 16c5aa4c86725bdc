---------------------------- MODULE ManagerOwner ----------------------------
(***************************************************************************)
(* Which process owns the Free database: the `free_manager_owner_v1' row   *)
(* of storage_meta, and the FreeRegisterManager of every process that      *)
(* claims, renews and releases it around its batches.                      *)
(*                                                                         *)
(* A transaction on the row is one step.  What a manager does around it is *)
(* several: whether it is idle is decided under the manager lock, and      *)
(* _release_runtime_owner runs after that lock is gone, first clearing the *)
(* manager's own flag and then deleting the row; a retry claims before it  *)
(* takes the lock.  `closing' holds the releases in flight, one per kind   *)
(* of caller, `retrying' a retry between its claim and the lock.           *)
(*                                                                         *)
(* The row's heartbeat_at is kept as what is left of its OwnerTTL.  A manager   *)
(* is a process; its owner id is drawn at start, so a restart is another   *)
(* manager.                                                                *)
(***************************************************************************)
EXTENDS Integers, FiniteSets

CONSTANTS
    Managers,       \* processes that open the database
    NoManager,      \* no row
    OwnerTTL,       \* MANAGER_OWNER_TTL_SECONDS, in heartbeat periods
    MaxEpoch,       \* bound: claims stop at this epoch
    MaxReleases,    \* bound: releases of one manager in flight at a time
    OwnerPunctual,  \* a live manager's heartbeat comes before its OwnerTTL runs out
    Sequential,     \* the calls of one manager do not overlap each other or a batch's end
    Retries         \* failed tasks are retried

ASSUME OwnerAssumption ==
    /\ NoManager \notin Managers
    /\ OwnerTTL \in Nat \ {0}
    /\ MaxEpoch \in Nat
    /\ MaxReleases \in Nat
    /\ OwnerPunctual \in BOOLEAN
    /\ Sequential \in BOOLEAN
    /\ Retries \in BOOLEAN

VARIABLES
    record,         \* the owner row
    life,           \* the process: not started, up, dead
    held,           \* _manager_owner_acquired with its epoch, 0 when not acquired
    batch,          \* none, starting (lock held), running, draining, unwinding (lock held)
    beating,        \* the heartbeat thread is alive
    closing,        \* releases in flight
    retrying        \* a retry has claimed and waits for the lock

ownerVars == <<record, life, held, batch, beating, closing, retrying>>

\* Who calls _release_runtime_owner: the last future of a batch, stop(), the rollback
\* of a failed start, start() itself after that, a retry that failed.
Closers == {"end", "stop", "rollback", "fail", "retry"}
Closed  == [at |-> "idle", epoch |-> 0]
Free    == [id |-> NoManager, epoch |-> 0, left |-> 0]

OwnerTypeOK ==
    /\ record \in [id : Managers \cup {NoManager}, epoch : Nat, left : 0 .. OwnerTTL]
    /\ life \in [Managers -> {"off", "up", "dead"}]
    /\ held \in [Managers -> Nat]
    /\ batch \in [Managers -> {"none", "starting", "running", "draining", "unwinding"}]
    /\ beating \in [Managers -> BOOLEAN]
    /\ closing \in [Managers -> [Closers -> [at : {"idle", "asking", "decided", "cleared"},
                                             epoch : Nat]]]
    /\ retrying \in [Managers -> BOOLEAN]

OwnerInit ==
    /\ record = Free
    /\ life = [m \in Managers |-> "off"]
    /\ held = [m \in Managers |-> 0]
    /\ batch = [m \in Managers |-> "none"]
    /\ beating = [m \in Managers |-> FALSE]
    /\ closing = [m \in Managers |-> [c \in Closers |-> Closed]]
    /\ retrying = [m \in Managers |-> FALSE]

Up(m)       == life[m] = "up"
\* _manager_owner_live: the heartbeat is young enough and the pid exists.
OwnerLive   == record.id # NoManager /\ record.left > 0 /\ Up(record.id)
\* manager_owner_is_current for the pair the manager keeps.
Matches(m, e) == record.id = m /\ record.epoch = e
Holding(m)  == held[m] # 0 /\ Matches(m, held[m])
Fenced(m)   == held[m] # 0 /\ ~Matches(m, held[m])
\* _owner_current: a manager that never claimed is not asked.
OwnerCurrent(m) == held[m] = 0 \/ Holding(m)

LockFree(m) == batch[m] \notin {"starting", "unwinding"}
Quiet(m)    == closing[m] = [c \in Closers |-> Closed]
\* A release of kind c may begin: the last one of its kind is over.
MayClose(m, c) ==
    /\ closing[m][c].at = "idle"
    /\ Cardinality({d \in Closers : closing[m][d].at # "idle"}) < MaxReleases
\* is_running: the executor or the heartbeat thread is there.
Busy(m)     == batch[m] # "none" \/ beating[m]

SetBatch(m, b)      == batch' = [batch EXCEPT ![m] = b]
Asked(p)         == [at |-> p, epoch |-> 0]
Close(m, c, p)      == closing' = [closing EXCEPT ![m][c] = Asked(p)]

-----------------------------------------------------------------------------
(* acquire_manager_owner behind _acquire_runtime_owner.                    *)

Grantable(m) == record.id \in {m, NoManager} \/ ~OwnerLive

\* The row names another owner: the epoch advances; the same id keeps it.
NextEpoch(m) == IF record.id = m THEN record.epoch ELSE record.epoch + 1

ClaimOwner(m) ==
    \/ /\ Holding(m)
       /\ UNCHANGED <<record, held>>
    \/ /\ held[m] = 0 /\ Grantable(m) /\ NextEpoch(m) <= MaxEpoch
       /\ record' = [id |-> m, epoch |-> NextEpoch(m), left |-> OwnerTTL]
       /\ held' = [held EXCEPT ![m] = NextEpoch(m)]

\* The claim raises: the manager lost the database, or another one has it.
ClaimRefused(m) == Fenced(m) \/ (held[m] = 0 /\ ~Grantable(m))

\* manager_owner_status in the constructor; what follows is the task store's business.
Boot(m) ==
    /\ life[m] = "off"
    /\ life' = [life EXCEPT ![m] = "up"]
    /\ UNCHANGED <<record, held, batch, beating, closing, retrying>>

StartClaim(m) ==
    /\ Up(m) /\ ~Busy(m)
    /\ Sequential => Quiet(m) /\ ~retrying[m]
    /\ ClaimOwner(m)
    /\ SetBatch(m, "starting")
    /\ UNCHANGED <<life, beating, closing, retrying>>

\* start() raises before it has an owner; its error path asks whether to release.
StartRefused(m) ==
    /\ Up(m) /\ ~Busy(m) /\ ClaimRefused(m)
    /\ MayClose(m, "fail")
    /\ Sequential => Quiet(m) /\ ~retrying[m]
    /\ Close(m, "fail", "asking")
    /\ UNCHANGED <<record, life, held, batch, beating, retrying>>

\* The rows and proxies are reserved, the heartbeat and the executor started.
Launch(m) ==
    /\ Up(m) /\ batch[m] = "starting"
    /\ SetBatch(m, "running")
    /\ beating' = [beating EXCEPT ![m] = TRUE]
    /\ UNCHANGED <<record, life, held, closing, retrying>>

\* start() fails: once the batch has an id, _rollback_failed_startup releases
\* whoever runs by then, and in both cases start() asks again.
StartFails(m) ==
    /\ Up(m) /\ batch[m] = "starting"
    /\ MayClose(m, "fail") /\ MayClose(m, "rollback")
    /\ SetBatch(m, "none")
    /\ \E p \in {"idle", "decided"} :
         closing' = [closing EXCEPT ![m] = [@ EXCEPT !["rollback"] = Asked(p),
                                                     !["fail"] = Asked("asking")]]
    /\ UNCHANGED <<record, life, held, beating, retrying>>

\* idle_owner, read under the lock.
AskIdle(m) ==
    /\ Up(m) /\ LockFree(m)
    /\ closing[m]["fail"].at = "asking" /\ closing[m]["rollback"].at = "idle"
    /\ Close(m, "fail", IF batch[m] = "none" THEN "decided" ELSE "idle")
    /\ UNCHANGED <<record, life, held, batch, beating, retrying>>

-----------------------------------------------------------------------------
(* _enqueue_retry: _ensure_runtime_owner runs before the lock.             *)

RetryClaim(m) ==
    /\ Retries /\ Up(m) /\ ~retrying[m]
    /\ Sequential => Quiet(m) /\ batch[m] \in {"none", "running"}
    /\ ClaimOwner(m)
    /\ retrying' = [retrying EXCEPT ![m] = TRUE]
    /\ UNCHANGED <<life, batch, beating, closing>>

\* The retry joins the running batch, or starts one of its own.
RetryLaunch(m) ==
    /\ Up(m) /\ retrying[m]
    /\ batch[m] = "running" \/ ~Busy(m)
    /\ retrying' = [retrying EXCEPT ![m] = FALSE]
    /\ SetBatch(m, "running")
    /\ beating' = [beating EXCEPT ![m] = @ \/ batch[m] = "none"]
    /\ UNCHANGED <<record, life, held, closing>>

\* It raises before it has a batch of its own, and keeps what it claimed.
RetryRefused(m) ==
    /\ Up(m) /\ retrying[m] /\ LockFree(m)
    /\ retrying' = [retrying EXCEPT ![m] = FALSE]
    /\ UNCHANGED <<record, life, held, batch, beating, closing>>

\* It raises after it created the executor: torn down and released under the lock.
RetryFails(m) ==
    /\ Up(m) /\ retrying[m] /\ ~Busy(m) /\ MayClose(m, "retry")
    /\ retrying' = [retrying EXCEPT ![m] = FALSE]
    /\ SetBatch(m, "unwinding")
    /\ Close(m, "retry", "decided")
    /\ UNCHANGED <<record, life, held, beating>>

-----------------------------------------------------------------------------
(* Heartbeat, end of a batch, stop and release.                            *)

\* mutant: renewing does not compare the pair
RenewBlind(m) ==
    /\ Up(m) /\ beating[m]
    /\ IF held[m] = 0 THEN UNCHANGED <<record, beating>>
       ELSE record' = [id |-> m, epoch |-> held[m], left |-> OwnerTTL] /\ UNCHANGED beating
    /\ UNCHANGED <<life, held, batch, closing, retrying>>

\* _heartbeat_loop: renew_manager_owner, or leave the loop when it does not match.
RenewOwner(m) ==
    /\ Up(m) /\ beating[m]
    /\ \/ held[m] = 0 /\ UNCHANGED <<record, beating>>
       \/ Holding(m) /\ record' = [record EXCEPT !.left = OwnerTTL] /\ UNCHANGED beating
       \/ Fenced(m) /\ beating' = [beating EXCEPT ![m] = FALSE] /\ UNCHANGED record
    /\ UNCHANGED <<life, held, batch, closing, retrying>>

\* mutant: the last future leaves the heartbeat running
LastFutureBeating(m) ==
    /\ Up(m) /\ batch[m] = "running"
    /\ Sequential => ~retrying[m]
    /\ SetBatch(m, "draining")
    /\ UNCHANGED <<record, life, held, beating, closing, retrying>>

\* _future_done of the last worker: stop the heartbeat, then drain without the lock.
LastFuture(m) ==
    /\ Up(m) /\ batch[m] = "running"
    /\ Sequential => ~retrying[m]
    /\ SetBatch(m, "draining")
    /\ beating' = [beating EXCEPT ![m] = FALSE]
    /\ UNCHANGED <<record, life, held, closing, retrying>>

\* The executor is forgotten under the lock; the release comes after it.
BatchEnd(m) ==
    /\ Up(m) /\ batch[m] = "draining" /\ MayClose(m, "end")
    /\ SetBatch(m, "none")
    /\ Close(m, "end", "decided")
    /\ UNCHANGED <<record, life, held, beating, retrying>>

\* mutant: stop() releases whether or not a batch runs
StopAnyway(m) ==
    /\ Up(m) /\ LockFree(m) /\ MayClose(m, "stop")
    /\ Sequential => Quiet(m) /\ ~retrying[m]
    /\ Close(m, "stop", "decided")
    /\ UNCHANGED <<record, life, held, batch, beating, retrying>>

\* stop() of an idle manager.
StopIdle(m) ==
    /\ Up(m) /\ batch[m] = "none" /\ MayClose(m, "stop")
    /\ Sequential => Quiet(m) /\ ~retrying[m]
    /\ Close(m, "stop", "decided")
    /\ UNCHANGED <<record, life, held, batch, beating, retrying>>

\* _release_runtime_owner: the flag goes first.
ReleaseClear(m, c) ==
    /\ Up(m) /\ closing[m][c].at = "decided"
    /\ held' = [held EXCEPT ![m] = 0]
    /\ closing' = [closing EXCEPT ![m][c] = IF held[m] = 0 THEN Closed
                                            ELSE [at |-> "cleared", epoch |-> held[m]]]
    /\ SetBatch(m, IF c = "retry" /\ held[m] = 0 THEN "none" ELSE batch[m])
    /\ UNCHANGED <<record, life, beating, retrying>>

\* mutant: whoever owns the row by then loses it
ReleaseDeleteAny(m, c) ==
    /\ Up(m) /\ closing[m][c].at = "cleared"
    /\ record' = Free
    /\ closing' = [closing EXCEPT ![m][c] = Closed]
    /\ SetBatch(m, IF c = "retry" THEN "none" ELSE batch[m])
    /\ UNCHANGED <<life, held, beating, retrying>>

\* ... then release_manager_owner, if the pair still matches.
ReleaseDelete(m, c) ==
    /\ Up(m) /\ closing[m][c].at = "cleared"
    /\ record' = IF Matches(m, closing[m][c].epoch) THEN Free ELSE record
    /\ closing' = [closing EXCEPT ![m][c] = Closed]
    /\ SetBatch(m, IF c = "retry" THEN "none" ELSE batch[m])
    /\ UNCHANGED <<life, held, beating, retrying>>

-----------------------------------------------------------------------------
(* Processes and time.                                                     *)

Gone(m) ==
    /\ life' = [life EXCEPT ![m] = "dead"]
    /\ held' = [held EXCEPT ![m] = 0]
    /\ batch' = [batch EXCEPT ![m] = "none"]
    /\ beating' = [beating EXCEPT ![m] = FALSE]
    /\ closing' = [closing EXCEPT ![m] = [c \in Closers |-> Closed]]
    /\ retrying' = [retrying EXCEPT ![m] = FALSE]

OwnerCrash(m) ==
    /\ Up(m) /\ Gone(m)
    /\ UNCHANGED record

\* An orderly exit runs the release registered with atexit.
Exit(m) ==
    /\ Up(m) /\ Gone(m)
    /\ record' = IF Holding(m) THEN Free ELSE record

\* Someone of the owner still works in time to renew, or on a call of a few seconds.
Tended(m) == Up(m) /\ (Busy(m) \/ retrying[m])

Age ==
    /\ record.left > 0
    /\ OwnerPunctual => record.left > 1 \/ ~Tended(record.id)
    /\ record' = [record EXCEPT !.left = @ - 1]
    /\ UNCHANGED <<life, held, batch, beating, closing, retrying>>

ManagerStep(m) ==
    \/ StartClaim(m) \/ StartRefused(m) \/ Launch(m) \/ StartFails(m) \/ AskIdle(m)
    \/ RetryClaim(m) \/ RetryLaunch(m) \/ RetryRefused(m) \/ RetryFails(m)
    \/ RenewOwner(m) \/ LastFuture(m) \/ BatchEnd(m) \/ StopIdle(m)
    \/ \E c \in Closers : ReleaseClear(m, c) \/ ReleaseDelete(m, c)

OwnerNext ==
    \/ Age
    \/ \E m \in Managers : Boot(m) \/ ManagerStep(m) \/ OwnerCrash(m) \/ Exit(m)

OwnerSpec == OwnerInit /\ [][OwnerNext]_ownerVars

-----------------------------------------------------------------------------
(* Properties.                                                             *)

\* "A real batch must have one durable owner shared across processes": a manager
\* that runs a batch is the one the owner row names.
BatchIsOwned == \A m \in Managers : batch[m] = "running" => Holding(m)

\* No two processes run batches on the database at a time.
OneBatch ==
    \A m, n \in Managers : batch[m] = "running" /\ batch[n] = "running" => m = n

\* A live owner's row is only ever taken away by that owner's own release or exit:
\* no other process's late renewal, release or claim touches it.
RecordSurvives ==
    [][\A m \in Managers :
         record.id = m /\ OwnerLive =>
           \/ record'.id = m /\ record'.epoch = record.epoch
           \/ record' = Free /\ (closing'[m] # closing[m] \/ life'[m] # life[m])]_ownerVars

\* A manager that lost the row stays fenced until it releases: nothing it does
\* makes it the owner again in between.
FencedUntilReleased ==
    [][\A m \in Managers : Fenced(m) /\ held'[m] # 0 => Fenced(m)']_ownerVars

\* A manager without a batch does not keep the database from the others for ever.
IdleYields ==
    \A m \in Managers :
      batch[m] = "none" ~> (batch[m] # "none" \/ record.id # m \/ record.left = 0)
=============================================================================
