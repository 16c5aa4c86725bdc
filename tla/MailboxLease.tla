---------------------------- MODULE MailboxLease ----------------------------
(***************************************************************************)
(* The Free mailbox hand-off: the `mailboxes' rows and `resource_leases'   *)
(* sidecar of FreeSQLiteStore, the MailboxLeaseCoordinator in front of     *)
(* them, and the manager threads that use both.                            *)
(*                                                                         *)
(* Every SQLite transaction (BEGIN IMMEDIATE .. COMMIT) is one step.  A    *)
(* coordinator call is several: it reads the row, keeps the revision it    *)
(* saw, and compares-and-sets in a later transaction; `op' holds the call  *)
(* in flight.  A task has one such slot because the coordinator's RLock    *)
(* serializes the worker and the heartbeat of one task.  The pool adapter  *)
(* (update, reserve, set_status) writes without that lock.                 *)
(*                                                                         *)
(* Instants are kept relative to time.time(): `left' is lease_until minus  *)
(* now in heartbeat periods, NoLease for NULL or a missing sidecar row.  A *)
(* lease is live while its left is positive; Tick ages all of them.        *)
(* The revision column is only ever compared with the value a call in      *)
(* flight read earlier, so a call carries `fresh' instead: no transaction  *)
(* has bumped the row's revision since that read.                          *)
(***************************************************************************)
EXTENDS Integers, FiniteSets

CONSTANTS
    Rows,           \* mailbox rows of the pool
    Tasks,          \* registration tasks; a task id doubles as lease owner
    NoTask,         \* empty lease_owner / no lease_confirmed marker
    NoBatch,        \* empty batch_id
    RowOf,          \* the row a task is created for
    BatchOf,        \* the batch that dispatches it
    TTL,            \* lease_seconds, in ticks
    Punctual        \* the heartbeat renews the leases of live workers in time

NoLease == -1
Left    == NoLease .. TTL

ASSUME ConstantsAssumption ==
    /\ RowOf \in [Tasks -> Rows]
    /\ BatchOf \in [Tasks -> {BatchOf[t] : t \in Tasks}]
    /\ NoTask \notin Tasks
    /\ NoBatch \notin {BatchOf[t] : t \in Tasks}
    /\ TTL \in Nat \ {0}
    /\ Punctual \in BOOLEAN

VARIABLES
    row,            \* the mailboxes table
    lease,          \* the resource_leases sidecar: left of each (row, owner)
    phase,          \* where each task's worker is
    op,             \* the coordinator call each task has in flight
    origin,         \* the task a rerun repeats, NoTask for a first attempt
    picked,         \* operator's set_status: rows that passed its check, not yet written
    boot            \* what the manager process is doing

vars == <<row, lease, phase, op, origin, picked, boot>>

Transient == {"reserved", "queued", "running"}     \* _ACTIVE_MAILBOX_STATUSES
Terminal  == {"success", "failed"}                 \* success/partial/twofa, failed/stopped
Statuses  == {"available", "pending_rerun"} \cup Transient \cup Terminal
\* The row of the results table: absent, a failure envelope, or account evidence.
Results   == {"none", "failure", "account"}
Calls     == {"none", "claim", "adopt", "confirm", "confirmRead", "renew", "renewRead",
              "renewAgain", "abort", "abortRead", "abortAgain", "release"}

\* Dispatch: idle, selected by available() or rerunning a row, reserved, leased,
\* noted (pool row told), queued in the executor.  Worker: running, granted
\* (confirmed, submit not begun), submitted, failing (an error was raised), recorded
\* (failure saved), saved (result saved), closing, ended.  A queued task that is
\* stopped (halted: saved as such) gives its lease back (stopping) but stays in the
\* executor (stopped).  A startup that fails drops its tasks.  A crash finds a task
\* saved as queued or running, saved as terminal but unreleased, or not saved at all
\* (lost): the restart only handles the first two.
Dispatching == {"selected", "restoring", "rerunning", "reserved", "leased", "noted"}
Undoing     == {"rollback", "reset"}
Working     == {"queued", "running", "granted", "submitted", "failing"}
Finishing   == {"recorded", "saved", "closing"}
Stopping    == {"halted", "stopping", "stopped"}
Crashed     == {"crashedQueued", "crashedRunning"}
Recovering  == {"recoverQueued", "recoverRunning"}
Over        == {"ended", "dropped", "unreleased", "lost"}
Phases      == {"idle"} \cup Dispatching \cup Undoing \cup Working \cup Finishing
                 \cup Stopping \cup Crashed \cup Recovering \cup Over

RowRecord == [status : Statuses, marker : Tasks \cup {NoTask},
              batch : {BatchOf[t] : t \in Tasks} \cup {NoBatch},
              owner : Tasks \cup {NoTask}, left : Left,
              result : Results]

TypeOK ==
    /\ row \in [Rows -> RowRecord]
    /\ lease \in [Rows -> [Tasks -> Left]]
    /\ phase \in [Tasks -> Phases]
    /\ op \in [Tasks -> [call : Calls, fresh : BOOLEAN]]
    /\ origin \in [Tasks -> Tasks \cup {NoTask}]
    /\ picked \in SUBSET Rows
    /\ boot \in {"up", "leases", "orphans", "reserved", "tasks"}

Idle     == [call |-> "none", fresh |-> FALSE]
FreshRow == [status |-> "available", marker |-> NoTask, batch |-> NoBatch,
             owner |-> NoTask, left |-> NoLease, result |-> "none"]

Init ==
    /\ row = [r \in Rows |-> FreshRow]
    /\ lease = [r \in Rows |-> [t \in Tasks |-> NoLease]]
    /\ phase = [t \in Tasks |-> "idle"]
    /\ op = [t \in Tasks |-> Idle]
    /\ origin = [t \in Tasks |-> NoTask]
    /\ picked = {}
    /\ boot = "up"

LiveEarly(r, t) == lease[r][t] > 1                 \* mutant: expires a tick early

Live(r, t)      == lease[r][t] > 0
LiveOwners(r)   == {t \in Tasks : Live(r, t)}
Leased(r)       == LiveOwners(r) # {}
Confirmed(r)    == row[r].marker # NoTask
\* The row's scalar lease names t and has not run out: what _resolve accepts.
Resolves(t)     == row[RowOf[t]].owner = t /\ row[RowOf[t]].left > 0

SetPhase(t, p)  == phase' = [phase EXCEPT ![t] = p]
Compared        == {"adopt", "confirm", "renew", "renewAgain", "abort", "abortAgain"}
Call(t, c)      == op' = [op EXCEPT ![t] = [call |-> c, fresh |-> c \in Compared]]
Return(t)       == op' = [op EXCEPT ![t] = Idle]

\* revision = revision + 1 on the rows of R: what was read of them is outdated.
Outdated(R)     == [u \in Tasks |-> IF RowOf[u] \in R THEN [op[u] EXCEPT !.fresh = FALSE]
                                                     ELSE op[u]]
Bump(r)         == op' = Outdated({r})
BumpReturn(t)   == op' = [Outdated({RowOf[t]}) EXCEPT ![t] = Idle]

-----------------------------------------------------------------------------
(* Storage transactions, as the new value of a row.                        *)

\* mutant: a live lease does not protect the row's lifecycle fields
UpdatedUnshielded(r, st, b, override) == [row[r] EXCEPT !.status = st, !.batch = b]

\* update_mailbox: while any lease is live, status and batch only yield to a
\* terminal transition (allow_active_status) and the revision stays put.
Updated(r, st, b, override) ==
    [row[r] EXCEPT !.status = IF Leased(r) /\ ~override THEN @ ELSE st,
                   !.batch  = IF Leased(r) /\ ~override THEN @ ELSE b]

UpdateRow(r, st, b, override) ==
    /\ row' = [row EXCEPT ![r] = Updated(r, st, b, override)]
    /\ IF Leased(r) THEN UNCHANGED op ELSE Bump(r)

\* The scalar lease once sidecar rows went away: the longest live one left.
Remaining(ls) == {t \in Tasks : ls[t] > 0 /\ \A u \in Tasks : ls[u] <= ls[t]}

Handed(me, ls) ==
    LET u == CHOOSE t \in Remaining(ls) : TRUE
    IN  [me EXCEPT !.owner = u, !.left = ls[u]]

\* mutant: freeing a row also drops its confirmation
FreedUnmarked(me, st, b) ==
    [me EXCEPT !.status = st, !.batch = b, !.owner = NoTask, !.left = NoLease,
               !.marker = NoTask]

Freed(me, st, b) ==
    [me EXCEPT !.status = st, !.batch = b, !.owner = NoTask, !.left = NoLease]

\* release_mailbox_lease(reusable=True) for an owner that has a sidecar row.
ReleaseStatus(me) ==
    IF me.marker # NoTask
    THEN IF me.status \in Transient THEN "pending_rerun" ELSE me.status
    ELSE IF me.result # "none" /\ me.status \in Terminal THEN me.status ELSE "available"

ReleaseRow(r, t) ==
    LET ls == [lease[r] EXCEPT ![t] = NoLease]
    IN  /\ lease' = [lease EXCEPT ![r] = ls]
        /\ row' = [row EXCEPT ![r] = IF Remaining(ls) # {}
                                     THEN Handed(@, ls)
                                     ELSE Freed(@, ReleaseStatus(@), @.batch)]

-----------------------------------------------------------------------------
(* Dispatch: _start_locked and _enqueue_retry, under the manager's locks,  *)
(* so one selection is dispatched at a time.                               *)

Starting  == {t \in Tasks : phase[t] \in Dispatching \cup Undoing \cup {"halted", "stopping"}}
IsRunning == \E t \in Tasks : phase[t] \in Working \cup Finishing \cup Stopping

\* available() minus the rows whose account result is already saved.
SelectBatch ==
    /\ boot = "up" /\ Starting = {} /\ ~IsRunning
    /\ \E S \in (SUBSET Tasks) \ {{}} :
         /\ \A t \in S : /\ phase[t] = "idle"
                         /\ row[RowOf[t]].status = "available"
                         /\ ~Confirmed(RowOf[t]) /\ row[RowOf[t]].result # "account"
         /\ \A t, u \in S : RowOf[t] = RowOf[u] => t = u
         /\ phase' = [t \in Tasks |-> IF t \in S THEN "selected" ELSE phase[t]]
    /\ UNCHANGED <<row, lease, op, origin, picked, boot>>

\* Its failure is saved: what rerun asks of the original task.
HasFailed(u) == phase[u] \in {"recorded", "closing", "stopped", "ended", "unreleased"}

\* mutant: rerun without looking for a saved account result
RerunUnchecked(t) ==
    LET r == RowOf[t]
    IN  /\ boot = "up" /\ Starting = {} /\ phase[t] = "idle"
        /\ \E u \in Tasks :
             /\ RowOf[u] = r /\ HasFailed(u)
             /\ origin' = [origin EXCEPT ![t] = u]
        /\ row[r].status = "available" /\ SetPhase(t, "rerunning")
        /\ UNCHANGED <<row, lease, op, picked, boot>>

\* rerun: the original task on this row has failed, none of its reruns is active
\* (retry_key), no account result exists.  A pending_rerun row is first put back to available,
\* in its own transaction.
RerunRead(t) ==
    LET r == RowOf[t]
    IN  /\ boot = "up" /\ Starting = {} /\ phase[t] = "idle"
        /\ \E u \in Tasks :
             /\ RowOf[u] = r /\ HasFailed(u)
             /\ \A v \in Tasks : origin[v] = u => phase[v] \notin Working
             /\ origin' = [origin EXCEPT ![t] = u]
        /\ row[r].result # "account"
        /\ \/ row[r].status = "pending_rerun" /\ SetPhase(t, "restoring")
           \/ row[r].status = "available" /\ SetPhase(t, "rerunning")
        /\ UNCHANGED <<row, lease, op, picked, boot>>

RerunRestore(t) ==
    /\ phase[t] = "restoring"
    /\ UpdateRow(RowOf[t], "available", NoBatch, FALSE)
    /\ SetPhase(t, "rerunning")
    /\ UNCHANGED <<lease, origin, picked, boot>>

\* reserve_mailboxes: all rows of the selection or none.  It does not look at
\* the confirmation marker; it erases it.
Reservable(r) == row[r].status = "available" /\ row[r].left <= 0 /\ ~Leased(r)

Selection == {t \in Tasks : phase[t] \in {"selected", "rerunning"}}

Reserve ==
    LET S == Selection
    IN  /\ S # {}
        /\ IF \A t \in S : Reservable(RowOf[t])
           THEN /\ op' = Outdated({RowOf[t] : t \in S})
                /\ row' = [r \in Rows |->
                      IF \E t \in S : RowOf[t] = r
                      THEN [row[r] EXCEPT !.status = "reserved", !.marker = NoTask,
                              !.batch = BatchOf[CHOOSE t \in S : RowOf[t] = r],
                              !.owner = NoTask, !.left = NoLease]
                      ELSE row[r]]
                /\ phase' = [t \in Tasks |-> IF t \in S THEN "reserved" ELSE phase[t]]
           ELSE /\ phase' = [t \in Tasks |-> IF t \in S THEN "idle" ELSE phase[t]]
                /\ UNCHANGED <<row, op>>
        /\ UNCHANGED <<lease, origin, picked, boot>>

\* mutant: only the rows that got a lease are put back
RollbackLeasedOnly ==
    phase' = [t \in Tasks |-> CASE phase[t] \in {"leased", "noted"} -> "rollback"
                                [] phase[t] = "reserved" -> "dropped"
                                [] OTHER -> phase[t]]

\* Startup failed: leased rows are released first, then every row is reset.
Rollback ==
    phase' = [t \in Tasks |-> CASE phase[t] \in {"leased", "noted"} -> "rollback"
                                [] phase[t] = "reserved" -> "reset"
                                [] OTHER -> phase[t]]

StartupFails ==
    /\ \E t \in Tasks : phase[t] \in {"leased", "noted"}
    /\ \A t \in Tasks : op[t].call \notin {"claim", "adopt"}
    /\ Rollback
    /\ UNCHANGED <<row, lease, op, origin, picked, boot>>

ResetRow(t) ==
    /\ phase[t] = "reset"
    /\ \A u \in Tasks : phase[u] # "rollback"
    /\ UpdateRow(RowOf[t], "available", NoBatch, FALSE)
    /\ SetPhase(t, "dropped")
    /\ UNCHANGED <<lease, origin, picked, boot>>

NoteQueued(t) ==
    /\ phase[t] = "leased"
    /\ UpdateRow(RowOf[t], "queued", BatchOf[t], FALSE)
    /\ SetPhase(t, "noted")
    /\ UNCHANGED <<lease, origin, picked, boot>>

Enqueue ==
    /\ Starting # {} /\ \A t \in Starting : phase[t] = "noted"
    /\ phase' = [t \in Tasks |-> IF phase[t] = "noted" THEN "queued" ELSE phase[t]]
    /\ UNCHANGED <<row, lease, op, origin, picked, boot>>

-----------------------------------------------------------------------------
(* MailboxLeaseCoordinator.acquire: claim an available row, else adopt the *)
(* reservation its own batch holds on it.                                  *)

LeasedTo(me, t) == [me EXCEPT !.owner = t, !.left = TTL]

ClaimedBy(me, t) ==
    [me EXCEPT !.status = IF @ = "available" THEN "reserved" ELSE @,
               !.owner = t, !.left = TTL]

GiveLease(r, t) ==
    /\ row' = [row EXCEPT ![r] = ClaimedBy(@, t)]
    /\ lease' = [lease EXCEPT ![r][t] = TTL]

\* claim_mailbox.  A start leases its rows one by one and notes each before the next.
Claim(t) ==
    LET r == RowOf[t]
    IN  /\ phase[t] = "reserved" /\ op[t] = Idle
        /\ \A u \in Tasks : phase[u] # "leased" /\ op[u].call \notin {"claim", "adopt"}
        /\ IF Reservable(r) /\ ~Confirmed(r)
           THEN GiveLease(r, t) /\ SetPhase(t, "leased") /\ Bump(r)
           ELSE Call(t, "claim") /\ UNCHANGED <<row, lease, phase>>
        /\ UNCHANGED <<origin, picked, boot>>

\* mutant: a refused acquire is tried again and again
AcquireRetries(t) == Return(t) /\ UNCHANGED <<row, lease, phase>>

AcquireFails(t) ==
    /\ Return(t)
    /\ Rollback
    /\ UNCHANGED <<row, lease>>

\* get_mailbox after a refused claim
AdoptRead(t) ==
    LET r == RowOf[t]
    IN  /\ op[t].call = "claim"
        /\ IF row[r].status = "reserved" /\ row[r].batch = BatchOf[t]
           THEN Call(t, "adopt") /\ UNCHANGED <<row, lease, phase>>
           ELSE AcquireFails(t)
        /\ UNCHANGED <<origin, picked, boot>>

\* lease_mailbox: the revision must not have moved, no other owner is live.
Adopt(t) ==
    LET r == RowOf[t]
    IN  /\ op[t].call = "adopt"
        /\ IF op[t].fresh /\ LiveOwners(r) \subseteq {t}
           THEN /\ row' = [row EXCEPT ![r] = LeasedTo(@, t)]
                /\ lease' = [lease EXCEPT ![r][t] = TTL]
                /\ SetPhase(t, "leased") /\ BumpReturn(t)
           ELSE AcquireFails(t)
        /\ UNCHANGED <<origin, picked, boot>>

-----------------------------------------------------------------------------
(* The worker's confirm and abort callbacks around the email submit.       *)

WorkerStart(t) ==
    /\ phase[t] = "queued"
    /\ SetPhase(t, "running")
    /\ UNCHANGED <<row, lease, op, origin, picked, boot>>

ConfirmStart(t) ==
    /\ phase[t] = "running" /\ op[t] = Idle
    /\ IF Resolves(t)
       THEN Call(t, "confirm") /\ UNCHANGED phase
       ELSE SetPhase(t, "failing") /\ UNCHANGED op
    /\ UNCHANGED <<row, lease, origin, picked, boot>>

\* confirm_mailbox_lease
Confirmable(t) ==
    LET r == RowOf[t]
    IN  /\ Live(r, t)
        /\ row[r].status \in {"reserved", "running"}

Confirm(t) ==
    LET r == RowOf[t]
    IN  /\ op[t].call = "confirm"
        /\ \/ /\ Confirmable(t) /\ ~Confirmed(r) /\ op[t].fresh
              /\ row' = [row EXCEPT ![r] = [@ EXCEPT !.status = "running", !.marker = t,
                                                   !.batch = BatchOf[t]]]
              /\ SetPhase(t, "granted") /\ BumpReturn(t)
           \/ /\ Confirmable(t) /\ row[r].marker = t
              /\ SetPhase(t, "granted") /\ Return(t)
              /\ UNCHANGED row
           \/ /\ ~(/\ Confirmable(t)
                   /\ row[r].marker = t \/ (~Confirmed(r) /\ op[t].fresh))
              /\ Call(t, "confirmRead")
              /\ UNCHANGED <<row, phase>>
        /\ UNCHANGED <<lease, origin, picked, boot>>

\* mutant: the lease alone is taken for the confirmation
ConfirmByLease(t) ==
    /\ op[t].call = "confirmRead"
    /\ SetPhase(t, IF row[RowOf[t]].owner = t THEN "granted" ELSE "failing")
    /\ Return(t)
    /\ UNCHANGED <<row, lease, origin, picked, boot>>

\* A refused confirm is still good if this task's marker is already there.
ConfirmRead(t) ==
    LET r == RowOf[t]
    IN  /\ op[t].call = "confirmRead"
        /\ SetPhase(t, IF row[r].owner = t /\ row[r].marker = t
                       THEN "granted" ELSE "failing")
        /\ Return(t)
        /\ UNCHANGED <<row, lease, origin, picked, boot>>

\* The address leaves the process: irreversible.  A call in flight would hold
\* the worker thread unless it is the heartbeat's.
Heartbeating(t) == op[t].call \in {"none", "renew", "renewRead", "renewAgain"}

Submit(t) ==
    /\ phase[t] = "granted" /\ Heartbeating(t)
    /\ SetPhase(t, "submitted")
    /\ UNCHANGED <<row, lease, op, origin, picked, boot>>

\* abort: only with proof that the submit never began, only once.
AbortStart(t) ==
    /\ phase[t] = "granted" /\ op[t] = Idle
    /\ IF Resolves(t) /\ Confirmed(RowOf[t])
       THEN Call(t, "abort") /\ UNCHANGED phase
       ELSE SetPhase(t, "failing") /\ UNCHANGED op
    /\ UNCHANGED <<row, lease, origin, picked, boot>>

\* abort_mailbox_confirmation
Abortable(t) ==
    LET r == RowOf[t]
    IN  /\ Live(r, t) /\ row[r].owner = t
        /\ row[r].status = "running" /\ row[r].marker = t
        /\ op[t].fresh

Abort(t) ==
    LET r == RowOf[t]
    IN  /\ op[t].call \in {"abort", "abortAgain"}
        /\ IF Abortable(t)
           THEN /\ row' = [row EXCEPT ![r] = [@ EXCEPT !.status = "reserved",
                                                        !.marker = NoTask]]
                /\ SetPhase(t, "running") /\ BumpReturn(t)
           ELSE /\ UNCHANGED row
                /\ IF op[t].call = "abort"
                   THEN Call(t, "abortRead") /\ UNCHANGED phase
                   ELSE SetPhase(t, "failing") /\ Return(t)
        /\ UNCHANGED <<lease, origin, picked, boot>>

AbortRead(t) ==
    /\ op[t].call = "abortRead"
    /\ IF Resolves(t) /\ Confirmed(RowOf[t])
       THEN Call(t, "abortAgain") /\ UNCHANGED phase
       ELSE SetPhase(t, "failing") /\ Return(t)
    /\ UNCHANGED <<row, lease, origin, picked, boot>>

-----------------------------------------------------------------------------
(* The heartbeat's renew, and the passage of time.                         *)

RenewStart(t) ==
    /\ boot = "up" /\ phase[t] \in Working \cup Finishing /\ op[t] = Idle /\ Resolves(t)
    /\ Call(t, "renew")
    /\ UNCHANGED <<row, lease, phase, origin, picked, boot>>

\* renew_lease
Renew(t) ==
    LET r == RowOf[t]
    IN  /\ op[t].call \in {"renew", "renewAgain"}
        /\ IF op[t].fresh /\ Live(r, t)
           THEN /\ lease' = [lease EXCEPT ![r][t] = TTL]
                /\ row' = [row EXCEPT ![r] = IF @.owner \in {t, NoTask}
                              THEN LeasedTo(@, t) ELSE @]
                /\ BumpReturn(t)
           ELSE /\ IF op[t].call = "renew" THEN Call(t, "renewRead") ELSE Return(t)
                /\ UNCHANGED <<row, lease>>
        /\ UNCHANGED <<phase, origin, picked, boot>>

RenewRead(t) ==
    /\ op[t].call = "renewRead"
    /\ IF Resolves(t) THEN Call(t, "renewAgain") ELSE Return(t)
    /\ UNCHANGED <<row, lease, phase, origin, picked, boot>>


Older(n) == IF n > 0 THEN n - 1 ELSE n

\* The worker and heartbeat of t, or the recovery pass that is about to release it.
Attended(t) ==
    \/ phase[t] \in Dispatching \cup Undoing \cup Working \cup Finishing \cup {"halted", "stopping"}
    \/ phase[t] \in Crashed \cup Recovering /\ boot \in {"orphans", "reserved", "tasks"}

Tick ==
    /\ \E r \in Rows : Leased(r)
    /\ Punctual => \A t \in Tasks : Attended(t) => lease[RowOf[t]][t] # 1
    /\ lease' = [r \in Rows |-> [t \in Tasks |-> Older(lease[r][t])]]
    /\ row' = [r \in Rows |-> [row[r] EXCEPT !.left = Older(@)]]
    /\ UNCHANGED <<phase, op, origin, picked, boot>>

-----------------------------------------------------------------------------
(* How a worker ends: its account result or its failure is recorded, then  *)
(* the pool row is told, then the lease is released.                       *)

SaveResult(t) ==
    /\ phase[t] = "submitted"
    /\ row' = [row EXCEPT ![RowOf[t]].result = "account"]
    /\ SetPhase(t, "saved")
    /\ UNCHANGED <<lease, op, origin, picked, boot>>

MarkSuccess(t) ==
    /\ phase[t] = "saved"
    /\ UpdateRow(RowOf[t], "success", row[RowOf[t]].batch, TRUE)
    /\ SetPhase(t, "closing")
    /\ UNCHANGED <<lease, origin, picked, boot>>

Fail(t) ==
    /\ phase[t] \in {"running", "granted", "submitted"} /\ Heartbeating(t)
    /\ SetPhase(t, "failing")
    /\ UNCHANGED <<row, lease, op, origin, picked, boot>>

\* _persist_task_failure: account evidence already there is kept.
Envelope(me) == [me EXCEPT !.result = IF @ = "none" THEN "failure" ELSE @]

PersistFailure(t, p) ==
    /\ row' = [row EXCEPT ![RowOf[t]] = Envelope(@)]
    /\ SetPhase(t, p)
    /\ UNCHANGED <<lease, op, origin, picked, boot>>

SaveFailure(t) == phase[t] = "failing" /\ PersistFailure(t, "recorded")

\* A submitted address waits for a rerun, a failure before registration gives
\* the row back, any other failure before the submit also waits for a rerun; an
\* unexpected exception leaves the row to the release.
RecordFailure(t) ==
    LET r == RowOf[t]
    IN  /\ phase[t] = "recorded"
        /\ \/ UpdateRow(r, "pending_rerun", row[r].batch, TRUE)
           \/ row[r].marker # t /\ UpdateRow(r, "available", NoBatch, FALSE)
           \/ UNCHANGED <<row, op>>
        /\ SetPhase(t, "closing")
        /\ UNCHANGED <<lease, origin, picked, boot>>

\* stop: a task still in the queue is saved and marked as stopped, and released.
HaltQueued(t) == phase[t] = "queued" /\ PersistFailure(t, "halted")

StopQueued(t) ==
    /\ phase[t] = "halted"
    /\ UpdateRow(RowOf[t], "failed", row[RowOf[t]].batch, TRUE)
    /\ SetPhase(t, "stopping")
    /\ UNCHANGED <<lease, origin, picked, boot>>

\* The executor still runs it: it fails at once as free_run_stop, which counts
\* as a failure before registration, and gives the row back again.
StoppedRuns(t) ==
    /\ phase[t] = "stopped"
    /\ UpdateRow(RowOf[t], "available", NoBatch, FALSE)
    /\ SetPhase(t, "closing")
    /\ UNCHANGED <<lease, origin, picked, boot>>

Released(t) == CASE phase[t] = "rollback" -> "reset"
                 [] phase[t] = "stopping" -> "stopped"
                 [] OTHER -> "ended"

ReleaseStart(t) ==
    /\ phase[t] \in {"closing", "rollback", "stopping"} /\ op[t] = Idle
    /\ IF Resolves(t)
       THEN Call(t, "release") /\ UNCHANGED phase
       ELSE UNCHANGED op /\ SetPhase(t, Released(t))
    /\ UNCHANGED <<row, lease, origin, picked, boot>>

\* release_mailbox_lease
Release(t) ==
    LET r == RowOf[t]
    IN  /\ op[t].call = "release"
        /\ IF lease[r][t] = NoLease
           THEN Return(t) /\ UNCHANGED <<row, lease>>
           ELSE BumpReturn(t) /\ ReleaseRow(r, t)
        /\ SetPhase(t, Released(t))
        /\ UNCHANGED <<origin, picked, boot>>

-----------------------------------------------------------------------------
(* The operator's set_status(available): a call reads and checks its rows  *)
(* one after the other, then writes them one after the other, every read   *)
(* and every write in a transaction of its own.  What a call of several    *)
(* rows does, calls of one row each do too, and calls overlap.             *)

SetStatusCheck(r) ==
    /\ boot = "up"
    /\ row[r].status \notin Transient /\ ~Confirmed(r)
    /\ picked' = picked \cup {r}
    /\ UNCHANGED <<row, lease, phase, op, origin, boot>>

SetStatusWrite(r) ==
    /\ r \in picked
    /\ UpdateRow(r, "available", row[r].batch, FALSE)
    /\ picked' = picked \ {r}
    /\ UNCHANGED <<lease, phase, origin, boot>>

-----------------------------------------------------------------------------
(* Crash, and the recovery a constructor runs: expired leases, orphaned    *)
(* rows, reserved rows, interrupted tasks.  The first two also run when a  *)
(* second process constructs a manager beside a live one.                  *)

Crash ==
    /\ boot' = "leases" /\ picked' = {}
    /\ op' = [t \in Tasks |-> Idle]
    /\ phase' = [t \in Tasks |->
         CASE phase[t] \in {"idle"} \cup Over \cup Crashed -> phase[t]
           [] phase[t] = "queued" -> "crashedQueued"
           [] phase[t] \in Working \ {"queued"} -> "crashedRunning"
           [] phase[t] \in Finishing \cup Stopping \cup Recovering -> "unreleased"
           [] OTHER -> "lost"]
    /\ UNCHANGED <<row, lease, origin>>

Expired(r) == \E t \in Tasks : lease[r][t] = 0

Swept(r) == [t \in Tasks |-> IF lease[r][t] = 0 THEN NoLease ELSE lease[r][t]]

Recovered(r) ==
    LET me == row[r]
        st == IF me.status \in Transient
              THEN IF Confirmed(r) THEN "pending_rerun" ELSE "available"
              ELSE me.status
    IN  IF ~Expired(r) THEN me
        ELSE IF Remaining(Swept(r)) # {} THEN Handed(me, Swept(r))
        ELSE Freed(me, st, IF Confirmed(r) THEN me.batch ELSE NoBatch)

\* recover_expired_leases
RecoverExpired ==
    /\ \/ boot = "leases" /\ boot' = "orphans"
       \/ boot = "up" /\ UNCHANGED boot
    /\ row' = [r \in Rows |-> Recovered(r)]
    /\ lease' = [r \in Rows |-> Swept(r)]
    /\ op' = Outdated({r \in Rows : Expired(r)})
    /\ UNCHANGED <<phase, origin, picked>>

Orphaned(r) == row[r].status = "reserved" /\ ~Leased(r) /\ ~Confirmed(r)

\* recover_orphaned_mailboxes
RecoverOrphaned ==
    /\ \/ boot = "orphans" /\ boot' = "reserved"
       \/ boot = "up" /\ UNCHANGED boot
    /\ row' = [r \in Rows |-> IF Orphaned(r) THEN Freed(row[r], "available", NoBatch)
                                            ELSE row[r]]
    /\ lease' = [r \in Rows |-> IF Orphaned(r) THEN Swept(r) ELSE lease[r]]
    /\ op' = Outdated({r \in Rows : Orphaned(r)})
    /\ UNCHANGED <<phase, origin, picked>>

\* recover_reserved and, below, recover_interrupted: a read and a later write of one
\* row, merged here: the constructor runs them before the manager serves a call or
\* starts a thread.  Between the two only time and the two passes of a second process
\* go on, which free such a row as well and never touch a confirmation marker.
RecoverReserved ==
    LET Held(r) == row[r].status = "reserved" /\ ~Confirmed(r)
    IN  /\ boot = "reserved" /\ boot' = "tasks"
        /\ row' = [r \in Rows |-> IF Held(r) THEN Updated(r, "available", NoBatch, FALSE)
                                            ELSE row[r]]
        /\ op' = Outdated({r \in Rows : Held(r) /\ ~Leased(r)})
        /\ UNCHANGED <<lease, phase, origin, picked>>

\* _recover_interrupted_tasks: the failure is saved, recover_interrupted tells the
\* row, and the task's lease is released.
RecoverSave(t) ==
    /\ boot = "tasks" /\ phase[t] \in Crashed
    /\ PersistFailure(t, IF phase[t] = "crashedQueued" THEN "recoverQueued"
                                                       ELSE "recoverRunning")

RecoverTask(t) ==
    LET r == RowOf[t]
    IN  /\ phase[t] \in Recovering
        /\ IF Confirmed(r) THEN UNCHANGED <<row, op>>
           ELSE UpdateRow(r, IF phase[t] = "recoverQueued" THEN "available" ELSE "failed",
                          NoBatch, FALSE)
        /\ SetPhase(t, "closing")
        /\ UNCHANGED <<lease, origin, picked, boot>>

BootDone ==
    /\ boot = "tasks"
    /\ \A t \in Tasks : phase[t] \notin Crashed \cup Recovering \cup {"closing"}
    /\ boot' = "up"
    /\ UNCHANGED <<row, lease, phase, op, origin, picked>>

-----------------------------------------------------------------------------
Coordinate(t) ==
    \/ Claim(t) \/ AdoptRead(t) \/ Adopt(t)
    \/ ConfirmStart(t) \/ Confirm(t) \/ ConfirmRead(t)
    \/ AbortStart(t) \/ Abort(t) \/ AbortRead(t)
    \/ RenewStart(t) \/ Renew(t) \/ RenewRead(t)
    \/ ReleaseStart(t) \/ Release(t)

Work(t) ==
    \/ WorkerStart(t) \/ Submit(t) \/ SaveResult(t) \/ MarkSuccess(t)
    \/ Fail(t) \/ SaveFailure(t) \/ RecordFailure(t)
    \/ HaltQueued(t) \/ StopQueued(t) \/ StoppedRuns(t)

Dispatch(t) == RerunRead(t) \/ RerunRestore(t) \/ ResetRow(t) \/ NoteQueued(t)

Recover == RecoverExpired \/ RecoverOrphaned \/ RecoverReserved
             \/ (\E t \in Tasks : RecoverSave(t) \/ RecoverTask(t)) \/ BootDone

Next ==
    \/ \E t \in Tasks : Coordinate(t) \/ Work(t) \/ Dispatch(t)
    \/ SelectBatch \/ Reserve \/ StartupFails \/ Enqueue
    \/ (\E r \in Rows : SetStatusCheck(r) \/ SetStatusWrite(r))
    \/ Crash \/ Recover \/ Tick

Spec == Init /\ [][Next]_vars

(* Threads keep running while the process does, so each of a task's own     *)
(* steps is taken when it stays possible.  The heartbeat sleeps between its *)
(* passes, so the coordinator's lock is free over and over for the worker   *)
(* (SF); it aborts a confirmation a bounded number of times, so it submits  *)
(* or fails in the end (SF).  Crashes, operators, reruns and foreign        *)
(* processes are never obliged to act.                                      *)
Advance(t) ==
    \/ Claim(t) \/ AdoptRead(t) \/ Adopt(t) \/ NoteQueued(t) \/ RerunRestore(t)
    \/ ResetRow(t) \/ WorkerStart(t) \/ Confirm(t) \/ ConfirmRead(t) \/ Abort(t)
    \/ AbortRead(t) \/ SaveResult(t) \/ MarkSuccess(t) \/ SaveFailure(t)
    \/ RecordFailure(t) \/ StopQueued(t) \/ StoppedRuns(t) \/ Release(t)

-----------------------------------------------------------------------------
(* What the hand-off promises.                                             *)

\* The denormalized lease of a row names exactly the sidecar row it stands for:
\* every path that writes one (claim, adopt, renew, release, the recovery passes)
\* writes the other, whatever expires in between.
Named(me, ls) ==
    /\ me.owner = NoTask => me.left = NoLease
    /\ me.owner # NoTask => ls[me.owner] = me.left
    /\ \A t \in Tasks : ls[t] > 0 => me.owner = t

ScalarNamesSidecar == \A r \in Rows : Named(row[r], lease[r])

\* At most one owner of a row is live: two tasks never hold one address at once.
OneLiveOwner ==
    \A r \in Rows, t, u \in Tasks : lease[r][t] > 0 /\ lease[r][u] > 0 => t = u

\* A worker that holds the confirmation, or has submitted the address, finds
\* its own durable marker on the row: no expiry, recovery, foreign process or
\* other worker takes it away or gives it to another task.
GrantIsDurable ==
    \A t \in Tasks : phase[t] \in {"granted", "submitted", "saved"}
                     => row[RowOf[t]].marker = t

\* Outside a rerun, only the aborting owner that has not submitted yet ever
\* erases a confirmation marker, and no step replaces one marker by another.
MarkerErasedOnlyByAbortOrRerun ==
    [][\A r \in Rows : Confirmed(r) /\ row'[r].marker # row[r].marker
         => /\ row'[r].marker = NoTask
            /\ \/ \E t \in Tasks : RowOf[t] = r /\ phase[t] = "rerunning"
               \/ phase[row[r].marker] = "granted"]_vars

\* A task is never confirmed on a row whose account result is already saved:
\* the second registration of one account is refused before its submit.
NoGrantOverResult ==
    [][\A t \in Tasks : phase[t] # "granted" /\ phase'[t] = "granted"
         => row[RowOf[t]].result # "account"]_vars

\* The pool has been told how the row's task ended, and its release must not undo it.
Told(r) == row[r].status \in Terminal /\ (Confirmed(r) \/ row[r].result # "none")

\* While a worker's lease is live only that worker, or time, changes the row's
\* status, its marker or the worker's hold on it; and the release that closes the
\* worker, which rewrites the status, keeps the outcome the pool was told before it.
LeaseShields ==
    [][\A r \in Rows : \A t \in LiveOwners(r) :
         \/ row'[r].status = row[r].status /\ row'[r].marker = row[r].marker
            /\ row'[r].owner = t
         \/ /\ phase'[t] # phase[t]
            /\ phase[t] \in {"closing", "stopping"} /\ Told(r) => row'[r].status = row[r].status]_vars

\* A finished worker leaves no lease behind that is still live.
EndedHoldsNothing ==
    \A t \in Tasks : phase[t] \in {"ended", "dropped", "stopped"} /\ boot = "up" => ~Live(RowOf[t], t)

\* No reservation leaks: with the manager up, a row is only reserved, queued or
\* running for a task that is on its way, or that a crash left unrecovered.
NoLeakedRow ==
    \A r \in Rows : boot = "up" /\ row[r].status \in Transient
        => \E t \in Tasks : RowOf[t] = r /\ phase[t] \notin {"idle", "ended", "dropped", "stopped"}

\* Every row a task took is handed back, lease and status, however the task ended.
HandedBack == EndedHoldsNothing /\ NoLeakedRow

\* Once the manager stays up, every task it took on comes to its end, whatever
\* the store refuses: no retry of a refused call goes round for ever.
TaskCompletes ==
    <>[](boot = "up") =>
        \A t \in Tasks : []<>(phase[t] \in {"idle"} \cup Over)

-----------------------------------------------------------------------------
(* What a message or comment of the code says, and the code does not do.   *)

\* "a misleading UI row": no row that carries a confirmation is shown as available,
\* save while a rerun is between its restore and its reserve.
ConfirmedNeverAvailable ==
    \A r \in Rows : Confirmed(r) /\ row[r].status = "available"
        => \E t \in Tasks : RowOf[t] = r /\ phase[t] = "rerunning"

=============================================================================
