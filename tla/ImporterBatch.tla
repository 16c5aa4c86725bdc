---------------------------- MODULE ImporterBatch ----------------------------
(***************************************************************************)
(* The SMS workbench importer: starting a batch, appending to it, stopping *)
(* it and finishing it (importer_scheduler.py, importer_watch_runtime.py,  *)
(* current_run_append.py, web_gui_importer_patches.py), with the two files *)
(* that outlive the process: the run batch manifest (run_batch_runtime.py) *)
(* and the mailbox pool's leases (mailbox_priority_runtime.py).            *)
(*                                                                         *)
(* A task is <<batch, mailbox>>.  The importer's lock is held from         *)
(* BeginStart to OpenBatch; the manifest and the pool are written between, *)
(* one file at a time, and the process may die after each write.           *)
(*                                                                         *)
(* A lease lasts 3600 s: after that the pool may give the row to another   *)
(* batch (_claimable_locked).  Here a lease lasts until it is returned, so *)
(* a batch is one that gets through its boxes within the hour.             *)
(***************************************************************************)
EXTENDS Common

CONSTANTS
    Mailboxes,          \* rows of the pool
    MaxBatches,         \* bound: starts the operator makes
    MaxCrashes,         \* bound: times the process dies
    MaxMishaps,         \* bound: crashes and stranded rows before a return fails
    Workers             \* threads of the importer's executor

ASSUME ImporterAssumption ==
    /\ MaxBatches \in Nat \ {0} /\ MaxCrashes \in Nat /\ Workers \in Nat \ {0}
    /\ MaxMishaps \in Nat
    /\ IsFiniteSet(Mailboxes)

Batches == 1..MaxBatches
ImportTasks == Batches \X Mailboxes
BatchOf(t) == t[1]
BoxOf(t)   == t[2]
Available  == 0
Used       == -1
Terminal   == {"stopped", "failed", "success"}

VARIABLES
    \* Files.
    mailbox,        \* Available, Used, or the batch that leases the row
    manifest,       \* "none", "preparing", "active" or "complete", per batch
    member,         \* the manifest's status of each task
    persisted,      \* members with persisted_at
    file,           \* the result file of each task
    \* The importer's memory.
    processUp,      \* FALSE from a crash until the recovery has run
    batchNo,        \* the number of batches started, and the current batch
    startPhase,     \* "idle", "preflight", "prepared", "leased", "committed"
    importerRunning, stopEvent, accepting,
    runGate,        \* _CURRENT_TASK_ADMISSION: the batch whose gate it is, or 0
    gatePending,    \* the current gate's registered pending tasks
    runFutures,     \* importer.futures
    future,         \* the executor's view of each task's future
    admitted,       \* tasks past the admission gate
    assigned,       \* importer.future_assignments
    taskRow,        \* importer.tasks: the status of each task of the run
    \* Threads between two steps.
    stopPhase,      \* "idle", "signalled", "cancelling"
    stopList, stopTaken, toReturn,  \* stop's snapshot, its assignments, its task
    watcher,        \* "none", "draining", "watching", "reconciling", "done"
    append,         \* an import that joins the current batch
    \* Bookkeeping of the specification.
    crashes, stranded   \* rows whose lease no record names any more

fileVars   == <<mailbox, manifest, member, persisted, file>>
runVars    == <<processUp, batchNo, startPhase, importerRunning, accepting>>
taskVars   == <<gatePending, runFutures, future, admitted, assigned, taskRow>>
stopVars   == <<stopPhase, stopList, stopTaken, toReturn>>
ghostVars  == <<crashes, stranded>>
importVars == <<fileVars, runVars, stopEvent, runGate, taskVars, stopVars, watcher,
                append, ghostVars>>

NoAppend == [at |-> "idle", batch |-> 0, boxes |-> {}]

ImportInit ==
    /\ mailbox = [m \in Mailboxes |-> Available]
    /\ manifest = [b \in Batches |-> "none"]
    /\ member = [t \in ImportTasks |-> "none"] /\ persisted = {}
    /\ file = [t \in ImportTasks |-> "none"]
    /\ processUp = TRUE /\ batchNo = 0 /\ startPhase = "idle"
    /\ importerRunning = FALSE /\ stopEvent = FALSE /\ accepting = FALSE
    /\ runGate = 0 /\ gatePending = 0 /\ runFutures = {}
    /\ future = [t \in ImportTasks |-> "none"] /\ admitted = {} /\ assigned = {}
    /\ taskRow = [t \in ImportTasks |-> "none"]
    /\ stopPhase = "idle" /\ stopList = {} /\ stopTaken = {} /\ toReturn = {}
    /\ watcher = [b \in Batches |-> "none"] /\ append = NoAppend
    /\ crashes = 0 /\ stranded = {}

-----------------------------------------------------------------------------
(* The manifest.                                                           *)

Members(b) == {t \in ImportTasks : BatchOf(t) = b /\ member[t] # "none"}
Now        == batchNo           \* the batch being started or running
LockFree   == processUp /\ startPhase \in {"idle", "preflight"}

\* observe_task: a settled member keeps its status.
Observed(t, status) ==
    IF member[t] \in Terminal \cup {"none"} THEN member ELSE [member EXCEPT ![t] = status]

\* finalize over the importer's rows (none when the process restarted): the
\* rows' statuses first, then the result files found, and for a member without
\* a record of a file a synthetic one: stopped or failed, never a success.
Reported(t, rows) == IF rows[t] = "none" THEN member[t] ELSE rows[t]
Settled(t, rows) ==
    IF file[t] # "none" THEN file[t]
    ELSE IF Reported(t, rows) = "stopped" THEN "stopped" ELSE "failed"

Finished(b) == manifest[b] = "complete"

Reconcile(b, rows) ==
    IF Finished(b) THEN UNCHANGED <<manifest, member, persisted, file, runGate>>
    ELSE /\ manifest' = [manifest EXCEPT ![b] = "complete"]
         /\ member' = [t \in ImportTasks |->
                          IF t \in Members(b) THEN Settled(t, rows) ELSE member[t]]
         /\ file' = [t \in ImportTasks |->
                        IF t \in Members(b) /\ file[t] = "none" THEN member'[t] ELSE file[t]]
         /\ persisted' = persisted \cup Members(b)
         /\ runGate' = 0
NoRows == [t \in ImportTasks |-> "none"]

\* The storage may refuse to take a row back.
MayRefuse == crashes + Cardinality(stranded) < MaxMishaps
Return(boxes) == mailbox' = [m \in Mailboxes |-> IF m \in boxes THEN Available ELSE mailbox[m]]

-----------------------------------------------------------------------------
(* Starting a batch.                                                       *)

\* patched_importer_start before the importer's lock: it saw no running batch
\* and publishes the new batch's admission gate.
PreflightStart ==
    /\ LockFree /\ startPhase = "idle" /\ ~importerRunning /\ batchNo < MaxBatches
    /\ stopPhase # "signalled"
    /\ \A b \in Batches : watcher[b] \in {"none", "done"}
    /\ startPhase' = "preflight" /\ runGate' = batchNo + 1
    /\ UNCHANGED <<fileVars, processUp, batchNo, importerRunning, stopEvent,
                   accepting, taskVars, stopVars, watcher, append, ghostVars>>

\* start_bounded_importer takes the lock, resets the run and, under the pool's
\* file lock, writes the batch's membership before any row is leased.
BeginStart(boxes) ==
    LET b == batchNo + 1
    IN  /\ startPhase = "preflight" /\ startPhase' = "prepared"
        /\ boxes # {} /\ \A m \in boxes : mailbox[m] = Available
        /\ batchNo' = b /\ importerRunning' = TRUE /\ accepting' = TRUE
        /\ stopEvent' = FALSE
        /\ runFutures' = {} /\ assigned' = {} /\ taskRow' = NoRows
        /\ future' = NoRows /\ admitted' = {} /\ gatePending' = 0
        /\ manifest' = [manifest EXCEPT ![b] = "preparing"]
        /\ member' = [t \in ImportTasks |->
                         IF BatchOf(t) = b /\ BoxOf(t) \in boxes THEN "planned" ELSE member[t]]
        /\ UNCHANGED <<mailbox, persisted, file, processUp, runGate, stopVars,
                       watcher, append, ghostVars>>

PlannedBoxes == {BoxOf(t) : t \in Members(Now)}

SaveLeases ==
    /\ startPhase = "prepared" /\ startPhase' = "leased"
    /\ mailbox' = [m \in Mailboxes |-> IF m \in PlannedBoxes THEN Now ELSE mailbox[m]]
    /\ UNCHANGED <<manifest, member, persisted, file, processUp, batchNo,
                   importerRunning, stopEvent, accepting, runGate, taskVars,
                   stopVars, watcher, append, ghostVars>>

CommitPrepared ==
    /\ startPhase = "leased" /\ startPhase' = "committed"
    /\ manifest' = [manifest EXCEPT ![Now] = "active"]
    /\ UNCHANGED <<mailbox, member, persisted, file, processUp, batchNo,
                   importerRunning, stopEvent, accepting, runGate, taskVars,
                   stopVars, watcher, append, ghostVars>>

\* manifest.reserve for each member, the rows of the task table, the pending
\* registrations, the submitted futures and the watcher; then the lock opens.
OpenBatch ==
    /\ startPhase = "committed" /\ startPhase' = "idle"
    /\ member' = [t \in ImportTasks |-> IF t \in Members(Now) THEN "queued" ELSE member[t]]
    /\ taskRow' = [t \in ImportTasks |-> IF t \in Members(Now) THEN "queued" ELSE "none"]
    /\ future' = [t \in ImportTasks |-> IF t \in Members(Now) THEN "queued" ELSE future[t]]
    /\ runFutures' = Members(Now) /\ assigned' = Members(Now)
    /\ gatePending' = Cardinality(Members(Now))
    /\ watcher' = [watcher EXCEPT ![Now] = "draining"]
    /\ UNCHANGED <<mailbox, manifest, persisted, file, processUp, batchNo,
                   importerRunning, stopEvent, accepting, runGate, admitted,
                   stopVars, append, ghostVars>>

\* A failed start.  Before the leases are saved the prepared membership is
\* rolled back; when the commit fails the leases are released first, and the
\* membership goes only if every release is accounted for; after the commit
\* _startup_cleanup returns the rows one by one, some of which may fail, and
\* finalizes the batch all the same.
FailStart ==
    /\ startPhase \in {"preflight", "prepared", "leased", "committed"}
    /\ startPhase' = "idle" /\ importerRunning' = FALSE /\ accepting' = FALSE
    /\ stopEvent' = (stopEvent \/ startPhase # "preflight") /\ runGate' = 0
    /\ \/ /\ startPhase = "preflight"
          /\ UNCHANGED fileVars
       \/ /\ startPhase \in {"prepared", "leased"}
          /\ Return(IF startPhase = "leased" THEN PlannedBoxes ELSE {})
          /\ manifest' = [manifest EXCEPT ![Now] = "none"]
          /\ member' = [t \in ImportTasks |-> IF BatchOf(t) = Now THEN "none" ELSE member[t]]
          /\ UNCHANGED <<persisted, file>>
       \/ /\ startPhase = "leased"
          /\ \E released \in (SUBSET PlannedBoxes) \ {PlannedBoxes} : Return(released)
          /\ UNCHANGED <<manifest, member, persisted, file>>
       \/ /\ startPhase = "committed"
          /\ \E kept \in SUBSET PlannedBoxes :
                /\ kept # {} => MayRefuse
                /\ Return(PlannedBoxes \ kept) /\ stranded' = stranded \cup kept
          /\ Reconcile(Now, NoRows)
    /\ startPhase # "committed" => UNCHANGED stranded
    /\ UNCHANGED <<processUp, batchNo, taskVars, stopVars, watcher, append, crashes>>

-----------------------------------------------------------------------------
(* A worker.                                                               *)

Busy == {t \in ImportTasks : future[t] = "running"}

PickUp(t) ==
    /\ processUp /\ future[t] = "queued" /\ Cardinality(Busy) < Workers
    /\ future' = [future EXCEPT ![t] = "running"]
    /\ UNCHANGED <<fileVars, runVars, stopEvent, runGate, gatePending, runFutures,
                   admitted, assigned, taskRow, stopVars, watcher, append,
                   ghostVars>>

\* run_after_start, admitted: the gate's registration is consumed and the
\* member marked started unless it is settled already.
Admit(t) ==
    /\ processUp /\ future[t] = "running" /\ t \notin admitted /\ ~stopEvent
    /\ admitted' = admitted \cup {t} /\ gatePending' = OneLess(gatePending)
    /\ member' = Observed(t, "running")
    /\ taskRow' = [taskRow EXCEPT ![t] = "running"]
    /\ UNCHANGED <<mailbox, manifest, persisted, file, runVars, stopEvent,
                   runGate, runFutures, future, assigned, stopVars, watcher,
                   append, ghostVars>>

\* finish_before_admission: a stop seen at the gate returns the row, which may
\* fail, and settles the task.
StopAtGate(t, restored) ==
    LET status == IF restored THEN "stopped" ELSE "failed"
    IN  /\ processUp /\ future[t] = "running" /\ t \notin admitted /\ stopEvent
        /\ restored \/ MayRefuse
        /\ gatePending' = OneLess(gatePending)
        /\ Return(IF restored THEN {BoxOf(t)} ELSE {})
        /\ stranded' = IF restored THEN stranded ELSE stranded \cup {BoxOf(t)}
        /\ taskRow' = [taskRow EXCEPT ![t] = status] /\ member' = Observed(t, status)
        /\ future' = [future EXCEPT ![t] = "done"]
        /\ UNCHANGED <<manifest, persisted, file, runVars, stopEvent, runGate,
                       runFutures, admitted, assigned, stopVars, watcher, append,
                       crashes>>

\* _run_one saves the task's result file; a success has used its mailbox up.
SaveResult(t, outcome) ==
    /\ processUp /\ future[t] = "running" /\ t \in admitted /\ file[t] = "none"
    /\ outcome = "stopped" => stopEvent
    /\ file' = [file EXCEPT ![t] = outcome]
    /\ mailbox' = [mailbox EXCEPT ![BoxOf(t)] = IF outcome = "success" THEN Used ELSE @]
    /\ UNCHANGED <<manifest, member, persisted, runVars, stopEvent, runGate,
                   taskVars, stopVars, watcher, append, ghostVars>>

\* mark_persisted, for a file that was completed; the first record stands.
RecordResult(t) ==
    /\ processUp /\ future[t] = "running" /\ file[t] # "none" /\ t \notin persisted
    /\ member' = [member EXCEPT ![t] = file[t]] /\ persisted' = persisted \cup {t}
    /\ UNCHANGED <<mailbox, manifest, file, runVars, stopEvent, runGate, taskVars,
                   stopVars, watcher, append, ghostVars>>

\* The task's terminal state, with or without a saved result; a row that was
\* not used up goes back to the pool or is used up by the failure.
EndTask(t, outcome) ==
    /\ processUp /\ future[t] = "running" /\ t \in admitted
    /\ IF file[t] = "none" THEN outcome # "stopped" \/ stopEvent ELSE outcome = file[t]
    /\ future' = [future EXCEPT ![t] = "done"]
    /\ taskRow' = [taskRow EXCEPT ![t] = outcome] /\ member' = Observed(t, outcome)
    /\ \/ outcome # "success" /\ Return({BoxOf(t)})
       \/ outcome # "stopped" /\ mailbox' = [mailbox EXCEPT ![BoxOf(t)] = Used]
    /\ UNCHANGED <<manifest, persisted, file, runVars, stopEvent, runGate,
                   gatePending, runFutures, admitted, assigned, stopVars, watcher,
                   append, ghostVars>>

-----------------------------------------------------------------------------
(* Stopping a batch.                                                       *)

\* patched_importer_stop: the flag first, then the gate is unpublished.
SignalStop ==
    /\ processUp /\ stopPhase = "idle" /\ importerRunning /\ startPhase # "preflight"
    /\ stopPhase' = "signalled" /\ stopEvent' = TRUE /\ runGate' = 0
    /\ UNCHANGED <<fileVars, runVars, taskVars, stopList, stopTaken, toReturn,
                   watcher, append, ghostVars>>

\* Under the lock: the futures of the run, and their assignments, are taken.
TakeFutures ==
    /\ LockFree /\ stopPhase = "signalled" /\ stopPhase' = "cancelling"
    /\ stopList' = runFutures /\ stopTaken' = runFutures \cap assigned
    /\ assigned' = assigned \ runFutures
    /\ UNCHANGED <<fileVars, runVars, stopEvent, runGate, gatePending, runFutures,
                   future, admitted, taskRow, toReturn, watcher, append,
                   ghostVars>>

Discarded == OneLess(gatePending)

\* Without the lock: one future after the other; a running one is left to see
\* the flag itself, a queued one is cancelled and its registration discarded.
CancelFuture(t) ==
    /\ processUp /\ t \in stopList /\ toReturn = {}
    /\ stopList' = stopList \ {t}
    /\ \/ /\ future[t] = "queued"
          /\ future' = [future EXCEPT ![t] = "cancelled"]
          /\ gatePending' = Discarded
          /\ toReturn' = {t} \cap stopTaken
       \/ /\ future[t] # "queued"
          /\ UNCHANGED <<future, gatePending, toReturn>>
    /\ UNCHANGED <<fileVars, runVars, stopEvent, runGate, runFutures, admitted,
                   assigned, taskRow, stopPhase, stopTaken, watcher, append,
                   ghostVars>>

\* The cancelled task's row goes back to the pool and the task is settled.
ReturnCancelled(t, restored) ==
    LET status == IF restored THEN "stopped" ELSE "failed"
    IN  /\ processUp /\ t \in toReturn /\ toReturn' = toReturn \ {t}
        /\ restored \/ MayRefuse
        /\ Return(IF restored THEN {BoxOf(t)} ELSE {})
        /\ stranded' = IF restored THEN stranded ELSE stranded \cup {BoxOf(t)}
        /\ taskRow' = [taskRow EXCEPT ![t] = status] /\ member' = Observed(t, status)
        /\ UNCHANGED <<manifest, persisted, file, runVars, stopEvent, runGate,
                       gatePending, runFutures, future, admitted, assigned,
                       stopPhase, stopList, stopTaken, watcher, append, crashes>>

StopReturns ==
    /\ processUp /\ stopPhase = "cancelling" /\ stopList = {} /\ toReturn = {}
    /\ stopPhase' = "idle" /\ stopTaken' = {}
    /\ UNCHANGED <<fileVars, runVars, stopEvent, runGate, taskVars, stopList,
                   toReturn, watcher, append, ghostVars>>

-----------------------------------------------------------------------------
(* The watcher of a batch.                                                 *)

Over(t) == future[t] \in {"done", "cancelled"}

\* watch_and_reconcile: having seen every future of the run it closes the batch
\* to appends, under the lock that an append holds too.
WatcherCloses(b) ==
    /\ LockFree /\ watcher[b] = "draining" /\ \A t \in runFutures : Over(t)
    /\ accepting' = FALSE /\ watcher' = [watcher EXCEPT ![b] = "watching"]
    /\ UNCHANGED <<fileVars, processUp, batchNo, startPhase, importerRunning,
                   stopEvent, runGate, taskVars, stopVars, append, ghostVars>>

\* The recovered _watch: the run is over for the operator.
WatchReturns(b) ==
    /\ LockFree /\ watcher[b] = "watching"
    /\ watcher' = [watcher EXCEPT ![b] = "reconciling"]
    /\ importerRunning' = FALSE /\ assigned' = {}
    /\ UNCHANGED <<fileVars, processUp, batchNo, startPhase, stopEvent, accepting,
                   runGate, gatePending, runFutures, future, admitted, taskRow,
                   stopVars, append, ghostVars>>

\* finalize_importer_watch and the watcher's own finalize: the manifest is
\* completed and a task without a terminal state is failed.
FinishBatch(b) ==
    /\ LockFree /\ watcher[b] = "reconciling"
    /\ watcher' = [watcher EXCEPT ![b] = "done"]
    /\ Reconcile(b, taskRow)
    /\ taskRow' = [t \in ImportTasks |->
                      IF t \in Members(b) /\ taskRow[t] \notin Terminal
                         /\ member'[t] = "failed"
                      THEN "failed" ELSE taskRow[t]]
    /\ UNCHANGED <<mailbox, runVars, stopEvent, gatePending, runFutures, future,
                   admitted, assigned, stopVars, append, ghostVars>>

-----------------------------------------------------------------------------
(* Appending imported mailboxes to the running batch.                      *)

\* append_imported_mailboxes reads the importer under the lock, leases all the
\* rows or none in the pool without it, and calls append_entries, which takes
\* it again.
ReadForAppend(boxes) ==
    /\ LockFree /\ append.at = "idle" /\ importerRunning /\ accepting /\ boxes # {}
    /\ append' = [at |-> "read", batch |-> Now, boxes |-> boxes]
    /\ UNCHANGED <<fileVars, runVars, stopEvent, runGate, taskVars, stopVars,
                   watcher, ghostVars>>

\* mutant: a row leased already is taken for free.
AllUnused(boxes) == \A m \in boxes : mailbox[m] # Used
AllFree(boxes) == \A m \in boxes : mailbox[m] = Available

LeaseForAppend ==
    LET free == AllFree(append.boxes)
    IN  /\ processUp /\ append.at = "read"
        /\ mailbox' = [m \in Mailboxes |->
                          IF free /\ m \in append.boxes THEN append.batch ELSE mailbox[m]]
        /\ append' = IF free THEN [append EXCEPT !.at = "leased"] ELSE NoAppend
        /\ UNCHANGED <<manifest, member, persisted, file, runVars, stopEvent,
                       runGate, taskVars, stopVars, watcher, ghostVars>>

Appended == {append.batch} \X append.boxes
\* mutant: the batch is not asked whether its watcher has closed it.
JoinableLate == importerRunning /\ ~stopEvent /\ \A t \in Appended : member[t] = "none"
Joinable == /\ importerRunning /\ ~stopEvent /\ accepting
            /\ manifest[append.batch] = "active"
            /\ \A t \in Appended : member[t] = "none"     \* bound: no row joins twice

Entering(column) == [t \in ImportTasks |-> IF t \in Appended THEN "queued" ELSE column[t]]

\* append_entries: the task rows, the futures, the registrations and the
\* manifest members, all or none of them, under the lock.
JoinBatch ==
    /\ LockFree /\ append.at = "leased" /\ Joinable
    /\ member' = Entering(member) /\ taskRow' = Entering(taskRow)
    /\ future' = Entering(future)
    /\ runFutures' = runFutures \cup Appended /\ assigned' = assigned \cup Appended
    /\ gatePending' = gatePending + Cardinality(Appended)
    /\ append' = NoAppend
    /\ UNCHANGED <<mailbox, manifest, persisted, file, runVars, stopEvent,
                   runGate, admitted, stopVars, watcher, ghostVars>>

\* The batch has closed meanwhile, or a step of append_entries failed: the
\* leases this batch still owns are released, unless the write of the pool raises:
\* _release_failed_append swallows that, and they stay.
Withdrawn == {m \in append.boxes : mailbox[m] = append.batch}

RefuseAppend ==
    /\ LockFree /\ append.at = "leased"
    /\ \/ Return(Withdrawn) /\ UNCHANGED stranded
       \/ MayRefuse /\ UNCHANGED mailbox /\ stranded' = stranded \cup Withdrawn
    /\ append' = NoAppend
    /\ UNCHANGED <<manifest, member, persisted, file, runVars, stopEvent, runGate,
                   taskVars, stopVars, watcher, crashes>>

-----------------------------------------------------------------------------
(* The process dies, and comes back.                                       *)

Recorded(m) == /\ mailbox[m] \in Batches
               /\ manifest[mailbox[m]] \in {"preparing", "active"}
               /\ <<mailbox[m], m>> \in Members(mailbox[m])

Crash ==
    /\ processUp /\ crashes < MaxCrashes /\ crashes' = crashes + 1
    /\ processUp' = FALSE /\ startPhase' = "idle"
    /\ importerRunning' = FALSE /\ accepting' = FALSE /\ stopEvent' = FALSE
    /\ runGate' = 0 /\ gatePending' = 0 /\ runFutures' = {} /\ admitted' = {}
    /\ future' = NoRows /\ assigned' = {} /\ taskRow' = NoRows
    /\ stopPhase' = "idle" /\ stopList' = {} /\ stopTaken' = {} /\ toReturn' = {}
    /\ watcher' = [b \in Batches |-> "none"] /\ append' = NoAppend
    /\ stranded' = stranded \cup {m \in Mailboxes : mailbox[m] \in Batches /\ ~Recorded(m)}
    /\ UNCHANGED <<fileVars, batchNo>>

\* recover, batch by batch: the leases its record names, then the record.
RecoverBatch(b) ==
    /\ ~processUp /\ manifest[b] \in {"preparing", "active"}
    /\ Return({BoxOf(t) : t \in {u \in Members(b) : mailbox[BoxOf(u)] = b}})
    /\ \/ /\ manifest[b] = "preparing"
          /\ manifest' = [manifest EXCEPT ![b] = "none"]
          /\ member' = [t \in ImportTasks |-> IF BatchOf(t) = b THEN "none" ELSE member[t]]
          /\ UNCHANGED <<persisted, file, runGate>>
       \/ manifest[b] = "active" /\ Reconcile(b, NoRows)
    /\ UNCHANGED <<runVars, stopEvent, taskVars, stopVars, watcher, append,
                   ghostVars>>

Restarted ==
    /\ ~processUp /\ \A b \in Batches : manifest[b] \in {"none", "complete"}
    /\ processUp' = TRUE
    /\ UNCHANGED <<fileVars, batchNo, startPhase, importerRunning, stopEvent,
                   accepting, runGate, taskVars, stopVars, watcher, append,
                   ghostVars>>

WorkerStep(t) ==
    \/ PickUp(t) \/ Admit(t)
    \/ \E restored \in BOOLEAN : StopAtGate(t, restored)
    \/ RecordResult(t)
    \/ \E outcome \in Terminal : SaveResult(t, outcome) \/ EndTask(t, outcome)

StopStep ==
    \/ SignalStop \/ TakeFutures \/ StopReturns
    \/ \E t \in ImportTasks :
          \/ CancelFuture(t)
          \/ \E restored \in BOOLEAN : ReturnCancelled(t, restored)

StartStep ==
    \/ PreflightStart \/ \E boxes \in SUBSET Mailboxes : BeginStart(boxes)
    \/ SaveLeases \/ CommitPrepared \/ OpenBatch \/ FailStart

AppendStep ==
    \/ \E boxes \in SUBSET Mailboxes : ReadForAppend(boxes)
    \/ LeaseForAppend \/ JoinBatch \/ RefuseAppend

WatcherStep(b) == WatcherCloses(b) \/ WatchReturns(b) \/ FinishBatch(b)

ImportNext ==
    \/ StartStep \/ StopStep \/ AppendStep
    \/ \E t \in ImportTasks : WorkerStep(t)
    \/ \E b \in Batches : WatcherStep(b) \/ RecoverBatch(b)
    \/ Crash \/ Restarted

ImportSpec == ImportInit /\ [][ImportNext]_importVars

-----------------------------------------------------------------------------
Statuses == Terminal \cup {"none", "planned", "queued", "running"}

ImportTypeOK ==
    /\ mailbox \in [Mailboxes -> Batches \cup {Available, Used}]
    /\ manifest \in [Batches -> {"none", "preparing", "active", "complete"}]
    /\ member \in [ImportTasks -> Statuses] /\ persisted \subseteq ImportTasks
    /\ file \in [ImportTasks -> Terminal \cup {"none"}]
    /\ processUp \in BOOLEAN /\ batchNo \in 0..MaxBatches
    /\ startPhase \in {"idle", "preflight", "prepared", "leased", "committed"}
    /\ importerRunning \in BOOLEAN /\ stopEvent \in BOOLEAN /\ accepting \in BOOLEAN
    /\ runGate \in 0..MaxBatches /\ gatePending \in Nat /\ runFutures \subseteq ImportTasks
    /\ future \in [ImportTasks -> {"none", "queued", "running", "done", "cancelled"}]
    /\ admitted \subseteq ImportTasks /\ assigned \subseteq ImportTasks
    /\ taskRow \in [ImportTasks -> Statuses]
    /\ stopPhase \in {"idle", "signalled", "cancelling"}
    /\ stopList \cup stopTaken \cup toReturn \subseteq ImportTasks
    /\ watcher \in [Batches -> {"none", "draining", "watching", "reconciling", "done"}]
    /\ append.at \in {"idle", "read", "leased"} /\ append.batch \in 0..MaxBatches
    /\ append.boxes \subseteq Mailboxes
    /\ crashes \in 0..MaxCrashes /\ stranded \subseteq Mailboxes

\* A mailbox a task works on is leased to that task's batch, or used up by it,
\* whatever appends, stops, failed starts and recoveries do to the pool between
\* the lease and the work: nobody else can be given it.
BoxHeldWhileWorked ==
    \A t \in ImportTasks : future[t] = "running" /\ t \in admitted
                            => mailbox[BoxOf(t)] \in {BatchOf(t), Used}

\* A lease in the pool is one a recovery would find: the manifest of an
\* unfinished batch names it, or the thread that will return it is under way,
\* or a return failed before (stranded).  Membership is written before the
\* lease and finished after it for this (begin_batch, append_members).
LeaseIsRecorded ==
    \A m \in Mailboxes : mailbox[m] \in Batches =>
        \/ Recorded(m) \/ m \in stranded
        \/ append.at = "leased" /\ m \in append.boxes
        \/ \E t \in toReturn : BoxOf(t) = m

\* However starts, appends, stops and recoveries interleave, the boxes of a run stay
\* its own while they are worked on, and none is leased behind the back of recovery.
BoxesAreKept == BoxHeldWhileWorked /\ LeaseIsRecorded

\* Once the watcher has seen the batch drained no task of it runs: an append
\* that read the importer before joins under the lock or not at all.
WatcherSeesAll ==
    \A t \in ImportTasks : watcher[BatchOf(t)] \in {"watching", "reconciling", "done"}
                            => future[t] \in {"none", "done", "cancelled"}

\* The gate's registrations are the tasks that have yet to pass it, through
\* appends, cancellations and stops at the gate: a registration left behind
\* would keep the adaptive gate believing in a backlog.
PendingMatches ==
    gatePending = Cardinality({t \in runFutures : \/ future[t] = "queued"
                                                 \/ t \in Busy \ admitted})

\* A finished manifest reports a success exactly for the results that were
\* saved, whichever of the result file, the task row and the manifest's own
\* record the process managed to write before it died.
CompleteTellsTruth ==
    \A t \in ImportTasks : manifest[BatchOf(t)] = "complete" /\ member[t] # "none"
                            => (member[t] = "success") = (file[t] = "success")

\* A run is closed as a whole: nobody is at work any more, nobody is waited for
\* at the gate, and what the manifest reports is what was saved.
RunClosesWhole == WatcherSeesAll /\ PendingMatches /\ CompleteTellsTruth
=============================================================================
