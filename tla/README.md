# AutoPhone: a TLA+ development

AutoPhone is a Python program with a local web interface. It runs two workflows that share a process
and little else: the **SMS workbench** (batches of tasks over a file of mailboxes, phone numbers bought
from providers) and **Free registration** (batches over SQLite tables of mailboxes, proxies and tasks).
What the tasks say to external services is a long sequence of HTTP requests; what keeps their state
right is a smaller part under `src/mac_overrides`: tables with leases and revisions, gates that bound
concurrency, workers that probe, persist and notify, budgets of retries, and the locks between them.
That part is the subject of this development. Paths below are relative to `src/mac_overrides` unless
they start with `src/`.

- [Inventory](#inventory)
- [Modules](#modules): what each models and how it corresponds to the code
- [Runs](#runs): what each checks, its bounds, what it shows
- [Divergences](#divergences): where the code does not do what it says
- [Proofs](#proofs): what is proved, along which argument, and what is only model-checked
- [Plan](#plan) and [what is not modelled](#not-modelled)

## Inventory

### Modelled

Each is modelled in part; `PROJECT.json` says per component what is left out.

| component | state | operations | interacts with | hard about it |
|---|---|---|---|---|
| Free mailbox hand-off (`free_register/mailbox_lease.py`, `free_storage_mailbox.py`, `free_storage_proxy.py`, `free_storage_adapter_mailbox.py`) | `mailboxes` rows (status, revision, scalar lease, confirmation marker), `resource_leases` sidecar, `results` | reserve, claim, adopt, confirm, abort, renew, release, set_status, save_result, recovery passes | start-up, workers, heartbeat, stop, a second process, the operator | every coordinator call is a read and a later compare-and-set; leases expire under live workers; crashes between saves |
| Free process ownership (`free_register_owner.py`, `free_storage_schema.py`) | the `free_manager_owner_v1` row; per manager the acquired flag with its epoch, executor, heartbeat thread | acquire, heartbeat, takeover, release; start, retry, stop, end of batch | everything that writes Free tables | released outside the manager lock; claimed before the lock by retries; stalls past the TTL |
| Free task store (`free_storage_tasks.py`, `free_storage_adapter_task.py`, `free_register_scheduler.py`) | `tasks` rows with revisions; each manager's copy, its dirty marks and snapshots on their way | create, save a snapshot, start, end, roll back, stop, delete, promote, recover | ownership, workers, a second process that recovers | a snapshot is written after others changed the table; saves fail; a process recovers rows that are being worked on |
| Free proxy pool (`free_proxy_store.py`, `free_proxy_store_health.py`, `free_proxy_breaker.py`, `free_proxy_maintenance.py`) | health, failures, quarantine and burns of an exit; the challenge breaker; leases per exit | bind with a probe, report, burn, refill by minting, trip and reset; load, edit and merge of lease snapshots | tasks, the probe, the operator's reset, other processes | passes of several locked operations; probes outside the lock; stale copies of the leases |
| Free live and plan checks (`free_live_check.py`, `free_plan_check.py`) | jobs in memory and in a file of their own, executor, gate as wide as the healthy pool, the account's result | enqueue, run, coalesced and forced saves, recovery | the proxy pool, the result table, crashes | two services write one document; a coalesced write may be lost by a crash |
| Free registration protocol (`free_register_runtime.py`, `free_protocol_flow.py`, `free_protocol_password.py`, `free_protocol_twofa.py`) | sessions, pages, codes and budgets of a signup; password, second factor and milestones of an account | bootstrap to callback, rebuild, exit switch, retry; enrol, persist, activate, continue | the site, the mailbox hand-off, the result table | a request whose answer is lost; a replay after the address was posted; a secret shown once |
| Free failures and retry policy (`free_register_retry.py`, `free_failure_runtime.py`, `free_account_payload.py`) | the result row, budgets and timers of continuations | merge of results, manual and automatic continuation, cool-down | the job of the same account, crashes | a chain of continuations that feeds itself; a merge that drops a field |
| Connectivity guard and protocol gate (`auth_connectivity_runtime.py`, `protocol_concurrency.py`, `performance_runtime.py`, `web_gui*.py`) | guard (enabled, paused, failures, rounds, revision), the proxy's gate (slots, limit, pauses, streak), in-flight admission, probe thread | acquire/report/release of a request, outage, recovery, probe round, switch, begin/stop of a batch, reload | requests of all tasks, the settings route, mails | decisions taken under one lock and applied under another, results of an older generation, a worker that leaves as the next outage begins |
| Adaptive concurrency (`adaptive_concurrency.py`, `phase_concurrency.py`) | stage, limit, burst, bans and pressure of the task gate; the node gate's limit | arrive, poll, leave, report, FD incident, stop | workers, the FD monitor, the node gate | a new limit is announced outside the lock that decided it |
| Browser pool (`free_camoufox/browser_pool.py`, `browser_registry.py`) | slots with their browser, contexts, reservations; retained windows; recycler and closer | reserve, launch, retain, recycle, close, drop a dead browser, shut down | registrations, the operator, browser processes | every await lets the others run between a look and the act it justified |
| Workbench importer and mailbox pool (`importer_scheduler.py`, `importer_watch_runtime.py`, `run_batch_runtime.py`, `mailbox_state_runtime.py`, `mailbox_source_lock.py`) | the run in memory; manifest, result and mailbox files | start, append, stop, work, finish, recover | workers, watcher, files that survive a crash | one file after the other; append meets stop meets the end of the run |
| SMS orders and keys (`sms_order_runtime.py`, `sms_key_pool.py`, `sms_provider_orchestration.py`, `sms_web.py`) | health and holders of keys, numbers bought, costs, the cleanup queue's file | reserve, preflight, buy, complete, cancel, sweep, reconfigure | the platform, tasks, a crash | answers of calls and preflights out of order; a number that costs money and has no owner |
| Notifications (`run_notifications.py`, `notification_queue.py`) | the coordinator of a run; the bounded outbox and its worker | observe, freeze, thaw, finalize, submit, deliver, close | the importer, the guard, SMTP | reserved under one lock and submitted under another; closing while a mail is on its way |
| Manual verification (`manual_verification_runtime.py`, `manual_verification_routes.py`) | prompts with a generation, the race of two sources of a code | open, post, consume, supersede, retire, wait, fetch | a task, a person, the mail fetcher | the two sources are looked at in separate steps; fetchers outlive the stage they worked for |

What makes them correct: a mailbox has one live owner, and a confirmed address is never handed out or
submitted a second time; a running batch owns its database and is the only one; a finished task stays
finished; a gate is paused exactly as long as it has a reason, and whoever paused it will open it; what
is counted (slots, contexts, tasks, notices, keys) is what is there; a secret that is shown once is kept,
and a number that costs money stays with somebody who can be asked about it, but for the ways in which it
is known to go astray; and everything that retries ends.

### Not modelled

| component | why |
|---|---|
| Stage gates, priority executor (`free_priority_executor.py`, `free_batch_concurrency.py`, `concurrency_gate.py`) | a heap and counters, each under one lock that is held for the whole operation: nothing to interleave |
| Start jobs (`free_register_start_async.py`) | one thread that calls start; start is in ManagerOwner and FreeTasks |
| Rebind jobs (`free_rebind_*.py`) | a second table with the fence, the snapshots and the lease hand-back of the registration |
| Session checkpoints and transports (`phase1_checkpoint_runtime.py`, `transport_lifecycle.py`) | next in the plan; the registry of transports is a dictionary under one lock |
| Diagnostics (`diagnostic_*.py`) | nothing reads the events back to decide on; a lost one is by design |
| Sub2 binding and upload, mailbox and code retrieval, network tools | calls of services, parsing, sockets: a code that is found is an input of ManualVerification |
| Secrets and configuration | reading and validating of settings; the guard's switch and the reconfiguration of keys are modelled where they act |
| Web server and routes, frontend | keep no state; the callbacks that wire components together are modelled with them |
| Recovered bytecode (`src/business_pyc`) | no source; ImporterBatch models what the importer calls of it as external |
| Token mailbox service (`src/deploy`) | a separate small service |

## Modules

`X.tla` is a component, `XProofs.tla` its theorems, `MC_X.tla` model values. Definitions marked
`mutant:` stand beside the definition they distort in the way a plausible bug would; no specification
uses them. `Common` holds the arithmetic several modules need (`Lesser`, `Greater`, `AsCount`, ...).
Names of actions are those of the code where it has one for the step.

### MailboxLease

One action per SQLite transaction. A coordinator call (`claim`, `confirm`, `renew`, `abort`) is several:
it reads the row, keeps its revision, and compares-and-sets later; `op[t]` is the call task `t` has in
flight, one at a time because the coordinator's lock serializes a task's worker and heartbeat.
Revisions are only compared with an earlier read, so `fresh` replaces them. Instants are relative to
now, so `Tick` ages every lease.

| variable | code |
|---|---|
| `row` | `mailboxes`: status, `lease_owner`/`lease_until` (`owner`, `left`), marker `lease_confirmed`, batch, result |
| `lease` | `resource_leases`, one entry per (row, owner) |
| `phase` | where `_start_locked`, `_enqueue_retry`, `_worker` and `stop` are with a task |
| `op`, `picked` | coordinator calls and an operator's `set_status` in flight |
| `boot` | the manager process and its recovery passes |

`Reserve`, `Claim`, `Adopt`, `Confirm`, `Abort`, `Renew`, `Release` are the transactions; `AdoptRead`,
`ConfirmRead`, `AbortRead`, `RenewRead` the second read after a refused one; `SelectBatch`, `RerunRead`,
`RerunRestore`, `NoteQueued`, `Enqueue`, `StartupFails`, `ResetRow` start-up and rerun; `WorkerStart` to
`RecordFailure` the worker; `HaltQueued`, `StopQueued`, `StoppedRuns` stop; `SetStatusCheck` and
`SetStatusWrite` the operator's `set_status`, a read and a write per row; `Crash`, `RecoverExpired`,
`RecoverOrphaned`, `RecoverReserved`, `RecoverSave`, `RecoverTask` a new process. `Recover...` also run while
workers of this process live: they are what a second constructed manager does. `RecoverReserved` is a list and
the updates of its rows in one step, and `RecoverTask` a read of a row with its update; what may come between
them is left out. `Punctual` states the heartbeat keeps live workers' leases alive.

### ManagerOwner

The owner row and every manager's life around it. `is_running` is decided under the manager lock;
`_release_runtime_owner` runs after it, first clearing the manager's flag (`ReleaseClear`), then
deleting the row (`ReleaseDelete`); `closing[m][c]` is the release in flight of each kind of caller.
`Sequential` states that the calls of one manager do not overlap each other or the end of a batch,
`Retries` whether retries happen, `OwnerPunctual` that heartbeats come before the TTL. `MaxEpoch` bounds
claims, `MaxReleases` the releases of one manager in flight. A restarted process is another manager,
since its owner id is drawn at start.

### FreeTasks

Extends ManagerOwner: who owns the database decides who may write. `stored` is the table, `known` the
revisions a manager remembers of it, `local` its copy, `dirtied` the marks of what it changed, `saving`
the snapshots on their way, `job` and `home` the futures and the manager each belongs to. A call of
`_save_tasks_safely` is a step of its own after the change it saves (`WriteSave`; `DropSave` when the
fence refuses it, `LoseSave` when the storage does), so whoever takes the lock first is in the
snapshot. `CreateTasks` to `SubmitTasks` is start, `MarkRolledBack` and `DropRolledBack` its failure,
`BeginWork` and `EndWork` the worker, `LoadTasks` and `RecoverTasks` a constructor. `deleted` is
bookkeeping: a row somebody deleted may come back from the copy a third process loaded before, even as a
finished row while its worker lives, so the properties of a task's row speak of tasks nobody deleted. It
takes three processes, one more than the run has: the proof of `RowsTellTheTask` found it.

### ProxyPool, ProxyLeases and LeaseTable

`ProxyPool`: every operation of the pool takes its lock, so each is one step; probes and passes that
call several operations are not. `exits` is the table (status, failures, age of the last probe),
`burns` and `tripped` the breaker, `minter` the maintenance pass, `attempt` what each task does:
`BindRecent`/`BindStale`, `Probe` with its outcomes, `WorkEnds`/`WorkFails`/`WorkChallenged`,
`FeedBreaker`, `AskBreaker`, `StartMinting`, `Mint`, `StopMinting`. `ensure_target` reads the burned,
the live and the manual rows in three calls, which are one step here; an import and the removal it
replaces are one step too. `LateReports = FALSE` keeps reports on an exit that was burned meanwhile
apart, which the divergence `exits_revived` needs and the promises of the refill do not survive.

`ProxyLeases`: the pool's `_load`, the edit, and `_save`, which merges the copy with the leases the
table holds by then. Every task is a process with its own copy (`pending`): `StartLease`,
`StartHeartbeat`, `StartRelease` and `StartReport` load, `Commit` merges, `Again` retries, `Vanishes` and
`Reclaims` are the recovery of an interrupted task. It implements `LeaseTable`, in which every
operation is one step, under `holder <- Believing`, `left <- TicksLeft`.

### AccountChecks

Both services, one operator with the service as parameter: `jobs` in memory, `file` on disk, `thread` where a
job is, `copy` the result document a thread read and will write back whole, `calling` an enqueue in progress,
`healthy` the width of the gate. `MarkQueued`, `KeepJobs`, `SubmitJob` are enqueue, and `RefuseJob` an enqueue
whose save raises: the job stays queued in memory and no thread ever takes it, until a restart recovers it from
the file if it got there; `LiveIsAnswered` is about the others. `EnterGate`, `MarkRunning`, `Answered`,
`SaveAnswer`, `EndJob`, `ReportFailure`, `LiveFailed`, `PlanFailed` the worker; `CrashChecks` and
`RecoverChecks` a restart. Whether a coalesced save reaches the disk is a choice; other writes of a worker do
not fail. A plan check looks at the live state of its account in `recheck` mode only, and skips the account
while a live check is active; the model never skips it, as in the other mode.

### BrowserPool

Everything runs on one asyncio loop, so an action is the code between two awaits. `slot` is a browser
with its reservations, holds, registrations and generation; `call` a `register()`; `session` the
windows kept for the operator; `crew` and `waiting` the recycler, `closer` the operator's close.
Page flows are outcomes. `LateDeadlines` and `ClosesMeetDeaths` allow two orders in which the code
breaks its own accounts, see [Divergences](#divergences).

### ConnectivityGuard and ProtocolGate

`ProtocolGate` is pure: a gate is a record, each method of `ProxyProtocolGate` one operator
(`pause_connectivity` = `Cut`, `resume_connectivity` = `Restored`, `guard_expansion` = `Guarded`,
`report` = `Succeeded`, `RateLimited`, `Failed`, `acquire` = `Admits`, `Admitted`, `Left`,
`_clear_expired_pause_locked` = `Cleared`), because each runs under the gate's condition.

`ConnectivityGuard` composes one gate with the guard, the batch's in-flight admission, the request
threads, the probe worker and the switch.

| variable | code |
|---|---|
| `gate` | `_ProxyProtocolState` of the batch's proxy |
| `inflight` | `_CURRENT_INFLIGHT_GATE`: absent, expanded, suspended, rolled back |
| `guard` | `OpenAIAuthConnectivityRuntime`: enabled, paused, failure times, successful rounds |
| `callback` | the callback `_invoke` runs under `_callback_lock` |
| `probe` | the probe thread and its round; `disturbed` and `clean` record history for one property |
| `request` | each thread between `acquire` and release, and whether its captured generation is current |
| `switch` | `write_local_config` between reading the guard, setting it and resuming the gate |
| `run` | idle, the two synchronizations of a start, running, stopping |

`ObserveFailure` is `observe_failure`: `AlreadyPaused`, `Suspected` or `Outage`, which leaves the callback
pending under the lock; `NotifyOutage` is that callback; `StartProbes`, `ApplyDecision` and `ApplySuspension`
are what the request does afterwards, under no common lock. `ProbeRound` captures a generation, and
`ProbeDropped`, `ProbeFailed`, `ProbeSucceeded` are the end of the round; `NotifyRecovery` is the callback of a
recovery. An answer of an older generation is `Ignored` by the guard, but its 429 or its pressure still reaches
the gate (`ReportLimit`). Revision and event id are compared for equality only, so a captured generation is a
bit. A guard callback is never invalid when it is invoked, since whatever could invalidate it needs the callback
lock. `LateDecisions` and `LateToggles` say whether a decision may reach the gate after the guard moved on, and
whether an outage may begin while the switch is being thrown: both can happen in the code, and both are also
switched off to see what holds without them.

Left out: outcomes reported without a generation (`observe_main_chain_outcome`), requests outside
the staged pipeline (`wait_until_resumed`), `wait_until_available`, `synchronize_capacity` (nothing in
managed runs), `apply_http_429` (no caller), mails, snapshots.

### AdaptiveGate

The admission gate of a batch and the node gate it drives. Handlers (`ReportSuccess`, `ReportFailure`,
`ReportBanned`, `ReportPressure`, `ReportRepeated`, `ResourceExhausted`, `ResourceGuarded`,
`ResourceRecovers`, `StopBatch`) change `taskLimit`, the burst and the counters under the gate's lock and
put the new limit on `news`; `DeliverNews` is the reporter's call of the node gate after the lock, in any
order. Pressure is counted per task and node (`PressureNodes`); the run has one node, the theorems any set
of them. Clocks are the comparisons the code makes (a pause is over, a burst is due, pressure is recent),
each of which may change at any moment.

### ImporterBatch

A task is a pair of batch and mailbox. `BeginStart` takes the importer's lock, `SaveLeases`,
`CommitPrepared` and `OpenBatch` write one file each; append is `ReadForAppend`, `LeaseForAppend`,
`JoinBatch`, `RefuseAppend`; stop `SignalStop`, `TakeFutures`, `CancelFuture`, `ReturnCancelled`,
`StopReturns`; a worker `PickUp`, `Admit`, `StopAtGate`, `SaveResult`, `EndTask`, `RecordResult`; the end
`WatcherCloses`, `WatchReturns`, `FinishBatch`. `mailbox`, `manifest`, `member`, `persisted` and `file` are
the files, which `Crash` leaves and `RecoverBatch` reads; the rest is the process. Whoever returns
rows (`FailStart` before and after its commit, `RefuseAppend`, `StopReturns`, the watcher) may fail to
return some of them, and goes on: `stranded` is a history variable, the leases whose return the storage
refused. That a lease may be given to another batch after 3600 s is not modelled: a batch is one that gets
through its boxes within the hour.

### SmsOrders

`keyHealth` and `keyHeld` are a platform's keys and its counter of users; `matching` is the set of calls
whose captured `health_revision` is still current, and `overtaken` (history) those it no longer is;
`probing`, `probeLeft`, `skipped` the preflights. `orderAt`, `orderKey`, `orderNo`, `tried`, `attempts` are
the task's facade, `costLedger` the ledger of costs or the outcomes kept in a task's result,
`cancelQueue` and `confirmedRows` the cleanup file, `sweep` and `swept` a pass of the cleanup. `sold` is
the platform's own record and external. A task counts in a key's `in_flight` while it queries prices
(`QueryAnswered`, `QueryCounted`), asks for a number, gets rid of an unusable one or has one.

A purchase is `ChoosePlatform`, `ReserveKey` and one of `NumberSold`, `ActivationUnusable` (then
`DropUnusable`) and `RequestFails`, whose lost answer may have been a sale. A number ends by `CompleteOrder`
or `CancelConfirmed`; or `CancelFails` or `CancelUnconfirmed` put it into the queue, or fail to, and
`NoteCancel` tells the ledger. `ConfigureKeys` is a save of the same keys and `ReplaceKeys` of others, which
makes their states anew: a call in flight keeps the state it reserved, `OldKey`. Both are possible at
any time, although the routes refuse them while the importer runs: the methods themselves do not.
`BeginSmsRun` zeroes the counters for new tasks; `SmsCrash` keeps the files, and of the outcomes some of those of
tasks that had ended.

`MoneyIsAccounted` says how a number that is paid for can be lost, and that there is no other way. It is
sold into the hands of a task, unless its purchase is reported to that task as failed (the answer was
lost); and it leaves the hands of everybody (a task, the queue, an outcome that says that giving it up
failed) only when the process dies before it is queued, or with an unusable activation whose cancellation
failed. The three are listed under [Divergences](#divergences).

### RunNotices

`ObserveRun`, `ObserveBalances`, `MarkManualStop`, `FinalizeRun`, `FreezeStall`, `ThawStall` are the coordinator
under its lock; what they decide to mail is in hand (`inHand`) until `SubmitNotice`, which is
`NotificationOutbox.submit`. `TakeNotice` and `SendNotice` are the worker, `CloseOutbox` the close, whose
sentinel is the empty notice. The code sets the closing flag and puts the sentinel in two steps, which are one
here: nothing is accepted in between, and what the worker takes meanwhile only makes room. `instant`,
`progressAt`, `frozenAt` are the stall clock; `quietTicks` is the history it is compared with.

### ManualVerification

The broker (`prompts`, `shown`, `tombstone`, `generation`) and one task that waits for codes, each time
with an automatic fetcher nobody joins. The broker's calls are atomic, since they hold its condition; the
race looks at the broker (`LookForPrompt`) and at its own results (`DequeueResult`, `CollectResults`) in
separate steps. `PersonOpens` and `PersonPosts` are the routes, `FetchCode`, `HandCode`, `FetcherPosts`,
`FetchFails` the fetchers, also of stages that are over. `NoteFails` and `AnnouncementFails` are the two places
at which a callback that raises ends the wait; the code announces a prompt once, the model may do so each
round.

### SignupFlow and AccountSetup

`SignupFlow` is one task's registration: `flow` is the page it is at with its budgets, `signup` the
attempt (sessions opened, retries and switches left, what was confirmed and posted), `site` what the
external site knows of the address. `RebuildSession` is the rebuild within a run, `Challenged` the
switch of the exit, `Retried` the retry of the whole attempt, `Registers` and `StopSignup` its ends.

`AccountSetup` is what follows: `account` is the server (password, factor, enrolments issued), `saved`
the stored result, `job` the running worker with its copy of the result, `timers` the automatic
continuations that wait, `lostSave` whether a save was refused. `PasswordAdds`/`PasswordPersists` and
`Enrolls`/`TwofaPersists`/`TwofaActivates` are the two milestones, each a request and a save apart;
`Finishes` merges and decides on a continuation, `OperatorRetries` and `ThrottleFires` are the other two
ways to one, `SetupCrash` loses the job and the timers.

### Suites

Components that share no state are checked together: `MC_FreeRegistration` (mailbox, owner, guard;
in `free_punctual` also signup and setup),
`MC_FreeFair` (mailbox, owner, notices), `MC_Upkeep` (tasks, manual verification, pool, leases),
`MC_WorkbenchRun` (importer, notices), `MC_Services` (admission, browsers, SMS) and
`MC_ServiceFair` (guard, checks, browsers). A variable `focus` picks in the initial state the one component
that moves, so the states of the components add instead of multiplying, and a property of one is checked
on all of its behaviours.

## Runs

| run | asks | bounds |
|---|---|---|
| `free_punctual` | with renewals in time: a lease shields its row, a grant is durable, rows are handed back, no second grant of a saved account; a batch owns its database; gate and guard agree; an address is posted once, credentials are kept, retries and sessions are bounded | three tasks of one batch on two rows, TTL 1, `Punctual`; two processes, owner TTL 2, three epochs, three releases, `Sequential`, no retries; two requests, one slot, two failures to an outage, two rounds to recover, decisions and switch in time; one retry, one switch, two pages, two rounds, one resend; two enrolments, one continuation by hand, one crash, budgets of one |
| `free_races` | whatever is late: one live owner, markers erased only by an abort or a rerun; a live owner's row survives; slots, pauses, stickiness, clean recovery | two tasks on one row, TTL 2, leases that may lapse at any step; two processes overlapping, owner TTL 1, retries; two requests, one slot growing to two, everything late |
| `free_fair` | every dispatched task ends, an idle manager yields, the outbox drains | two tasks, one row, TTL 1; one manager, three releases in flight, retries; an outbox of one |
| `upkeep` | rows tell what became of tasks and never go back; codes reach their wait; a refill keeps the pool; leases are a table | two managers one after the other, one task, one lost save, one request of the operator; two waits, one posted code, one prompt opened by hand; four exits, two at first, one manual, two tasks, two failures to a quarantine, two burns to trip; two processes with leases of two ticks, one of which may vanish |
| `workbench_run` | leases are recorded and kept while worked; a finished manifest tells the truth; notices once; the stall clock | two mailboxes, two batches, one worker, one crash, and one refused return before it; one balance, an outbox of two, three instants |
| `services` | counters, capacity and places add up, money is accounted for, answers apply in order | three tasks under ceiling three; one browser of two contexts, two calls, one death; one key, two tasks, one number, one preflight, one crash |
| `service_fair` | a paused gate opens, a live check is answered, a dead browser is replaced; checks neither double nor get lost | one request; one account, two jobs, one crash; one browser, one call, one death |
| `lease_available`, `owner_overlap`, `guard_decision`, `checks_stranded`, `exits_revived` | violated: see below | the smallest instance that shows it |

Why the bounds are enough to be worth running. Three tasks on two rows give an old owner, a new one and
one that recovers, and a start-up that fails half-way; two processes give a stalled owner and its
successor, and the epochs allow a takeover and one back. A slot that grows to two lets one request be in
flight, and become stale, while the other opens the outage; a threshold and a round count of two separate
the first failure from the one that counts. TTLs of one or two periods let a lease lapse between any two
steps, or only when nobody renews it. Two mailboxes and two batches let a batch stop while a second one
wants its boxes, and a crash may come after every single write (after a crash the storage does not refuse
a return, `MaxMishaps`: the next run starts from files alone, and its refusals are those of a first run). Two contexts in one browser let one
registration recycle it while the other is still open. One number and two tasks make the second task fail
while the first uses it, cancels it or leaves it to the cleanup; one key is replaced by being removed and
configured again. What the runs check of safety is proved without these bounds for
most components, see [Proofs](#proofs). Symmetry is used in runs without liveness only: tasks of one row
and one batch, processes, requests, calls are interchangeable. Deadlock is not checked: a finished batch,
an idle guard or a bounded claim really stops.

Fairness. `free_fair`: threads of the pool run (weak), a coordinator call that keeps becoming possible is
made (strong, because the heartbeat may hold the task's lock), time passes, a recovery that began goes on,
the mail worker works. Crashes, operators, reruns and other processes never have to act; nobody must start,
stop or retry. `service_fair`: request threads, the prober and the switch run, cool-downs and spacings pass,
and the route answers rounds often enough for the required number in a row: strong fairness of a successful
round at each count, the assumption about the network without which no guard could ever reopen. A request
may stay in flight only as long as its timeout, so it returns (weak). The executors of the checks and the
recovery run, the recycler of the pool runs; browsers need not die and services need not crash.

Regimes. Some constants say what may be late: `Punctual`, `OwnerPunctual`, `Sequential`, `Retries`,
`LateDecisions`, `LateToggles`, `LateReports`, `LateDeadlines`, `ClosesMeetDeaths`, `ProbeTTL`. Both values are
behaviours of the code. Where a property needs one of them, the run and the theorem say so, and the other
value is either the subject of a divergence or of a run with the properties that survive it.

## Divergences

Five are the counterexample of a run:

- `lease_available` / `ConfirmedNeverAvailable`: `set_status` checks rows, then writes them one by one;
  a row confirmed in between is shown as available (`free_storage_adapter_mailbox.py:628`).
- `owner_overlap` / `BatchIsOwned`: the release that follows the end of a batch can delete the row
  another start has just relied on.
- `guard_decision` / `PausedGateIsProbed`: a decision to pause applied after the outage is over
  pauses a gate that nobody resumes, and counts as a second outage.
- `checks_stranded` / `PlanNotStranded`: a plan check started within the coalescing window is still
  "queued" on disk; after a crash nobody submits it and nobody may enqueue it again.
- `exits_revived` / `BurnedIsForever`: a late report puts a burned exit back into allocation.

Others follow from the same models and have no run of their own.

*Mailboxes, processes, gates.*

- Expired leases are recovered by constructors only (`free_register_runtime.py:274`): a row whose
  release did not resolve stays reserved or running while the manager is up, although the hint shown
  for it says that expired leases recover automatically (`free_register_runtime.py:1446`). `HandedBack`
  therefore speaks of tasks that account for a row and not of rows that settle.
- The release after a failure makes `pending_rerun` rows available again (`Freed`), against the log
  line and comment in `free_register_runtime.py:1884, 2511`.
- A refused retry keeps its claim, and a start relies on a held claim without renewing it; once aged
  it can be taken over before the first heartbeat: with `Retries = TRUE`, `BatchIsOwned` fails, and
  one takeover later two batches run.
- An outage that begins between the switch's snapshot and `set_enabled(False)` leaves the gate
  paused: with `LateToggles = TRUE`, `PausedGateIsProbed` fails.
- The in-flight expansion is restored (`ResumeInflight`) after the next failure has already taken it back.

*Registration.*

- A signup whose prelude signs in with the address as a hint does not confirm its mailbox: the
  exit switch then replays an address the site has seen, against the comment in
  `free_register_runtime.py:2225-2229` (`SwitchReplaysNothing`), and a stop returns the row as available,
  against the docstring of `_restore_mailbox_after_pre_registration_failure` (`ReturnedIsUnconsumed`). What
  holds is about the identifier post: `AddressIsPostedOnce`.
- The short circuit for the same failure twice (`free_register_runtime.py:2302-2325`) does not fire
  when the exit was switched, because `_switch_pre_profile_proxy` appends an entry of its own in between
  (`free_register_scheduler.py:133`).
- `twofa_session_id` is lost by the merge of results (`free_protocol_twofa.py:502-507`): what the fast
  path of a continuation finds is not always ready for it (`FastPathIsReady`).
- `_enqueue_retry` always counts up `retry_attempt`, also for the automatic continuation whose docstring
  (`_schedule_auto_password_retry`) says otherwise.
- After a crash between the enrolment and its activation in the register mode, the result holds a secret
  and a session but no token: a continuation of the factor and a rerun are both refused.

*Pool, checks, orders, browsers, codes.*

- The breaker is asked before the maintenance lock is taken (`free_proxy_maintenance.py:55`): a refill that
  waits for the lock mints after it tripped, against the docstring at `free_register_runtime.py:1808-1812`.
- A plan check writes its copy of the account's result over a newer live check (`free_plan_check.py:358`):
  the two documents have no revision.
- A registration whose deadline passes while its failure is captured keeps its place for good
  (`LateDeadlines = TRUE` violates `PlacesAddUp`); a window whose close meets the
  death of its browser is given back twice, and the hold of a later window goes with it
  (`ClosesMeetDeaths = TRUE` violates `WindowsSurviveRecycling`).
- A number that is paid for is lost in three ways, and nothing asks for it again: the answer to its purchase
  is lost (`sms_key_pool.py:541-548`; the task is told that the purchase failed); the activation cannot be
  used and its cancellation fails, which is only reported to the key (`sms_provider_orchestration.py:680-688`);
  the process dies before the number is in the cleanup queue.
- A diagnostics callback that raises in `manual_verification_runtime.py` at 405 or 432 runs into a name a plain
  function does not have, and ends the wait, against the comment at 403; at 432 the prompt stays open.

## Proofs

TLAPS checks these for every value of the constants (their assumptions are stated beside them).

| module | theorem | argument |
|---|---|---|
| MailboxLeaseProofs | `TypeCorrect` | a lemma per helper that rewrites a row, then a step per action |
| | `ScalarCorrect`, `OneOwner` | `ScalarNamesSidecar` with the type invariant is inductive: each transaction writes both copies of a lease and only ever leaves the named owner's positive; one live owner is its corollary |
| | `CallsStayInPlace` | a call in flight belongs to a task whose phase waits for it; nothing that changes a phase leaves a call behind |
| | `DoorHolds`, `MarkerErasure` | no hypothesis on heartbeats. `DoorInv` says who stands at a row's door: from its reservation until its confirmation the started task is the only one whose calls can touch the row. `RowsStep`, `PhaseStep` and their lemmas say once what any step may do to a row, a lease and a task, and the action property is read off them |
| | `GrantDurable`, `RowsHandedBack`, `NoSecondGrant`, `Shields` | assume `Punctual`. None of the four is inductive: `HoldInv` joins what they need of one another (who is booting, that a live task holds its lease, that a granted one finds its marker, that what is not undone is carried by a task), and `Shield` that a live lease refuses everybody else's transaction |
| FreeTasksProofs | `OwnerTypeCorrect`, `LiveRowSurvives`, `FenceHolds` | epochs grow with every takeover, so a former owner's pair never matches again |
| | `OwnedBatch`, `SingleBatch` | assume `Sequential`, `OwnerPunctual`, no `Retries`. `CalmInv` says what each manager holds at each point of its life, releases in flight included: `BatchIsOwned` alone is not inductive because it says nothing of a start in progress |
| | `RowsTellAtRest`, `RowsAreFinal`, `FreeTypeCorrect` | the same three hypotheses. `FreeInv` on top of `CalmInv`: a worker is where its manager's batch is; a row goes only by its own snapshot or by a deletion; the copy another process has of a live task knows at most the end that is stored; for whatever the table does not say yet a full save is still to come; and the two checkpoints of a failed start. One lemma per action; `TaskKept`, `EndedKept` and `CopyOfOther` say what a step leaves alone |
| ConnectivityGuardProofs | `ReasonsKept`, `StickyKept` | each gate operator preserves `SoundGate`; the steps only apply operators |
| | `GuardTypeCorrect`, `ProberPresent`, `CleanRecovery` | `ProberInv`: a paused guard is enabled and its counted rounds were clean, and a current round is undisturbed. The type of `clean` already needs it |
| | `SlotsCounted` | the requests inside as a finite set that each step changes by at most one |
| | `PausedIsProbed`, `OutageIsShut` | assume no late decisions and toggles. `PromptInv`: a decision on its way keeps its outage and the switch away, and a cut gate has somebody who will open it: the guard, the pending recovery, the switch, or the next start |
| CapacityProofs | `AdmissionExact`, `CapacityLent` | `GateInv` in three independent parts: the door (counters and the tasks they stand for), the capacity (what a burst added is known and bounded), the news (with nothing undelivered the node gate has the last announced limit) |
| | `PlacesAlwaysAddUp`, `RecyclingSparesWindows`, `BrowserTypeCorrect` | assume neither `LateDeadlines` nor `ClosesMeetDeaths`. Neither property is inductive: `BrowserInv` adds who drives each recycler and each waiting request, and of which generation they are (a call that recovers and the listener of a death find no live browser; a request of the current generation is of a browser that is still there). A step of a recycler changes one slot and moves one driver: `RecyclerMoves` says once what that leaves to show |
| WorkbenchProofs | `NoticesExact`, `StallClock` | a topic is in at most one of hand, queue, sending and mailed; the outstanding count is the sum of where notices are; the clock equals its history step by step |
| | `BoxesKept`, `RunClosed`, `ImportTypeCorrect` | no hypotheses beyond a finite pool. `ImportInv`: a manifest that is active while the process is up is the current batch's; a queued or running task is of the current batch, whose watcher still waits for it; its box is that batch's, and no other task, return or append of the batch has it; and for every lease somebody answers (`Answered`): a record recovery reads, a task, an append or a return on its way, or it is stranded. Neither property is inductive: what a failed start or a refused append returns must be nobody else's, and what stop cancels must be what it took. One lemma per action |
| AccountChecksProofs | `ChecksKept` | an active job has a thread, a call that will submit it, or a file from which recovery takes it; a crash moves every job to the last of them |
| UpkeepProofs | `LeaseTypes`, `LeaseIsNeverLost`, `LeaseIsNeverRevived` | what a snapshot may differ in from the table, per task, since it was loaded: the merge only takes its own task's part of it |
| | `StoreImplementsTable` | the refinement of `LeaseTable`: a commit maps to the table's operation, every other step to a stutter |
| | `RefillsKeepThePool`, `BurnsAreForGood` | assume no `LateReports`, the first also that the pool starts with no more live tunnels than twice its target. `RefillInv`: only the holder of the maintenance lock mints, its budget and the live tunnels together stay within the bound, and what it still may remove is burned |
| | `CodesArrive`, `ManualTypeCorrect` | `ManualInv`: every code of a prompt or an ending was fetched by a wait of the same generation or typed and accepted at a prompt of it, a queue holds something only after its worker handed it over, and the prompt awaited or on display has not been returned yet |
| RegistrationProofs | `AddressPostedOnce`, `SessionsBounded`, `SignupTypeCorrect` | the boundary and the marker are set before the post in every path that posts, and every session is paid for by an attempt or a switch |
| | `CredentialsKept`, `RetriesBounded`, `SetupTypeCorrect` | every copy of the result is honest about the account, a job starts from the saved secret, and another secret in a job is fresh and issued while no factor is active; each continuation pays one of its budgets |
| | `MoneyAccounted`, `AnswersOrdered`, `SmsTypeCorrect` | the counter of a key is the number of its holders; a number has one task from its sale until its cancellation is booked, a task past its hand-over finds it in the queue or no longer active, and a sweep holds rows of the queue only; `SoldIntoHand` and `StaysInHand` are read off each action; a call matches the current revision or was overtaken, never both |

`PROJECT.json` says which checked property each theorem states. A mutant of every checked property is
refuted by the same run, so none of the formulas holds by the shape of the model.

Only model-checked:

- liveness (`TaskCompletes`, `IdleYields`, `OutboxDrains`, `GateReopens`, `LiveIsAnswered`, `DeadIsReplaced`):
  fairness and ENABLED are out of the prover's reach;
- every divergence: a counterexample is a run.

## Plan

Done: the hand-off, the ownership and the guard with their gates; the task
store, the pool with its leases and their abstract table, the checks, the browsers, the importer,
the orders, admission, notices, manual verification, signup and setup; the proofs above, one for every
safety property a run checks.

Left, in this order:

1. `LeaseHandoff`, the abstract hand-off (an address is free, held, or used up), implemented by
   MailboxLease; and the row of one Free task as a ladder (queued, running, final) that FreeTasks implements.
2. Session checkpoints (`phase1_checkpoint_runtime.py`): a lease in a file beside a per-process record of
   what the process claimed.
3. The start of a second batch while the first is still being watched, and the handles of
   `web_gui.py` it shares with it.

## Not modelled

Beside the components above: SQL and file formats, the wording of logs and messages, masking of
secrets, HTTP details, timeouts as durations (a timeout is a step that may happen), and the content of
mails and pages. In MailboxLease: import, delete and priority of mailboxes. In ManagerOwner: what schema
migrations do. SQLite itself is trusted: a transaction is atomic and a busy database is a refused call; a
file is written whole or not at all.
