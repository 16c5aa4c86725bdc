----------------------------- MODULE SmsOrders -----------------------------
(***************************************************************************)
(* Phone numbers bought for a run: the key pool of one SMS platform        *)
(* (sms_key_pool.py, with the platform's batch health), the order facade   *)
(* of each task (sms_provider_orchestration.py, sms_web.py) and the        *)
(* persistent queue of cancellations (sms_order_runtime.py).               *)
(*                                                                         *)
(* health_revision is kept as the set of calls it still matches: a call    *)
(* joins the set when it reads the revision and all leave it when the      *)
(* revision moves.  preflight_generation is the probe it belongs to.       *)
(* Due times and back-off are abstracted: any pending row may be due.      *)
(* A list of keys that is saved again in another shape replaces the state  *)
(* objects of the pool; a call that reserved one before keeps it (OldKey), *)
(* and what is learned or released of it no longer reaches the pool.       *)
(***************************************************************************)
EXTENDS Common

CONSTANTS
    SmsKeys, SmsTasks, Orders,
    Probes,             \* preflights, each run once
    NoKey, NoOrder, NoProbe,
    OldKey,             \* the state of a key that was replaced meanwhile
    NumberBudget,       \* max_attempts_per_platform
    MaxSmsCrashes       \* bound: process crashes

ASSUME SmsAssumption ==
    /\ {NoKey, OldKey} \cap SmsKeys = {} /\ NoKey # OldKey
    /\ NoOrder \notin Orders /\ NoProbe \notin Probes
    /\ NumberBudget \in Nat \ {0} /\ MaxSmsCrashes \in Nat
    /\ SmsTasks \cap Probes = {} /\ IsFiniteSet(SmsTasks)

VARIABLES
    keyHealth,      \* status of each key
    keyHeld,        \* in_flight
    matching,       \* calls whose revision is still the key's
    probing,        \* the probe preflight_generation belongs to
    probeLeft,      \* keys each probe still has to write its answer for
    skipped,        \* the platform is in SmsProviderBatchHealth
    orderAt,        \* what each task is doing
    orderKey, orderNo,  \* the key and the number of its facade
    tried,          \* keys excluded in this activate
    attempts,       \* its attempt count on the platform
    sold,           \* external: what the platform says of each number
    costLedger,     \* SmsCostLedger, or the outcomes kept in a task's result
    cancelQueue,    \* pending rows of the cleanup file
    confirmedRows,  \* its confirmed rows
    sweep,          \* rows the worker took and has not tried
    swept,          \* rows of its round whose handler confirmed
    smsCrashes,     \* bookkeeping
    overtaken       \* bookkeeping: calls a later answer of their key was recorded for

keyVars     == <<keyHealth, keyHeld, matching, probing, probeLeft, skipped, overtaken>>
orderVars   == <<orderAt, orderKey, orderNo, tried, attempts>>
bookedVars  == <<sold, costLedger>>
cleanupVars == <<cancelQueue, confirmedRows, sweep, swept>>
smsVars     == <<keyVars, orderVars, bookedVars, cleanupVars, smsCrashes>>

\* Without balance, or invalid: the code treats the two alike.
Dead      == {"dead"}
\* rate_limited and network_error; "cooled" once cooldown_until has passed.  A key
\* that is not configured has no state: "absent".
KeyStates == {"unchecked", "usable", "cooling", "cooled", "error", "absent"} \cup Dead
\* classify_key_error.
KeyErrors == Dead \cup {"cooling", "other"}
OrderPhases == {"idle", "pricing", "querying", "priced", "chosen", "asking", "unusable",
                "leased", "spent", "queued", "unqueued"}
\* The phases of a task in which it counts in in_flight.
Holding     == {"asking", "querying", "unusable", "leased"}
SaleStates  == {"unsold", "active", "cancelled", "completed"}
BookStates  == {"none", "leased", "completed", "complete_error", "cancelled",
                "cancel_pending", "cancel_failed"}

SmsInit ==
    /\ keyHealth = [k \in SmsKeys |-> "unchecked"] /\ keyHeld = [k \in SmsKeys |-> 0]
    /\ matching = [k \in SmsKeys |-> {}]
    /\ overtaken = [k \in SmsKeys |-> SmsTasks \cup Probes]
    /\ probing = NoProbe /\ probeLeft = [p \in Probes |-> {}] /\ skipped = FALSE
    /\ orderAt = [t \in SmsTasks |-> "idle"] /\ orderKey = [t \in SmsTasks |-> NoKey]
    /\ orderNo = [t \in SmsTasks |-> NoOrder] /\ tried = [t \in SmsTasks |-> {}]
    /\ attempts = [t \in SmsTasks |-> 0]
    /\ sold = [o \in Orders |-> "unsold"] /\ costLedger = [o \in Orders |-> "none"]
    /\ cancelQueue = {} /\ confirmedRows = {} /\ sweep = {} /\ swept = {}
    /\ smsCrashes = 0

-----------------------------------------------------------------------------
(* The health of a key.                                                    *)

Selectable(k) == keyHealth[k] \in {"usable", "unchecked", "cooled"}
Present == {k \in SmsKeys : keyHealth[k] # "absent"}
Exhausted(health) == /\ \E k \in SmsKeys : health[k] \in Dead
                     /\ \A k \in SmsKeys : health[k] \in Dead \cup {"absent"}

\* An answer is recorded for a key: its revision moves.
KeyRecorded(k, status) ==
    /\ keyHealth' = [keyHealth EXCEPT ![k] = status]
    /\ matching' = [matching EXCEPT ![k] = {}]
    /\ overtaken' = [overtaken EXCEPT ![k] = SmsTasks \cup Probes]

\* _mark_error: a runtime error that is not about the key calls it usable.
RuntimeStatus(kind) == IF kind = "other" THEN "usable" ELSE kind
\* A preflight finds a balance, or none, or an error.
ProbeAnswers        == {"usable", "cooling", "error"} \cup Dead

\* report_error of a task, into the state it reserved.
KeyReported(t, kind) ==
    \/ orderKey[t] # OldKey /\ KeyRecorded(orderKey[t], RuntimeStatus(kind))
    \/ orderKey[t] = OldKey /\ UNCHANGED <<keyHealth, matching, overtaken>>

\* A call reads the revision.
Reads(k, caller) == /\ matching' = [matching EXCEPT ![k] = @ \cup {caller}]
                    /\ overtaken' = [overtaken EXCEPT ![k] = @ \ {caller}]

ReleasedKey(k) == [keyHeld EXCEPT ![k] = OneLess(@)]
\* _release_state also notices that no key is left: exhausted_fn.
Released(t) ==
    /\ \/ orderKey[t] # OldKey /\ keyHeld' = ReleasedKey(orderKey[t])
       \/ orderKey[t] = OldKey /\ UNCHANGED keyHeld
    /\ skipped' = (skipped \/ Exhausted(keyHealth'))

CooldownOver(k) ==
    /\ keyHealth[k] = "cooling" /\ keyHealth' = [keyHealth EXCEPT ![k] = "cooled"]
    /\ UNCHANGED <<keyHeld, matching, probing, probeLeft, skipped, overtaken, orderVars,
                   bookedVars, cleanupVars, smsCrashes>>

\* What a configuration makes of a key: a dead one is unchecked again.
Reset(k) == keyHealth[k] \in Dead \cup {"absent"}

\* Saving the configuration with the same keys.
ConfigureKeys ==
    /\ skipped' = FALSE /\ probing' = NoProbe
    /\ keyHealth' = [k \in SmsKeys |-> IF keyHealth[k] \in Dead THEN "unchecked"
                                       ELSE keyHealth[k]]
    /\ matching' = [k \in SmsKeys |-> IF keyHealth[k] \in Dead THEN {} ELSE matching[k]]
    /\ overtaken' = [k \in SmsKeys |-> IF keyHealth[k] \in Dead
                                       THEN SmsTasks \cup Probes ELSE overtaken[k]]
    /\ UNCHANGED <<keyHeld, probeLeft, orderVars, bookedVars, cleanupVars, smsCrashes>>

\* Saving it with other keys, or in another order: every state is made anew, with
\* in_flight at 0, and keeps what was known of a key that stays.
ReplaceKeys(kept) ==
    /\ kept = Present => \E j, k \in kept : j # k
    /\ skipped' = FALSE /\ probing' = NoProbe
    /\ keyHealth' = [k \in SmsKeys |-> IF k \notin kept THEN "absent"
                                       ELSE IF Reset(k) THEN "unchecked" ELSE keyHealth[k]]
    /\ keyHeld' = [k \in SmsKeys |-> 0]
    /\ matching' = [k \in SmsKeys |-> {}]
    /\ overtaken' = [k \in SmsKeys |-> SmsTasks \cup Probes]
    /\ orderKey' = [t \in SmsTasks |-> IF orderKey[t] = NoKey THEN NoKey ELSE OldKey]
    /\ UNCHANGED <<probeLeft, orderAt, orderNo, tried, attempts, bookedVars, cleanupVars,
                   smsCrashes>>

\* begin_run: a run is started, which the routes refuse while another goes on.  The
\* tasks are new ones; what the ended ones left open is in their results.
BeginSmsRun ==
    /\ \A t \in SmsTasks : orderAt[t] \in {"idle", "spent"}
    /\ probing' = NoProbe /\ keyHeld' = [k \in SmsKeys |-> 0]
    /\ attempts' = [t \in SmsTasks |-> 0]
    /\ orderAt' = [t \in SmsTasks |-> "idle"] /\ orderKey' = [t \in SmsTasks |-> NoKey]
    /\ orderNo' = [t \in SmsTasks |-> NoOrder] /\ tried' = [t \in SmsTasks |-> {}]
    /\ UNCHANGED <<keyHealth, matching, probeLeft, skipped, overtaken, bookedVars,
                   cleanupVars, smsCrashes>>

\* preflight: every key is asked, and the answers are written one by one.
StartProbe(p) ==
    /\ probing # p /\ probeLeft[p] = {} /\ probing' = p
    /\ ~skipped /\ ~Exhausted(keyHealth) /\ Present # {}
    /\ probeLeft' = [probeLeft EXCEPT ![p] = Present]
    /\ matching' = [k \in SmsKeys |-> matching[k] \cup {p}]
    /\ overtaken' = [k \in SmsKeys |-> overtaken[k] \ {p}]
    /\ UNCHANGED <<keyHealth, keyHeld, skipped, orderVars, bookedVars, cleanupVars,
                   smsCrashes>>

\* mutant: only the revision is compared.
WritesAlways(p, k) == p \in matching[k]
Writes(p, k) == probing = p /\ p \in matching[k]
WriteProbe(p, k, status) ==
    /\ k \in probeLeft[p] /\ probeLeft' = [probeLeft EXCEPT ![p] = @ \ {k}]
    /\ \/ Writes(p, k) /\ KeyRecorded(k, status)
       \/ ~Writes(p, k) /\ UNCHANGED <<keyHealth, matching, overtaken>>
    /\ UNCHANGED <<keyHeld, probing, skipped, orderVars, bookedVars, cleanupVars,
                   smsCrashes>>

-----------------------------------------------------------------------------
(* Asking a platform: for its prices, or for a number.                     *)

BudgetLeft(t) == attempts[t] < NumberBudget

\* _active_specs: the platform is skipped, or found without a key that may work.
PlatformActive == Present # {} /\ ~skipped /\ ~Exhausted(keyHealth)
FindExhausted ==
    /\ ~skipped /\ Exhausted(keyHealth) /\ skipped' = TRUE
    /\ \E t \in SmsTasks : orderAt[t] = "idle"
    /\ UNCHANGED <<keyHealth, keyHeld, matching, probing, probeLeft, overtaken, orderVars,
                   bookedVars, cleanupVars, smsCrashes>>

\* registry.activate chooses the platforms before the first one is asked, and counts
\* the attempt; get_price_candidates queries every active one.
ChoosePlatform(t) ==
    /\ orderAt[t] = "idle" /\ PlatformActive
    /\ \/ /\ BudgetLeft(t) /\ attempts' = [attempts EXCEPT ![t] = @ + 1]
          /\ orderAt' = [orderAt EXCEPT ![t] = "chosen"]
       \/ orderAt' = [orderAt EXCEPT ![t] = "pricing"] /\ UNCHANGED attempts
    /\ UNCHANGED <<keyVars, orderKey, orderNo, tried, bookedVars, cleanupVars, smsCrashes>>

\* _reserve_state: the selectable key with the fewest calls in flight; a key that
\* fails is not asked again in this call.
LeastHeld(k, t) == /\ Selectable(k) /\ k \notin tried[t]
                   /\ \A j \in SmsKeys \ tried[t] :
                         Selectable(j) => keyHeld[k] <= keyHeld[j]
ReserveKey(t, k) ==
    /\ LeastHeld(k, t)
    /\ \/ /\ orderAt[t] = "chosen"  /\ orderAt' = [orderAt EXCEPT ![t] = "asking"]
       \/ /\ orderAt[t] = "pricing" /\ orderAt' = [orderAt EXCEPT ![t] = "querying"]
    /\ orderKey' = [orderKey EXCEPT ![t] = k]
    /\ tried' = [tried EXCEPT ![t] = @ \cup {k}]
    /\ keyHeld' = [keyHeld EXCEPT ![k] = @ + 1]
    /\ Reads(k, t)
    /\ UNCHANGED <<keyHealth, probing, probeLeft, skipped, orderNo, attempts, bookedVars,
                   cleanupVars, smsCrashes>>

\* No key is left: the call fails, and a purchase marks the platform when all are dead.
NoKeyLeft(t) ==
    /\ orderAt[t] \in {"chosen", "pricing"}
    /\ \A k \in SmsKeys \ tried[t] : ~Selectable(k)
    /\ skipped' = (skipped \/ (orderAt[t] = "chosen" /\ Exhausted(keyHealth)))
    /\ orderAt' = [orderAt EXCEPT ![t] = "idle"] /\ tried' = [tried EXCEPT ![t] = {}]
    /\ UNCHANGED <<keyHealth, keyHeld, matching, probing, probeLeft, overtaken, orderKey,
                   orderNo, attempts, bookedVars, cleanupVars, smsCrashes>>

StillMatching(t, k) == k \in SmsKeys /\ t \in matching[k]
\* _mark_success counts if nothing newer was heard of the state that was reserved.
SuccessCounts(t) ==
    \/ StillMatching(t, orderKey[t]) /\ KeyRecorded(orderKey[t], "usable")
    \/ ~StillMatching(t, orderKey[t]) /\ UNCHANGED <<keyHealth, matching, overtaken>>

\* query gives the key back before it counts its success.
QueryAnswered(t) ==
    /\ orderAt[t] = "querying" /\ orderAt' = [orderAt EXCEPT ![t] = "priced"]
    /\ tried' = [tried EXCEPT ![t] = {}]
    /\ UNCHANGED <<keyHealth, matching, overtaken>> /\ Released(t)
    /\ UNCHANGED <<probing, probeLeft, orderKey, orderNo, attempts, bookedVars,
                   cleanupVars, smsCrashes>>
QueryCounted(t) ==
    /\ orderAt[t] = "priced" /\ orderAt' = [orderAt EXCEPT ![t] = "idle"]
    /\ SuccessCounts(t)
    /\ orderKey' = [orderKey EXCEPT ![t] = NoKey]
    /\ UNCHANGED <<keyHeld, probing, probeLeft, skipped, orderNo, tried, attempts,
                   bookedVars, cleanupVars, smsCrashes>>

\* The platform sells a number and says so.
NumberSold(t, o) ==
    /\ orderAt[t] = "asking" /\ sold[o] = "unsold"
    /\ sold' = [sold EXCEPT ![o] = "active"]
    /\ costLedger' = [costLedger EXCEPT ![o] = "leased"]
    /\ orderAt' = [orderAt EXCEPT ![t] = "leased"]
    /\ orderNo' = [orderNo EXCEPT ![t] = o] /\ tried' = [tried EXCEPT ![t] = {}]
    /\ SuccessCounts(t)
    /\ UNCHANGED <<keyHeld, probing, probeLeft, skipped, orderKey, attempts,
                   cleanupVars, smsCrashes>>

\* It answers without an activation that can be used; it may have sold one.
ActivationUnusable(t) ==
    /\ orderAt[t] = "asking" /\ orderAt' = [orderAt EXCEPT ![t] = "unusable"]
    /\ \/ \E o \in Orders : /\ sold[o] = "unsold" /\ sold' = [sold EXCEPT ![o] = "active"]
                            /\ orderNo' = [orderNo EXCEPT ![t] = o]
       \/ UNCHANGED <<sold, orderNo>>
    /\ SuccessCounts(t) /\ tried' = [tried EXCEPT ![t] = {}]
    /\ UNCHANGED <<keyHeld, probing, probeLeft, skipped, orderKey, attempts,
                   costLedger, cleanupVars, smsCrashes>>

\* The platform takes a number back, or its answer is lost, or it does not.
MayTakeBack(o) ==
    \/ /\ o \in Orders /\ sold[o] = "active"
       /\ sold' = [sold EXCEPT ![o] = "cancelled"]
    \/ UNCHANGED sold

\* _activate cancels it on the spot, reports a failure of that to the key, and lets
\* the number go either way: it is neither queued nor booked.
DropUnusable(t) ==
    /\ orderAt[t] = "unusable" /\ orderAt' = [orderAt EXCEPT ![t] = "idle"]
    /\ MayTakeBack(orderNo[t])
    /\ \/ UNCHANGED <<keyHealth, matching, overtaken>>
       \/ \E kind \in KeyErrors : KeyReported(t, kind)
    /\ Released(t)
    /\ orderKey' = [orderKey EXCEPT ![t] = NoKey]
    /\ orderNo' = [orderNo EXCEPT ![t] = NoOrder]
    /\ UNCHANGED <<probing, probeLeft, tried, attempts, costLedger, cleanupVars, smsCrashes>>

\* The request raises: another key is tried, unless the error is not about the key.
\* Of a purchase the answer may be what was lost: the platform has sold a number
\* that nobody here knows of.
RequestFails(t, kind) ==
    /\ \/ /\ orderAt[t] = "asking"
          /\ orderAt' = [orderAt EXCEPT ![t] = IF kind = "other" THEN "idle" ELSE "chosen"]
          /\ \/ UNCHANGED sold
             \/ \E o \in Orders : sold[o] = "unsold" /\ sold' = [sold EXCEPT ![o] = "active"]
       \/ /\ orderAt[t] = "querying" /\ UNCHANGED sold
          /\ orderAt' = [orderAt EXCEPT ![t] = IF kind = "other" THEN "idle" ELSE "pricing"]
    /\ KeyReported(t, kind) /\ Released(t)
    /\ orderKey' = [orderKey EXCEPT ![t] = NoKey]
    /\ tried' = [tried EXCEPT ![t] = IF kind = "other" THEN {} ELSE @]
    /\ UNCHANGED <<probing, probeLeft, orderNo, attempts, costLedger, cleanupVars,
                   smsCrashes>>

-----------------------------------------------------------------------------
(* Using it.                                                               *)

\* A poll or a ready call fails: the error is recorded and the number is kept.
PollFails(t, kind) ==
    /\ orderAt[t] = "leased" /\ KeyReported(t, kind)
    /\ UNCHANGED <<keyHeld, probing, probeLeft, skipped, orderVars, bookedVars, cleanupVars,
                   smsCrashes>>

\* _finish always releases the key, once.
FinishReleases(t) ==
    \/ orderAt[t] = "leased" /\ Released(t)
    \/ orderAt[t] # "leased" /\ UNCHANGED <<keyHeld, skipped>>

CompleteOrder(t) ==
    /\ orderAt[t] = "leased"
    /\ sold' = [sold EXCEPT ![orderNo[t]] = "completed"]
    /\ costLedger' = [costLedger EXCEPT ![orderNo[t]] = "completed"]
    /\ UNCHANGED <<keyHealth, matching, overtaken>> /\ FinishReleases(t)
    /\ orderAt' = [orderAt EXCEPT ![t] = "idle"]
    /\ orderNo' = [orderNo EXCEPT ![t] = NoOrder]
    /\ orderKey' = [orderKey EXCEPT ![t] = NoKey]
    /\ UNCHANGED <<probing, probeLeft, tried, attempts, cleanupVars, smsCrashes>>

\* The platform fails to complete, or its answer is lost; the lease stays known.
CompleteFails(t, kind) ==
    /\ orderAt[t] = "leased"
    /\ \/ sold' = [sold EXCEPT ![orderNo[t]] = "completed"]
       \/ UNCHANGED sold
    /\ costLedger' = [costLedger EXCEPT ![orderNo[t]] = "complete_error"]
    /\ KeyReported(t, kind) /\ FinishReleases(t)
    /\ orderAt' = [orderAt EXCEPT ![t] = "spent"]
    /\ UNCHANGED <<probing, probeLeft, orderKey, orderNo, tried, attempts, cleanupVars,
                   smsCrashes>>

HasNumber(t) == orderAt[t] \in {"leased", "spent"}

\* adapter_cancel and cancel_active_lease, with a confirmed receipt.
CancelConfirmed(t) ==
    /\ HasNumber(t) /\ sold[orderNo[t]] = "active"
    /\ sold' = [sold EXCEPT ![orderNo[t]] = "cancelled"]
    /\ costLedger' = [costLedger EXCEPT ![orderNo[t]] = "cancelled"]
    /\ UNCHANGED <<keyHealth, matching, overtaken>> /\ FinishReleases(t)
    /\ orderAt' = [orderAt EXCEPT ![t] = "idle"]
    /\ orderNo' = [orderNo EXCEPT ![t] = NoOrder]
    /\ orderKey' = [orderKey EXCEPT ![t] = NoKey]
    /\ UNCHANGED <<probing, probeLeft, tried, attempts, cleanupVars, smsCrashes>>

\* mutant: a number already confirmed is not queued, and any other one neither.
QueueNothing(o) == cancelQueue
\* enqueue: a row already confirmed is not queued again.
QueuedCancel(o) == IF o \in confirmedRows THEN cancelQueue ELSE cancelQueue \cup {o}

\* No receipt confirms the cancellation, whatever the platform did with it: the
\* number is queued, or writing the queue fails; the ledger is told after that.
HandsOver(t) ==
    /\ HasNumber(t) /\ MayTakeBack(orderNo[t]) /\ FinishReleases(t)
    /\ costLedger' = [costLedger EXCEPT ![orderNo[t]] = "cancel_pending"]
    /\ \/ /\ cancelQueue' = QueuedCancel(orderNo[t])
          /\ orderAt' = [orderAt EXCEPT ![t] = "queued"]
       \/ UNCHANGED cancelQueue /\ orderAt' = [orderAt EXCEPT ![t] = "unqueued"]
    /\ orderKey' = [orderKey EXCEPT ![t] = NoKey]
    /\ UNCHANGED <<probing, probeLeft, orderNo, tried, confirmedRows, sweep, swept,
                   smsCrashes>>

\* The cancellation fails or is deferred: the key is told, and a task gives HeroSMS up.
CancelFails(t, kind) ==
    /\ HasNumber(t) /\ KeyReported(t, kind) /\ HandsOver(t)
    /\ \/ attempts' = [attempts EXCEPT ![t] = NumberBudget]
       \/ UNCHANGED attempts

\* It is accepted, and nothing says that the number was refunded.
CancelUnconfirmed(t) ==
    UNCHANGED <<keyHealth, matching, overtaken, attempts>> /\ HandsOver(t)

NoteCancel(t) ==
    /\ orderAt[t] \in {"queued", "unqueued"}
    /\ costLedger' = [costLedger EXCEPT ![orderNo[t]] =
          IF orderAt[t] = "queued" THEN "cancel_pending" ELSE "cancel_failed"]
    /\ orderAt' = [orderAt EXCEPT ![t] = "idle"]
    /\ orderNo' = [orderNo EXCEPT ![t] = NoOrder]
    /\ UNCHANGED <<keyVars, orderKey, tried, attempts, sold, cleanupVars, smsCrashes>>

-----------------------------------------------------------------------------
(* The cleanup worker: due rows are read, tried without the lock, and the  *)
(* file is read again and written.                                         *)

SweepIdle == sweep = {} /\ swept = {}
StartSweep ==
    /\ SweepIdle /\ cancelQueue # {}
    /\ sweep' \in (SUBSET cancelQueue) \ {{}}
    /\ UNCHANGED <<keyVars, orderVars, bookedVars, cancelQueue, confirmedRows, swept,
                   smsCrashes>>

DoneRows(o, confirmed) == IF confirmed THEN swept \cup {o} ELSE swept
\* The handler: a platform may refuse what it cancelled or completed before.  Only
\* HeroSMS tells the ledger, and finds nothing once the task has ended.
TryRow(o, confirmed) ==
    /\ o \in sweep /\ sweep' = sweep \ {o}
    /\ swept' = DoneRows(o, confirmed)
    /\ \/ /\ sold[o] \in {"active", "cancelled"}
          /\ sold' = [sold EXCEPT ![o] = "cancelled"]
       \/ ~confirmed /\ UNCHANGED sold
    /\ \/ /\ confirmed /\ costLedger[o] # "none"
          /\ costLedger' = [costLedger EXCEPT ![o] = "cancelled"]
       \/ UNCHANGED costLedger
    /\ UNCHANGED <<keyVars, orderVars, cancelQueue, confirmedRows, smsCrashes>>

EndSweep ==
    /\ sweep = {} /\ swept # {}
    /\ cancelQueue' = cancelQueue \ swept
    /\ confirmedRows' = confirmedRows \cup (swept \cap cancelQueue)
    /\ swept' = {}
    /\ UNCHANGED <<keyVars, orderVars, bookedVars, sweep, smsCrashes>>

\* The process dies.  The cleanup file stays, and so do the outcomes in the results
\* of tasks that had ended; the pool, the facades and the ledger do not.
SmsCrash ==
    /\ smsCrashes < MaxSmsCrashes /\ smsCrashes' = smsCrashes + 1
    /\ keyHealth' = [k \in SmsKeys |-> IF k \in Present THEN "unchecked" ELSE "absent"]
    /\ keyHeld' = [k \in SmsKeys |-> 0]
    /\ matching' = [k \in SmsKeys |-> {}]
    /\ overtaken' = [k \in SmsKeys |-> SmsTasks \cup Probes]
    /\ probing' = NoProbe /\ probeLeft' = [p \in Probes |-> {}] /\ skipped' = FALSE
    /\ orderAt' = [t \in SmsTasks |-> "idle"] /\ orderKey' = [t \in SmsTasks |-> NoKey]
    /\ orderNo' = [t \in SmsTasks |-> NoOrder] /\ tried' = [t \in SmsTasks |-> {}]
    /\ attempts' = [t \in SmsTasks |-> 0]
    /\ \E saved \in SUBSET {o \in Orders : \A t \in SmsTasks : orderNo[t] # o} :
          costLedger' = [o \in Orders |-> IF o \in saved THEN costLedger[o] ELSE "none"]
    /\ sweep' = {} /\ swept' = {}
    /\ UNCHANGED <<sold, cancelQueue, confirmedRows>>

SmsNext ==
    \/ \E k \in SmsKeys : CooldownOver(k)
    \/ ConfigureKeys \/ BeginSmsRun \/ FindExhausted
    \/ \E kept \in SUBSET SmsKeys : ReplaceKeys(kept)
    \/ \E p \in Probes : StartProbe(p)
    \/ \E p \in Probes, k \in SmsKeys, status \in ProbeAnswers : WriteProbe(p, k, status)
    \/ \E t \in SmsTasks :
          \/ ChoosePlatform(t) \/ NoKeyLeft(t) \/ QueryAnswered(t) \/ QueryCounted(t)
          \/ \E k \in SmsKeys : ReserveKey(t, k)
          \/ \E o \in Orders : NumberSold(t, o)
          \/ ActivationUnusable(t) \/ DropUnusable(t)
          \/ \E kind \in KeyErrors : RequestFails(t, kind) \/ PollFails(t, kind)
                                     \/ CompleteFails(t, kind) \/ CancelFails(t, kind)
          \/ CompleteOrder(t) \/ CancelConfirmed(t) \/ CancelUnconfirmed(t) \/ NoteCancel(t)
    \/ StartSweep \/ EndSweep \/ SmsCrash
    \/ \E o \in Orders, confirmed \in BOOLEAN : TryRow(o, confirmed)

SmsSpec == SmsInit /\ [][SmsNext]_smsVars

-----------------------------------------------------------------------------
HeldBy(k) == {t \in SmsTasks : orderAt[t] \in Holding /\ orderKey[t] = k}

SmsTypeOK ==
    /\ keyHealth \in [SmsKeys -> KeyStates] /\ keyHeld \in [SmsKeys -> Nat]
    /\ matching \in [SmsKeys -> SUBSET (SmsTasks \cup Probes)]
    /\ overtaken \in [SmsKeys -> SUBSET (SmsTasks \cup Probes)]
    /\ probing \in Probes \cup {NoProbe} /\ probeLeft \in [Probes -> SUBSET SmsKeys]
    /\ skipped \in BOOLEAN
    /\ orderAt \in [SmsTasks -> OrderPhases]
    /\ orderKey \in [SmsTasks -> SmsKeys \cup {NoKey, OldKey}]
    /\ orderNo \in [SmsTasks -> Orders \cup {NoOrder}]
    /\ tried \in [SmsTasks -> SUBSET SmsKeys] /\ attempts \in [SmsTasks -> 0..NumberBudget]
    /\ sold \in [Orders -> SaleStates]
    /\ costLedger \in [Orders -> BookStates]
    /\ cancelQueue \subseteq Orders /\ confirmedRows \subseteq Orders
    /\ sweep \subseteq Orders /\ swept \subseteq Orders /\ smsCrashes \in 0..MaxSmsCrashes

\* in_flight is what the selection balances by: it counts exactly the tasks that are
\* asking with a state of the pool or hold a number of it, on every error path and
\* through every change of the list of keys.
HeldExact == \A k \in SmsKeys : keyHeld[k] = Cardinality(HeldBy(k))

\* A refund is only ever recorded for a number the platform took back, in the
\* ledger and in the file, through lost answers, repeated sweeps and crashes.
RefundIsReal ==
    /\ \A o \in Orders : costLedger[o] = "cancelled" => sold[o] = "cancelled"
    /\ \A o \in confirmedRows \cup swept : sold[o] = "cancelled"

\* Somebody can still be asked about a number: a task has it, it waits in the cleanup
\* queue, or the books show that giving it up failed.
InHand(o) ==
    \/ \E t \in SmsTasks : orderNo[t] = o
    \/ o \in cancelQueue \/ costLedger[o] \in {"cancel_failed", "complete_error"}

\* A number that is paid for is in somebody's hands, or the buyer was told that its
\* purchase failed.
SoldIntoHand(o) ==
    sold[o] = "unsold" /\ sold'[o] # "unsold" =>
       /\ sold'[o] = "active"
       /\ \/ InHand(o)'
          \/ \E t \in SmsTasks : orderAt[t] = "asking" /\ orderAt'[t] \in {"chosen", "idle"}

\* The only two ways in which a number goes out of hand while it is paid for: the
\* process dies before the number is queued, and the cancellation of an activation
\* that cannot be used fails.
GoesAstray(o) ==
    \/ smsCrashes' # smsCrashes /\ o \notin cancelQueue
    \/ \E t \in SmsTasks : orderNo[t] = o /\ orderAt[t] = "unusable"
StaysInHand(o) ==
    sold[o] = "active" /\ sold'[o] = "active" /\ InHand(o) /\ ~GoesAstray(o) => InHand(o)'

\* Money: the keys in use are counted, no refund is invented, and a number is never
\* forgotten but in the two ways GoesAstray names.
MoneyIsAccounted ==
    /\ [](HeldExact /\ RefundIsReal)
    /\ [][\A o \in Orders : SoldIntoHand(o) /\ StaysInHand(o)]_smsVars

\* The success of t is looked at in this step.
SuccessOf(t) ==
    \/ orderAt[t] = "asking" /\ orderAt'[t] \in {"leased", "unusable"}
    \/ orderAt[t] = "priced" /\ orderAt'[t] = "idle" /\ smsCrashes' = smsCrashes

\* An answer of a call is dropped when a newer answer of the same key is known, or the
\* key's state was replaced: an older success never clears a newer error.  A runtime
\* error that is not about the key does (RuntimeStatus): it is an answer of its own,
\* recorded when it comes, and no clause speaks of it.
StaleSuccessDropped(t, k) ==
    /\ SuccessOf(t)
    /\ orderKey[t] = OldKey \/ (orderKey[t] = k /\ t \in overtaken[k])
    => keyHealth'[k] = keyHealth[k]

\* A preflight writes nothing over what a later preflight, a reconfiguration or
\* a runtime report has settled meanwhile.
StaleProbeDropped(p, k) ==
    /\ k \in probeLeft[p] \ probeLeft'[p] /\ (probing # p \/ p \in overtaken[k])
    /\ smsCrashes' = smsCrashes
    => keyHealth'[k] = keyHealth[k]

\* What a key is believed to be is what was learned of it last, in whatever order
\* the answers of calls and preflights come in.
AnswersInOrder ==
    [][\A k \in SmsKeys : /\ \A t \in SmsTasks : StaleSuccessDropped(t, k)
                          /\ \A p \in Probes : StaleProbeDropped(p, k)]_smsVars
=============================================================================
