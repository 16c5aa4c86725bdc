----------------------------- MODULE RunNotices -----------------------------
(***************************************************************************)
(* Mails about one SMS run: the coordinator that decides which event is    *)
(* worth a mail (run_notifications.py) and the bounded queue with its one  *)
(* worker that sends it (notification_queue.py).                           *)
(*                                                                         *)
(* A notice is the set of topics one mail is about: a run event, or the    *)
(* provider keys whose balance is low.  The queue's close sentinel is the  *)
(* empty notice.  The coordinator reserves a notice under its lock and     *)
(* submits it after; the operator, the watcher and the watchdog call it in *)
(* any order, each with an aggregate it read before, whatever it says.     *)
(***************************************************************************)
EXTENDS Common

CONSTANTS
    BalanceKeys,        \* (provider, fingerprint) pairs
    OutboxCapacity,     \* the queue's maxsize
    StallAfter,         \* stalled_minutes
    LastInstant         \* bound: the clock

ASSUME NoticeAssumption ==
    OutboxCapacity \in Nat \ {0} /\ StallAfter \in Nat \ {0} /\ LastInstant \in Nat

VARIABLES
    runFinal,       \* state.finalized
    manualMark,     \* state.manual_stop
    triggered,      \* state.triggered_events and balance_alerted_keys
    instant,        \* the clock
    progressAt,     \* state.last_progress_at
    frozenAt,       \* state.stall_suspended_at, or Never
    inHand,         \* notices reserved and not submitted yet
    outbox,         \* the queue
    outboxClosing,  \* _closing
    outstanding,    \* _outstanding
    mailer,         \* the worker thread: "none", "alive" or "gone"
    sending,        \* the notice between the queue's get and the counters
    mailed,         \* topics a mail was sent or tried for
    quietTicks      \* bookkeeping: unsuspended time since the last progress

noticeRunVars == <<runFinal, manualMark, triggered>>
stallVars     == <<instant, progressAt, frozenAt, quietTicks>>
outboxVars    == <<outbox, outboxClosing, outstanding, mailer, sending, mailed>>
noticeVars    == <<noticeRunVars, stallVars, inHand, outboxVars>>

Never    == -1
Sentinel == {}
EndEvents == {"batch_completed", "manual_stop", "unexpected_stop"}
Topics == EndEvents \cup {"stalled", "sms_exhausted"} \cup BalanceKeys

NoticeInit ==
    /\ runFinal = FALSE /\ manualMark = FALSE /\ triggered = {}
    /\ instant = 0 /\ progressAt = 0 /\ frozenAt = Never /\ quietTicks = 0
    /\ inHand = {}
    /\ outbox = <<>> /\ outboxClosing = FALSE /\ outstanding = 0 /\ mailer = "none"
    /\ sending = Sentinel /\ mailed = {}

-----------------------------------------------------------------------------
(* The coordinator.                                                        *)

\* mutant: what was triggered before is not looked up.
FreshAlways(topics) == topics
Fresh(topics) == topics \ triggered

\* _reserve_locked, for events that make a mail each and for keys that share one.
ReserveTopic(events, keys) ==
    /\ triggered' = triggered \cup events \cup keys
    /\ inHand' = inHand \cup {{e} : e \in Fresh(events)} \cup ({Fresh(keys)} \ {Sentinel})

Stalled(unfinished, progressed) ==
    /\ unfinished /\ frozenAt = Never /\ ~progressed
    /\ instant - progressAt >= StallAfter

\* observe_run, check_stall and observe_sms_exhausted.
ObserveRun(unfinished, progressed, exhausted) ==
    /\ ~runFinal
    /\ progressAt' = IF progressed THEN instant ELSE progressAt
    /\ quietTicks' = IF progressed THEN 0 ELSE quietTicks
    /\ ReserveTopic((IF exhausted THEN {"sms_exhausted"} ELSE {})
               \cup (IF Stalled(unfinished, progressed) THEN {"stalled"} ELSE {}), {})
    /\ UNCHANGED <<runFinal, manualMark, instant, frozenAt, outboxVars>>

\* observe_sms_balances: one mail for all keys that are new.
ObserveBalances(keys) ==
    /\ ~runFinal /\ keys # {}
    /\ ReserveTopic({}, keys)
    /\ UNCHANGED <<runFinal, manualMark, stallVars, outboxVars>>

MarkManualStop ==
    /\ ~runFinal /\ manualMark' = TRUE
    /\ UNCHANGED <<runFinal, triggered, stallVars, inHand, outboxVars>>

EndEvent(completed, unfinished) ==
    IF manualMark THEN "manual_stop"
    ELSE IF completed /\ ~unfinished THEN "batch_completed" ELSE "unexpected_stop"

\* A watcher that returns while tasks are alive alerts, but ends nothing.
FinalizeRun(completed, unfinished) ==
    /\ ~runFinal /\ runFinal' = ~unfinished
    /\ ReserveTopic({EndEvent(completed, unfinished)}, {})
    /\ UNCHANGED <<manualMark, stallVars, outboxVars>>

\* set_stall_suspended: the time of a connectivity outage does not count.
FreezeStall ==
    /\ ~runFinal /\ frozenAt = Never /\ frozenAt' = instant
    /\ UNCHANGED <<noticeRunVars, instant, progressAt, quietTicks, inHand,
                   outboxVars>>

\* mutant: progress made during the outage is not considered.
FrozenSinceOutage == frozenAt
FrozenSince == Greater(frozenAt, progressAt)

ThawStall ==
    /\ ~runFinal /\ frozenAt # Never /\ frozenAt' = Never
    /\ progressAt' = progressAt + (instant - FrozenSince)
    /\ UNCHANGED <<noticeRunVars, instant, quietTicks, inHand, outboxVars>>

ClockTicks ==
    /\ instant < LastInstant /\ instant' = instant + 1
    /\ quietTicks' = quietTicks + AsCount(frozenAt = Never)
    /\ UNCHANGED <<noticeRunVars, progressAt, frozenAt, inHand, outboxVars>>

-----------------------------------------------------------------------------
(* The queue and its worker.                                               *)

Accepting == ~outboxClosing /\ Len(outbox) < OutboxCapacity

\* submit: refused when closing or full; the first item starts the worker.
SubmitNotice(n) ==
    /\ n \in inHand /\ inHand' = inHand \ {n}
    /\ \/ /\ outboxClosing \/ Len(outbox) >= OutboxCapacity
          /\ UNCHANGED <<outbox, outstanding, mailer>>
       \/ /\ Accepting
          /\ outbox' = Append(outbox, n) /\ outstanding' = outstanding + 1
          /\ mailer' = IF mailer = "none" THEN "alive" ELSE mailer
    /\ UNCHANGED <<noticeRunVars, stallVars, outboxClosing, sending, mailed>>

\* A sentinel ends the worker when nothing is left to send.
MayLeave == outboxClosing /\ outstanding = 0

\* One round of _worker.
TakeNotice ==
    /\ mailer = "alive" /\ sending = Sentinel
    /\ \/ /\ outbox # <<>> /\ Head(outbox) # Sentinel
          /\ sending' = Head(outbox) /\ outbox' = Tail(outbox)
          /\ UNCHANGED mailer
       \/ /\ outbox # <<>> /\ Head(outbox) = Sentinel
          /\ outbox' = Tail(outbox) /\ mailer' = IF MayLeave THEN "gone" ELSE mailer
          /\ UNCHANGED sending
    /\ UNCHANGED <<noticeRunVars, stallVars, inHand, outboxClosing, outstanding,
                   mailed>>

\* mutant: the counter is left for a retry that never comes.
OneSentKept == outstanding
OneSent == outstanding - 1

\* The delivery, which may have failed: there is one attempt.
SendNotice ==
    /\ sending # Sentinel /\ sending' = Sentinel
    /\ mailed' = mailed \cup sending /\ outstanding' = OneSent
    /\ UNCHANGED <<noticeRunVars, stallVars, inHand, outbox, outboxClosing,
                   mailer>>

\* close, by the next run's begin or by cancel: a sentinel if there is room.  The code
\* sets _closing first and puts the sentinel a moment later; nothing is accepted in
\* between, and what the worker takes meanwhile only makes room.
CloseOutbox ==
    /\ ~outboxClosing /\ outboxClosing' = TRUE
    /\ outbox' = IF mailer # "none" /\ Len(outbox) < OutboxCapacity
                 THEN Append(outbox, Sentinel) ELSE outbox
    /\ UNCHANGED <<noticeRunVars, stallVars, inHand, outstanding, mailer, sending,
                   mailed>>

MailerStep == TakeNotice \/ SendNotice

NoticeNext ==
    \/ \E unfinished, progressed, exhausted \in BOOLEAN :
          ObserveRun(unfinished, progressed, exhausted)
    \/ \E keys \in SUBSET BalanceKeys : ObserveBalances(keys)
    \/ MarkManualStop
    \/ \E completed, unfinished \in BOOLEAN : FinalizeRun(completed, unfinished)
    \/ FreezeStall \/ ThawStall \/ ClockTicks
    \/ \E n \in inHand : SubmitNotice(n)
    \/ MailerStep \/ CloseOutbox

NoticeSpec == NoticeInit /\ [][NoticeNext]_noticeVars

-----------------------------------------------------------------------------
Queued == {i \in 1..Len(outbox) : outbox[i] # Sentinel}

NoticeTypeOK ==
    /\ runFinal \in BOOLEAN /\ manualMark \in BOOLEAN
    /\ triggered \subseteq Topics /\ mailed \subseteq Topics
    /\ instant \in 0..LastInstant /\ progressAt \in 0..LastInstant
    /\ frozenAt \in 0..LastInstant \cup {Never} /\ quietTicks \in 0..LastInstant
    /\ inHand \subseteq SUBSET Topics /\ sending \in SUBSET Topics
    /\ outbox \in Seq(SUBSET Topics) /\ Len(outbox) <= OutboxCapacity
    /\ outboxClosing \in BOOLEAN /\ outstanding \in Nat
    /\ mailer \in {"none", "alive", "gone"}

\* "At-most-once run events": a topic is in one mail at most, in whatever hands,
\* however often and by however many threads the event is observed.
TopicMailedOnce ==
    /\ \A n \in inHand : \A m \in (inHand \ {n}) \cup {sending, mailed} : n \cap m = {}
    /\ sending \cap mailed = {}
    /\ \A i \in Queued : /\ \A m \in inHand \cup {sending, mailed} : outbox[i] \cap m = {}
                         /\ \A j \in Queued \ {i} : outbox[i] \cap outbox[j] = {}

\* The stall clock is the time without progress and without an outage, however
\* progress, freezing and thawing interleave: no outage triggers a stall alarm,
\* and none delays a later one.
StallClockExact ==
    quietTicks = (IF frozenAt = Never THEN instant ELSE FrozenSince) - progressAt

\* _outstanding counts what wait_until_idle and the sentinel rely on.
OutstandingExact == outstanding = Cardinality(Queued) + AsCount(sending # Sentinel)

\* The worker leaves nothing accepted behind.
LeavesNothing == mailer = "gone" => Queued = {} /\ sending = Sentinel

\* No mail is doubled, miscounted or left behind.
NoticesAreExact == TopicMailedOnce /\ OutstandingExact /\ LeavesNothing

\* Once accepted, a notice is sent or has failed for good, also when the queue is
\* closed meanwhile.
OutboxDrains == outstanding > 0 ~> outstanding = 0
=============================================================================
