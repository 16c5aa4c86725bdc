---------------------------- MODULE AdaptiveGate ----------------------------
(***************************************************************************)
(* The adaptive admission gate of an SMS workbench batch                   *)
(* (adaptive_concurrency.py) and the node phase gate it drives             *)
(* (phase_concurrency.py), wired as web_gui_importer_patches.py wires them. *)
(*                                                                         *)
(* Time is abstracted to the comparisons the code makes: a pause that is   *)
(* over or not, a burst that is held or due, pressure that is recent or    *)
(* not.  Every such fact may change at any moment, so each pairing of      *)
(* clocks the code can see is a pairing the model can see.                 *)
(*                                                                         *)
(* A capacity change is announced outside the gate's lock.  `news` holds   *)
(* the announcements in the order the gate made them; each reporter        *)
(* delivers its own, and two reporters may deliver in either order.        *)
(***************************************************************************)
EXTENDS Common

CONSTANTS
    GateTasks,          \* the tasks of the batch
    PressureNodes,      \* the steps of a task that report pressure
    Monitor,            \* the watchdog thread, which reads the FD ratio
    Minimum, BaseLimit, RestoreCeiling, Ceiling, ImmediateResetLimit,
    RestoreSuccesses, PressureThreshold, BannedThreshold, BurstStep,
    NewsBound           \* announcements under way before another handler starts

ASSUME GateLimitsAssumption ==
    /\ Minimum \in Nat \ {0} /\ BaseLimit \in Nat /\ RestoreCeiling \in Nat
    /\ Ceiling \in Nat /\ ImmediateResetLimit \in Nat
    /\ Minimum <= BaseLimit /\ BaseLimit <= RestoreCeiling
    /\ RestoreCeiling <= Ceiling
    /\ Minimum <= ImmediateResetLimit /\ ImmediateResetLimit <= Ceiling

ASSUME GateThresholdsAssumption ==
    /\ RestoreSuccesses \in Nat \ {0} /\ PressureThreshold \in Nat \ {0}
    /\ BannedThreshold \in Nat \ {0} /\ BurstStep \in Nat \ {0}
    /\ NewsBound \in Nat \ {0} /\ Monitor \notin GateTasks /\ IsFiniteSet(GateTasks)

VARIABLES
    gateStage,      \* where each task is on its way through the gate
    pendingTasks,   \* registered tasks that have not been admitted yet
    activeTasks, waitingTasks,  \* the gate's other two counters
    taskLimit,      \* the capacity now
    peakLimit,      \* the highest capacity ever granted
    burstHold,      \* "none", "held" or "due": the burst hold (burst_until)
    gatePaused,     \* pause_until lies in the future
    successStreak, bannedEvents, pressureEvents,    \* reports that count now
    gateHealth,     \* "pressed": pressure within the window; "calm": none, but not
                    \* for a full healthy window; "sound": a full healthy window
    seenPressure,   \* the severest pressure accepted from each task at each node
    finishedTasks,  \* tasks whose terminal report was counted
    incidentLevel,  \* resource_incident_level
    quietTime,      \* "none", "counting" or "elapsed": resource_recovery_since
    news,           \* announcements <<reporter, limit>> not delivered yet
    newsOvertaken,  \* some announcement was delivered before an older one
    nodeLimit,      \* the node phase gate's capacity
    batchStop       \* importer.stop_event

doorVars     == <<gateStage, pendingTasks, activeTasks, waitingTasks>>
capacityVars == <<taskLimit, peakLimit, burstHold, gatePaused>>
eventVars    == <<successStreak, bannedEvents, pressureEvents, gateHealth>>
bookVars     == <<seenPressure, finishedTasks>>
incidentVars == <<incidentLevel, quietTime>>
newsVars     == <<news, newsOvertaken, nodeLimit>>
adaptVars    == <<doorVars, capacityVars, eventVars, bookVars, incidentVars, newsVars,
                  batchStop>>

GateStages == {"queued", "waiting", "inside", "left"}
Reporters == GateTasks \cup {Monitor}
TasksAt(s) == {t \in GateTasks : gateStage[t] = s}

\* The FD incident's cap: max(minimum, min(base_limit, 4)).
EmergencyLimit == Greater(Minimum, Lesser(BaseLimit, 4))

AdaptInit ==
    /\ gateStage = [t \in GateTasks |-> "queued"]
    /\ pendingTasks = Cardinality(GateTasks)
    /\ activeTasks = 0 /\ waitingTasks = 0
    /\ taskLimit = BaseLimit /\ peakLimit = BaseLimit
    /\ burstHold = "none" /\ gatePaused = FALSE
    /\ successStreak = 0 /\ bannedEvents = 0 /\ pressureEvents = 0
    /\ gateHealth = "calm"
    /\ seenPressure = [t \in GateTasks |-> [n \in PressureNodes |-> 0]] /\ finishedTasks = {}
    /\ incidentLevel = 0 /\ quietTime = "none"
    /\ news = <<>> /\ newsOvertaken = FALSE
    /\ nodeLimit = BaseLimit
    /\ batchStop = FALSE

-----------------------------------------------------------------------------
(* Pieces every handler runs under the gate's lock.                        *)

\* mutant: a hold that is over leaves the capacity where it is.
LimitKept   == taskLimit

\* _expire_burst_locked, the first thing most handlers do: a hold that is
\* over takes the capacity back to the restore ceiling and forgets the bans.
BurstOver   == burstHold = "due"
LimitNow    == IF BurstOver THEN Lesser(taskLimit, RestoreCeiling) ELSE taskLimit
BurstNow    == IF BurstOver THEN "none" ELSE burstHold
BannedNow   == IF BurstOver THEN 0 ELSE bannedEvents

\* A reporter announces each change of capacity its handler made, in order.
NewsDelivered(r) == /\ Len(news) < NewsBound
                    /\ \A i \in 1..Len(news) : news[i][1] # r
Announcement(r, old, new) == IF new # old THEN <<<<r, new>>>> ELSE <<>>
ExpiryNews(r) == Announcement(r, taskLimit, LimitNow)
Announce(fresh) == news' = news \o fresh

HasRoom == activeTasks < LimitNow /\ ~gatePaused
Backlog == pendingTasks > 0 \/ waitingTasks > 0

-----------------------------------------------------------------------------
(* Admission.                                                              *)

\* acquire: the task joins the waiters before it looks at the gate.
ArriveAtGate(t) ==
    /\ gateStage[t] = "queued"
    /\ gateStage' = [gateStage EXCEPT ![t] = "waiting"]
    /\ waitingTasks' = waitingTasks + 1
    /\ UNCHANGED <<pendingTasks, activeTasks, capacityVars, eventVars, bookVars,
                   incidentVars, newsVars, batchStop>>

\* One round of acquire's loop, which first expires an overdue burst; the
\* task is admitted below the capacity when no pause runs, gives up when the
\* batch is stopping, and otherwise waits for the next round.
PollGate(t) ==
    /\ gateStage[t] = "waiting" /\ NewsDelivered(t)
    /\ taskLimit' = LimitNow /\ burstHold' = BurstNow /\ bannedEvents' = BannedNow
    /\ Announce(ExpiryNews(t))
    /\ \/ /\ batchStop
          /\ gateStage' = [gateStage EXCEPT ![t] = "left"]
          /\ waitingTasks' = OneLess(waitingTasks)
          /\ pendingTasks' = OneLess(pendingTasks)
          /\ UNCHANGED activeTasks
       \/ /\ ~batchStop /\ HasRoom
          /\ gateStage' = [gateStage EXCEPT ![t] = "inside"]
          /\ activeTasks' = activeTasks + 1
          /\ waitingTasks' = OneLess(waitingTasks)
          /\ pendingTasks' = OneLess(pendingTasks)
       \/ /\ ~batchStop /\ ~HasRoom /\ BurstOver
          /\ UNCHANGED doorVars
    /\ UNCHANGED <<peakLimit, gatePaused, successStreak, pressureEvents,
                   gateHealth, bookVars, incidentVars, newsOvertaken, nodeLimit,
                   batchStop>>

\* mutant: the registration of a cancelled task stays.
DiscardKeeps(t) ==
    /\ batchStop /\ gateStage[t] = "queued"
    /\ gateStage' = [gateStage EXCEPT ![t] = "left"]
    /\ UNCHANGED <<pendingTasks, activeTasks, waitingTasks, capacityVars, eventVars,
                   bookVars, incidentVars, newsVars, batchStop>>

\* The scheduler gives up a task that no worker picked up: stop cancels its
\* future and discards its registration.
DiscardPending(t) ==
    /\ batchStop /\ gateStage[t] = "queued"
    /\ gateStage' = [gateStage EXCEPT ![t] = "left"]
    /\ pendingTasks' = OneLess(pendingTasks)
    /\ UNCHANGED <<activeTasks, waitingTasks, capacityVars, eventVars, bookVars,
                   incidentVars, newsVars, batchStop>>

\* Leaving acquire's block, whatever the task's outcome.
LeaveGate(t) ==
    /\ gateStage[t] = "inside" /\ NewsDelivered(t)
    /\ gateStage' = [gateStage EXCEPT ![t] = "left"]
    /\ activeTasks' = OneLess(activeTasks)
    /\ UNCHANGED <<pendingTasks, waitingTasks, capacityVars, eventVars, bookVars,
                   incidentVars, newsVars, batchStop>>

-----------------------------------------------------------------------------
(* Health reports.  A terminal report counts once per task: finished_tasks. *)

CanReport(t) == t \in TasksAt("inside") /\ NewsDelivered(t)
CountTerminal(t) == finishedTasks' = finishedTasks \cup {t}

\* report_success of a task seen before: only the expiry happens.
ReportRepeated(t) ==
    /\ CanReport(t) /\ t \in finishedTasks /\ BurstOver
    /\ taskLimit' = LimitNow /\ burstHold' = BurstNow /\ bannedEvents' = BannedNow
    /\ Announce(ExpiryNews(t))
    /\ UNCHANGED <<doorVars, peakLimit, gatePaused, successStreak, pressureEvents,
                   gateHealth, bookVars, incidentVars, newsOvertaken, nodeLimit,
                   batchStop>>

\* A success raises the capacity by one towards the restore ceiling after a
\* streak without pressure, a healthy window, and with work still waiting.
ReportSuccess(t) ==
    LET next    == Lesser(successStreak + 1, RestoreSuccesses)
        restore == /\ gateHealth = "sound" /\ Backlog
                   /\ LimitNow < RestoreCeiling /\ next = RestoreSuccesses
    IN  /\ CanReport(t) /\ t \notin finishedTasks /\ CountTerminal(t)
        /\ successStreak' = IF gateHealth = "pressed" \/ restore THEN 0 ELSE next
        /\ taskLimit' = LimitNow + AsCount(restore)
        /\ peakLimit' = IF restore THEN Greater(peakLimit, taskLimit') ELSE peakLimit
        /\ gateHealth' = IF restore THEN "calm" ELSE gateHealth
        /\ burstHold' = BurstNow /\ bannedEvents' = BannedNow
        /\ Announce(ExpiryNews(t) \o Announcement(t, LimitNow, taskLimit'))
        /\ UNCHANGED <<doorVars, gatePaused, pressureEvents, seenPressure,
                       incidentVars, newsOvertaken, nodeLimit, batchStop>>

ReportFailure(t) ==
    /\ CanReport(t) /\ t \notin finishedTasks /\ CountTerminal(t)
    /\ successStreak' = 0
    /\ taskLimit' = LimitNow /\ burstHold' = BurstNow /\ bannedEvents' = BannedNow
    /\ Announce(ExpiryNews(t))
    /\ UNCHANGED <<doorVars, peakLimit, gatePaused, pressureEvents, gateHealth,
                   seenPressure, incidentVars, newsOvertaken, nodeLimit,
                   batchStop>>

\* A banned account frees its slot quickly, so enough bans in a window lift
\* the capacity above the restore ceiling for a while.
ReportBanned(t) ==
    LET canBurst == /\ Ceiling > RestoreCeiling /\ Backlog /\ gateHealth # "pressed"
                    /\ LimitNow >= RestoreCeiling
        atTop    == canBurst /\ LimitNow >= Ceiling
        counts   == canBurst /\ ~atTop
        promotes == counts /\ BannedNow + 1 >= BannedThreshold
        raised   == IF promotes THEN Lesser(Ceiling, LimitNow + BurstStep) ELSE LimitNow
        holds    == \/ atTop
                    \/ counts /\ (LimitNow > RestoreCeiling \/ promotes)
                    \/ /\ ~canBurst /\ gateHealth # "pressed"
                       /\ BurstNow = "held" /\ LimitNow > RestoreCeiling
    IN  /\ CanReport(t) /\ t \notin finishedTasks /\ CountTerminal(t)
        /\ successStreak' = 0
        /\ taskLimit' = raised /\ peakLimit' = Greater(peakLimit, raised)
        /\ burstHold' = IF holds THEN "held" ELSE BurstNow
        /\ bannedEvents' = IF atTop \/ promotes THEN 0
                     ELSE BannedNow + AsCount(counts)
        /\ Announce(ExpiryNews(t) \o Announcement(t, LimitNow, raised))
        /\ UNCHANGED <<doorVars, gatePaused, pressureEvents, gateHealth,
                       seenPressure, incidentVars, newsOvertaken, nodeLimit,
                       batchStop>>

\* _revoke_burst_locked's verdict: pressure takes a burst away first.
BurstActive == BurstNow # "none" \/ LimitNow > RestoreCeiling

\* The cut that enough pressure makes: a running burst is revoked and the
\* capacity is otherwise left alone; with no burst it falls by one, or to the
\* reset limit when the pressure is immediate.
CutLimit(immediate) ==
    IF BurstActive THEN Lesser(LimitNow, RestoreCeiling)
    ELSE IF immediate THEN Lesser(LimitNow, ImmediateResetLimit)
    ELSE Greater(Minimum, LimitNow - 1)

\* report_pressure: only a report severer than the task's last one at that
\* node is an event of its own; any other one merely refreshes the pressure window.
ReportPressure(t, n, immediate) ==
    LET severity == IF immediate THEN 2 ELSE 1
        accepted == seenPressure[t][n] < severity
        events   == pressureEvents + AsCount(accepted /\ ~immediate)
        cuts     == accepted /\ (immediate \/ events >= PressureThreshold)
    IN  /\ CanReport(t)
        /\ gateHealth' = "pressed" /\ successStreak' = 0
        /\ seenPressure' = [seenPressure EXCEPT ![t][n] = Greater(@, severity)]
        /\ pressureEvents' = IF cuts THEN 0 ELSE events
        /\ bannedEvents' = 0
        /\ taskLimit' = IF cuts THEN CutLimit(immediate) ELSE LimitNow
        /\ burstHold' = IF cuts THEN "none" ELSE BurstNow
        /\ gatePaused' = (gatePaused \/ cuts)
        /\ Announce(ExpiryNews(t) \o IF cuts THEN <<<<t, taskLimit'>>>> ELSE <<>>)
        /\ UNCHANGED <<doorVars, peakLimit, finishedTasks, incidentVars,
                       newsOvertaken, nodeLimit, batchStop>>

-----------------------------------------------------------------------------
(* File descriptor pressure, read by finishing tasks and by the watchdog.  *)

CanObserve(r) == (r = Monitor \/ r \in TasksAt("inside")) /\ NewsDelivered(r)

\* What every sign of resource pressure does besides cutting the capacity.
Unwell == gateHealth' = "pressed" /\ successStreak' = 0

\* report_resource_exhaustion, and observe_resource_ratio at 0.80 and above.
ResourceExhausted(r) ==
    /\ CanObserve(r) /\ Unwell
    /\ incidentLevel' = 2 /\ quietTime' = "none" /\ gatePaused' = TRUE
    /\ taskLimit' = Lesser(taskLimit, EmergencyLimit)
    /\ Announce(IF incidentLevel < 2 \/ taskLimit' < taskLimit
                THEN <<<<r, taskLimit'>>>> ELSE <<>>)
    /\ UNCHANGED <<doorVars, peakLimit, burstHold, bannedEvents, pressureEvents,
                   bookVars, newsOvertaken, nodeLimit, batchStop>>

\* observe_resource_ratio at 0.70 and above.
ResourceGuarded(r) ==
    /\ CanObserve(r) /\ Unwell
    /\ incidentLevel' = Greater(incidentLevel, 1) /\ quietTime' = "none"
    /\ taskLimit' = Lesser(taskLimit, BaseLimit)
    /\ Announce(Announcement(r, taskLimit, taskLimit'))
    /\ UNCHANGED <<doorVars, peakLimit, burstHold, gatePaused, bannedEvents,
                   pressureEvents, bookVars, newsOvertaken, nodeLimit, batchStop>>

\* A ratio from 0.60 up to 0.70 only restarts the quiet time; one below 0.60
\* starts it, and once it has lasted a window the incident is over.
ResourceRecovers(r) ==
    /\ CanObserve(r)
    /\ \/ /\ quietTime # "none" /\ quietTime' = "none"
          /\ UNCHANGED <<gateHealth, successStreak, incidentLevel, gatePaused,
                         taskLimit, news>>
       \/ /\ incidentLevel > 0 /\ quietTime = "none" /\ quietTime' = "counting"
          /\ UNCHANGED <<gateHealth, successStreak, incidentLevel, gatePaused,
                         taskLimit, news>>
       \/ /\ incidentLevel > 0 /\ quietTime = "elapsed" /\ quietTime' = "none"
          /\ Unwell /\ incidentLevel' = 0 /\ gatePaused' = FALSE
          /\ taskLimit' = Greater(taskLimit, BaseLimit)
          /\ Announce(Announcement(r, taskLimit, taskLimit'))
    /\ UNCHANGED <<doorVars, peakLimit, burstHold, bannedEvents, pressureEvents,
                   bookVars, newsOvertaken, nodeLimit, batchStop>>

-----------------------------------------------------------------------------
(* Announcements, the operator's stop and the passing of time.             *)

\* log_task_limit_change: a reporter delivers its oldest announcement, which
\* sets the node gate to the announced capacity, whatever it is by now.
DeliverNews(i) ==
    /\ \A j \in 1..(i - 1) : news[j][1] # news[i][1]
    /\ nodeLimit' = Greater(1, Lesser(RestoreCeiling, news[i][2]))
    /\ newsOvertaken' = (newsOvertaken \/ i > 1)
    /\ news' = SubSeq(news, 1, i - 1) \o SubSeq(news, i + 1, Len(news))
    /\ UNCHANGED <<doorVars, capacityVars, eventVars, bookVars, incidentVars,
                   batchStop>>

StopBatch ==
    /\ ~batchStop /\ batchStop' = TRUE
    /\ UNCHANGED <<doorVars, capacityVars, eventVars, bookVars, incidentVars,
                   newsVars>>

PauseOver ==
    /\ gatePaused /\ gatePaused' = FALSE
    /\ UNCHANGED <<doorVars, taskLimit, peakLimit, burstHold, eventVars, bookVars,
                   incidentVars, newsVars, batchStop>>

BurstFallsDue ==
    /\ burstHold = "held" /\ burstHold' = "due"
    /\ UNCHANGED <<doorVars, taskLimit, peakLimit, gatePaused, eventVars,
                   bookVars, incidentVars, newsVars, batchStop>>

\* Windows slide: the oldest ban or pressure event drops out, pressure is no
\* longer recent (and then none of its events counts), a healthy window passes.
WindowsSlide ==
    /\ \/ /\ bannedEvents > 0 /\ bannedEvents' = bannedEvents - 1
          /\ UNCHANGED <<pressureEvents, gateHealth>>
       \/ /\ pressureEvents > 0 /\ pressureEvents' = pressureEvents - 1
          /\ UNCHANGED <<bannedEvents, gateHealth>>
       \/ /\ gateHealth = "pressed" /\ gateHealth' = "calm" /\ pressureEvents' = 0
          /\ UNCHANGED bannedEvents
       \/ /\ gateHealth = "calm" /\ gateHealth' = "sound"
          /\ UNCHANGED <<bannedEvents, pressureEvents>>
    /\ UNCHANGED <<doorVars, capacityVars, successStreak, bookVars, incidentVars,
                   newsVars, batchStop>>

QuietElapses ==
    /\ quietTime = "counting" /\ quietTime' = "elapsed"
    /\ UNCHANGED <<doorVars, capacityVars, eventVars, bookVars, incidentLevel,
                   newsVars, batchStop>>

GateTaskStep(t) ==
    \/ ArriveAtGate(t) \/ PollGate(t) \/ DiscardPending(t) \/ LeaveGate(t)
    \/ ReportRepeated(t) \/ ReportSuccess(t) \/ ReportFailure(t) \/ ReportBanned(t)
    \/ \E n \in PressureNodes, immediate \in BOOLEAN : ReportPressure(t, n, immediate)

AdaptNext ==
    \/ \E t \in GateTasks : GateTaskStep(t)
    \/ \E r \in Reporters :
          ResourceExhausted(r) \/ ResourceGuarded(r) \/ ResourceRecovers(r)
    \/ \E i \in 1..Len(news) : DeliverNews(i)
    \/ StopBatch \/ PauseOver \/ BurstFallsDue \/ WindowsSlide \/ QuietElapses

AdaptSpec == AdaptInit /\ [][AdaptNext]_adaptVars

-----------------------------------------------------------------------------
AdaptTypeOK ==
    /\ gateStage \in [GateTasks -> GateStages]
    /\ pendingTasks \in Nat /\ activeTasks \in Nat /\ waitingTasks \in Nat
    /\ taskLimit \in Minimum..Ceiling /\ peakLimit \in Minimum..Ceiling
    /\ burstHold \in {"none", "held", "due"} /\ gatePaused \in BOOLEAN
    /\ successStreak \in 0..RestoreSuccesses
    /\ bannedEvents \in 0..(BannedThreshold - 1)
    /\ pressureEvents \in 0..(PressureThreshold - 1)
    /\ gateHealth \in {"pressed", "calm", "sound"}
    /\ seenPressure \in [GateTasks -> [PressureNodes -> 0..2]] /\ finishedTasks \subseteq GateTasks
    /\ incidentLevel \in 0..2 /\ quietTime \in {"none", "counting", "elapsed"}
    /\ \A i \in 1..Len(news) : news[i] \in Reporters \X (Minimum..Ceiling)
    /\ newsOvertaken \in BOOLEAN /\ nodeLimit \in 1..Ceiling /\ batchStop \in BOOLEAN

\* Capacity above the restore ceiling exists only under a burst hold, however
\* bursts, bans, pressure cuts and FD incidents follow each other: without the
\* hold nothing would ever take the extra capacity back (_expire_burst_locked).
BurstIsTemporary == taskLimit > RestoreCeiling => burstHold # "none"

\* The counters are exactly the tasks they stand for, through admissions, stops
\* and discards; max(0, ...) in the code would hide a task counted twice.
DoorCounts ==
    /\ activeTasks = Cardinality(TasksAt("inside"))
    /\ waitingTasks = Cardinality(TasksAt("waiting"))
    /\ pendingTasks = Cardinality(TasksAt("queued")) + waitingTasks

\* However the capacity moves under the tasks already inside, there are never
\* more of them than the highest capacity that was ever granted.
NeverOverfull == Cardinality(TasksAt("inside")) <= peakLimit

\* With every announcement delivered, and none ahead of an older one, the node
\* gate has the task gate's capacity (capped at its own ceiling): every change
\* of capacity is announced by the handler that made it.
NodeFollowsGate ==
    news = <<>> /\ ~newsOvertaken => nodeLimit = Lesser(RestoreCeiling, taskLimit)

\* Who is counted is who is there, and no more than were ever allowed.
AdmissionIsExact == DoorCounts /\ NeverOverfull

\* Extra capacity is only lent, and both gates know what is.
CapacityIsLent == BurstIsTemporary /\ NodeFollowsGate

=============================================================================
