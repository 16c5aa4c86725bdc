-------------------------- MODULE ConnectivityGuard --------------------------
(***************************************************************************)
(* The outage guard (OpenAIAuthConnectivityRuntime) and what hangs on it:  *)
(* the protocol gate of the batch's proxy, the in-flight admission of the  *)
(* batch, the requests that feed it results through                        *)
(* TransportProtocolCoordinator, its probe worker and the guard switch.    *)
(*                                                                         *)
(* The guard's transitions and their callbacks run under its callback      *)
(* lock: `callback' is the one being invoked, and nothing that takes the   *)
(* lock runs until it is done.  What a request does with the decision it   *)
(* got back runs under no common lock: pausing the gate and suspending the *)
(* in-flight admission are steps of their own.                             *)
(*                                                                         *)
(* The generations (event id and revision) are only ever compared for      *)
(* equality with a captured value: `fresh' says whether a request's, or    *)
(* the probe round's, is still the current one.                            *)
(***************************************************************************)
EXTENDS ProtocolGate, FiniteSets

CONSTANTS
    Requests,           \* threads of the batch that send requests
    Origins,            \* OPENAI_CONNECTIVITY_ORIGINS
    Threshold,          \* failure_threshold
    RecoveryRounds,     \* recovery_probe_rounds
    LateDecisions,      \* a decision may still be unapplied when the guard moves on
    LateToggles         \* an outage may begin while the switch is being thrown

ASSUME GuardAssumption ==
    /\ IsFiniteSet(Requests)
    /\ Threshold \in Nat /\ Threshold >= 2
    /\ RecoveryRounds \in Nat \ {0}
    /\ LateDecisions \in BOOLEAN
    /\ LateToggles \in BOOLEAN

VARIABLES
    gate,       \* the gate of the batch's proxy
    inflight,   \* _CURRENT_INFLIGHT_GATE: none, expanded, suspended, rolledback
    guard,      \* enabled, paused, failures per origin, successful probe rounds
    callback,   \* invoked under the callback lock: none, outage, recovery
    probe,      \* the probe worker and its round; for RecoveryIsClean only, whether a
                \* request failed since the round began, and the rounds none did since the last
    request,    \* what each request thread is at
    switch,     \* write_local_config turning the guard on or off
    run         \* the batch: off, starting, synced, on, stopping

guardVars == <<gate, inflight, guard, callback, probe, request, switch, run>>

IdleRequest     == [at |-> "idle", fresh |-> TRUE, cancels |-> FALSE]
Inside   == {"held", "flying", "good", "qualified", "limited", "pressed", "notifying",
             "starting", "decided", "suspending", "leaving"}
Resting  == [at |-> "idle", was |-> FALSE, target |-> FALSE]

GuardTypeOK ==
    /\ gate \in Gate
    /\ inflight \in {"none", "expanded", "suspended", "rolledback"}
    /\ guard \in [enabled : BOOLEAN, paused : BOOLEAN, failures : [Origins -> 0 .. Threshold],
                  rounds : 0 .. RecoveryRounds]
    /\ callback \in {"none", "outage", "recovery"}
    /\ probe \in [worker : {"none", "loop", "asking", "leaving"}, fresh : BOOLEAN,
                  disturbed : BOOLEAN, clean : 0 .. RecoveryRounds]
    /\ request \in [Requests -> [at : {"idle", "waiting"} \cup Inside,
                                 fresh : BOOLEAN, cancels : BOOLEAN]]
    /\ switch \in [at : {"idle", "read", "set"}, was : BOOLEAN, target : BOOLEAN]
    /\ run \in {"off", "starting", "synced", "on", "stopping"}

NoFailures == [o \in Origins |-> 0]

GuardInit ==
    /\ gate = FreshGate(0)
    /\ inflight = "none"
    /\ guard = [enabled |-> TRUE, paused |-> FALSE, failures |-> NoFailures, rounds |-> 0]
    /\ callback = "none"
    /\ probe = [worker |-> "none", fresh |-> FALSE, disturbed |-> FALSE, clean |-> 0]
    /\ request = [r \in Requests |-> IdleRequest]
    /\ switch = Resting
    /\ run = "off"

\* The callback lock is free.
Unlocked     == callback = "none"
\* A decision that opened an outage and has not reached the gate yet.
Undecided    == \E r \in Requests : request[r].at \in {"notifying", "starting", "decided"} /\ ~request[r].cancels
Probing      == guard.enabled /\ guard.paused

Goto(r, p)   == request' = [request EXCEPT ![r].at = p]
\* suspend, resume and report_pressure of the in-flight admission
Suspended(i)  == IF i = "expanded" THEN "suspended" ELSE i
Resumed(i)    == IF i = "suspended" THEN "expanded" ELSE i
RolledBack(i) == IF i = "none" THEN i ELSE "rolledback"
\* start_probe_worker of a paused guard: nothing when the thread is alive
Started(w)    == IF w = "none" THEN "loop" ELSE w

-----------------------------------------------------------------------------
(* The batch.                                                              *)

\* begin_run of the gate and of the guard, a new in-flight admission.
BeginRun ==
    /\ run = "off" /\ Unlocked /\ switch = Resting
    /\ gate' = FreshGate(gate.active)
    /\ inflight' = "expanded"
    /\ probe' = [probe EXCEPT !.worker = IF Probing THEN Started(@) ELSE @]
    /\ run' = "starting"
    /\ UNCHANGED <<guard, callback, request, switch>>

\* mutant: a batch does not inherit the outage it is started in
SynchronizeNothing ==
    /\ run \in {"starting", "synced"}
    /\ run' = IF run = "starting" THEN "synced" ELSE "on"
    /\ UNCHANGED <<gate, inflight, guard, callback, probe, request, switch>>

\* synchronize_connectivity_pause, called twice on the way.
Synchronize ==
    /\ run \in {"starting", "synced"}
    /\ run' = IF run = "starting" THEN "synced" ELSE "on"
    /\ gate' = IF guard.paused THEN Cut(gate, FALSE) ELSE gate
    /\ inflight' = IF guard.paused THEN Suspended(inflight) ELSE inflight
    /\ UNCHANGED <<guard, callback, probe, request, switch>>

\* The stop event, and the batch's in-flight gate is forgotten.
Stop ==
    /\ run = "on"
    /\ run' = "stopping"
    /\ inflight' = "none"
    /\ UNCHANGED <<gate, guard, callback, probe, request, switch>>

\* Every task is over: the importer is no longer running.
Finish ==
    /\ run \in {"on", "stopping"}
    /\ \A r \in Requests : request[r].at = "idle"
    /\ run' = "off"
    /\ inflight' = "none"
    /\ UNCHANGED <<gate, guard, callback, probe, request, switch>>

\* The configuration is saved with another proxy, which only an idle importer
\* allows: configure_proxy clears the incident of the old route.
Reroute ==
    /\ run = "off" /\ Unlocked /\ switch = Resting
    /\ guard' = [guard EXCEPT !.paused = FALSE, !.failures = NoFailures, !.rounds = 0]
    /\ probe' = [probe EXCEPT !.fresh = FALSE]
    /\ UNCHANGED <<gate, inflight, callback, request, switch, run>>

-----------------------------------------------------------------------------
(* One request: acquire, the call, its result, release.                    *)

Request(r) ==
    /\ run = "on" /\ request[r].at = "idle"
    /\ Goto(r, "waiting")
    /\ UNCHANGED <<gate, inflight, guard, callback, probe, switch, run>>

\* A waiter looks: it enters, or at least notices that a cooldown is over.
Poll(r) ==
    /\ request[r].at = "waiting" /\ run # "stopping"
    /\ IF Admits(gate)
       THEN gate' = Admitted(gate) /\ Goto(r, "held")
       ELSE gate' = Cleared(gate) /\ UNCHANGED request
    /\ UNCHANGED <<inflight, guard, callback, probe, switch, run>>

StopWaiting(r) ==
    /\ request[r].at = "waiting" /\ run = "stopping"
    /\ Goto(r, "idle")
    /\ UNCHANGED <<gate, inflight, guard, callback, probe, switch, run>>

\* capture_connectivity_generation
Capture(r) ==
    /\ request[r].at = "held"
    /\ request' = [request EXCEPT ![r] = [IdleRequest EXCEPT !.at = "flying"]]
    /\ UNCHANGED <<gate, inflight, guard, callback, probe, switch, run>>

Returns(r) == request[r].at = "flying" /\ Unlocked

\* mutant: a stale result does not give its slot back
IgnoredForgets(r) ==
    /\ Returns(r)
    /\ Goto(r, IF request[r].fresh THEN "leaving" ELSE "idle")
    /\ UNCHANGED <<gate, inflight, guard, callback, probe, switch, run>>

\* The generation moved on, or the failure says nothing about the route; an
\* invalidated session (of the current generation) rolls the in-flight gate back.
\* A 429, or an error of a kind that means pressure, is reported all the same.
Ignored(r) ==
    /\ Returns(r)
    /\ \/ UNCHANGED inflight
       \/ request[r].fresh /\ inflight' = RolledBack(inflight)
    /\ \E p \in {"leaving", "limited", "pressed"} : Goto(r, p)
    /\ UNCHANGED <<gate, guard, callback, probe, switch, run>>

\* observe_success: waits for the probes while the guard is paused.
Healthy(o) ==
    guard' = IF Probing \/ ~guard.enabled THEN guard ELSE [guard EXCEPT !.failures[o] = 0]

\* A success, or any HTTP answer but 429 (no capacity is counted for that one).
ObserveSuccess(r) ==
    /\ Returns(r) /\ request[r].fresh
    /\ \E o \in Origins : Healthy(o)
    /\ \E p \in {"good", "leaving"} : Goto(r, p)
    /\ UNCHANGED <<gate, inflight, callback, probe, switch, run>>

ObserveLimit(r) ==
    /\ Returns(r) /\ request[r].fresh
    /\ Goto(r, "limited")
    /\ UNCHANGED <<gate, inflight, guard, callback, probe, switch, run>>

\* mutant: a failure while the guard is paused leaves the probe round alone
AlreadyPausedQuietly(r, o) ==
    /\ guard.paused
    /\ guard' = [guard EXCEPT !.failures[o] = IF @ < Threshold THEN @ + 1 ELSE @]
    /\ probe' = [probe EXCEPT !.disturbed = TRUE, !.clean = 0]
    /\ request' = [request EXCEPT ![r].at = "starting", ![r].cancels = TRUE]
    /\ UNCHANGED callback

\* observe_failure of an enabled guard: already paused, not yet enough, or an outage.
AlreadyPaused(r, o) ==
    /\ guard.paused
    /\ guard' = [guard EXCEPT !.failures[o] = IF @ < Threshold THEN @ + 1 ELSE @, !.rounds = 0]
    /\ probe' = [probe EXCEPT !.fresh = FALSE, !.disturbed = TRUE, !.clean = 0]
    /\ request' = [request EXCEPT ![r].at = "starting", ![r].cancels = TRUE]
    /\ UNCHANGED callback

Suspected(r, o) ==
    /\ ~guard.paused /\ guard.failures[o] + 1 < Threshold
    /\ guard' = [guard EXCEPT !.failures[o] = @ + 1]
    /\ request' = [request EXCEPT ![r].at = "decided", ![r].cancels = TRUE]
    /\ UNCHANGED <<probe, callback>>

\* A new event id: whatever was captured before is stale.
Outage(r, o) ==
    /\ ~guard.paused /\ guard.failures[o] + 1 >= Threshold
    /\ LateToggles \/ switch = Resting
    /\ guard' = [guard EXCEPT !.paused = TRUE, !.failures[o] = Threshold, !.rounds = 0]
    /\ probe' = [probe EXCEPT !.fresh = FALSE, !.disturbed = TRUE, !.clean = 0]
    /\ request' = [q \in Requests |->
                     IF q = r THEN [at |-> "notifying", fresh |-> FALSE, cancels |-> FALSE]
                     ELSE [request[q] EXCEPT !.fresh = FALSE]]
    /\ callback' = "outage"

ObserveFailure(r) ==
    /\ Returns(r) /\ request[r].fresh
    /\ \E o \in Origins :
         \/ ~guard.enabled /\ Goto(r, "leaving") /\ UNCHANGED <<guard, probe, callback>>
         \/ guard.enabled /\ (AlreadyPaused(r, o) \/ Suspected(r, o) \/ Outage(r, o))
    /\ UNCHANGED <<gate, inflight, switch, run>>

\* _on_connectivity_outage: the gate, and the in-flight gate unless it is one too many.
NotifyOutage(r) ==
    /\ request[r].at = "notifying"
    /\ gate' = Cut(gate, TRUE)
    /\ inflight' = IF gate'.sticky THEN RolledBack(inflight) ELSE Suspended(inflight)
    /\ callback' = "none"
    /\ Goto(r, "starting")
    /\ UNCHANGED <<guard, probe, switch, run>>

\* start_probe_worker, after the locks are gone; it does nothing unless paused.
StartProbes(r) ==
    /\ request[r].at = "starting"
    /\ probe' = [probe EXCEPT !.worker = IF Probing THEN Started(@) ELSE @]
    /\ Goto(r, IF request[r].cancels THEN "leaving" ELSE "decided")
    /\ UNCHANGED <<gate, inflight, guard, callback, switch, run>>

\* _apply_connectivity_decision: cancel_expansion or pause, under no common lock.
ApplyDecision(r) ==
    /\ request[r].at = "decided"
    /\ gate' = IF request[r].cancels THEN Guarded(gate) ELSE Cut(gate, TRUE)
    /\ Goto(r, "suspending")
    /\ UNCHANGED <<inflight, guard, callback, probe, switch, run>>

\* ... then the in-flight gate and the gate's report of the failure.
ApplySuspension(r) ==
    /\ request[r].at = "suspending"
    /\ inflight' = Suspended(inflight)
    /\ gate' = Failed(gate)
    /\ Goto(r, "leaving")
    /\ UNCHANGED <<guard, callback, probe, switch, run>>

ReportSuccess(r) ==
    /\ request[r].at = "good"
    /\ gate' = Succeeded(gate)
    /\ Goto(r, IF Qualifies(gate) THEN "qualified" ELSE "leaving")
    /\ UNCHANGED <<inflight, guard, callback, probe, switch, run>>

\* on_limit_change, after the gate's condition is gone: _resume_inflight_if_ready
ResumeInflight(r) ==
    /\ request[r].at = "qualified"
    /\ inflight' = Resumed(inflight)
    /\ Goto(r, "leaving")
    /\ UNCHANGED <<gate, guard, callback, probe, switch, run>>

\* report_task_pressure and the gate's report of the 429, or of the pressure.
ReportLimit(r) ==
    /\ \/ request[r].at = "limited" /\ gate' = RateLimited(gate)
       \/ request[r].at = "pressed" /\ gate' = Failed(gate)
    /\ inflight' = RolledBack(inflight)
    /\ Goto(r, "leaving")
    /\ UNCHANGED <<guard, callback, probe, switch, run>>

Leave(r) ==
    /\ request[r].at = "leaving"
    /\ gate' = RoomLeft(gate)
    /\ request' = [request EXCEPT ![r] = IdleRequest]
    /\ UNCHANGED <<inflight, guard, callback, probe, switch, run>>

-----------------------------------------------------------------------------
(* The probe worker.                                                       *)

\* The loop's test; a round captures the generation it starts in.
ProbeRound ==
    /\ probe.worker = "loop"
    /\ probe' = IF Probing THEN [probe EXCEPT !.worker = "asking", !.fresh = TRUE, !.disturbed = FALSE]
                ELSE [probe EXCEPT !.worker = "leaving"]
    /\ UNCHANGED <<gate, inflight, guard, callback, request, switch, run>>

\* The generation moved on, or the guard was switched off: the answer is dropped.
ProbeDropped ==
    /\ probe.worker = "asking" /\ Unlocked
    /\ ~Probing \/ ~probe.fresh
    /\ probe' = [probe EXCEPT !.worker = "loop"]
    /\ UNCHANGED <<gate, inflight, guard, callback, request, switch, run>>

ProbeFailed ==
    /\ probe.worker = "asking" /\ Unlocked /\ Probing /\ probe.fresh
    /\ guard' = [guard EXCEPT !.rounds = 0]
    /\ probe' = [probe EXCEPT !.worker = "loop", !.clean = 0]
    /\ UNCHANGED <<gate, inflight, callback, request, switch, run>>

\* Every origin answered; enough rounds in a row end the outage.
ProbeSucceeded ==
    /\ probe.worker = "asking" /\ Unlocked /\ Probing /\ probe.fresh
    /\ IF guard.rounds + 1 < RecoveryRounds
       THEN /\ guard' = [guard EXCEPT !.rounds = @ + 1]
            /\ probe' = [probe EXCEPT !.worker = "loop", !.clean = IF probe.disturbed THEN 0 ELSE @ + 1]
            /\ UNCHANGED callback
       ELSE /\ LateDecisions \/ ~Undecided
            /\ guard' = [guard EXCEPT !.paused = FALSE, !.failures = NoFailures,
                                      !.rounds = RecoveryRounds]
            /\ callback' = "recovery"
            /\ UNCHANGED probe
    /\ UNCHANGED <<gate, inflight, request, switch, run>>

\* mutant: the recovery is announced, the gate is not told
NotifyRecoveryOnly ==
    /\ callback = "recovery"
    /\ callback' = "none"
    /\ probe' = [probe EXCEPT !.worker = "loop"]
    /\ UNCHANGED <<gate, inflight, guard, request, switch, run>>

\* _on_connectivity_recovery
NotifyRecovery ==
    /\ callback = "recovery"
    /\ gate' = Restored(gate)
    /\ callback' = "none"
    /\ probe' = [probe EXCEPT !.worker = "loop"]
    /\ UNCHANGED <<inflight, guard, request, switch, run>>

\* _finish_probe_worker: an outage that came while it was leaving gets another worker.
ProbeLeaves ==
    /\ probe.worker = "leaving"
    /\ probe' = [probe EXCEPT !.worker = IF Probing THEN "loop" ELSE "none"]
    /\ UNCHANGED <<gate, inflight, guard, callback, request, switch, run>>

-----------------------------------------------------------------------------
(* The switch: write_local_config of the guard route, one at a time        *)
(* (lifecycle_lock) and never during a start.                              *)

SwitchRead ==
    /\ switch.at = "idle" /\ run \in {"off", "on", "stopping"}
    /\ LateDecisions \/ ~Undecided
    /\ \E b \in BOOLEAN : switch' = [at |-> "read", was |-> guard.paused, target |-> b]
    /\ UNCHANGED <<gate, inflight, guard, callback, probe, request, run>>

\* set_enabled
SwitchSet ==
    /\ switch.at = "read" /\ Unlocked
    /\ guard' = IF guard.enabled = switch.target THEN guard
                ELSE IF switch.target THEN [guard EXCEPT !.enabled = TRUE]
                ELSE [guard EXCEPT !.enabled = FALSE, !.paused = FALSE,
                                   !.failures = NoFailures, !.rounds = 0]
    /\ probe' = [probe EXCEPT !.fresh = @ /\ guard' = guard]
    /\ switch' = IF switch.was /\ ~switch.target THEN [switch EXCEPT !.at = "set"] ELSE Resting
    /\ UNCHANGED <<gate, inflight, callback, request, run>>

\* The gate and the in-flight gate are let go.
SwitchResume ==
    /\ switch.at = "set"
    /\ gate' = Restored(gate)
    /\ inflight' = Resumed(inflight)
    /\ switch' = Resting
    /\ UNCHANGED <<guard, callback, probe, request, run>>

-----------------------------------------------------------------------------
(* Time and restart.                                                       *)

\* A failure leaves the window of failure_window_seconds.
WindowPasses(o) ==
    /\ ~guard.paused /\ guard.failures[o] > 0
    /\ guard' = [guard EXCEPT !.failures[o] = @ - 1]
    /\ UNCHANGED <<gate, inflight, callback, probe, request, switch, run>>

CooldownPasses ==
    /\ gate.cooling = "on"
    /\ gate' = [gate EXCEPT !.cooling = "over"]
    /\ UNCHANGED <<inflight, guard, callback, probe, request, switch, run>>

SpacingPasses ==
    /\ ~gate.spaced
    /\ gate' = [gate EXCEPT !.spaced = TRUE]
    /\ UNCHANGED <<inflight, guard, callback, probe, request, switch, run>>

\* A new process: _load_state, then set_enabled and configure_proxy of the saved
\* configuration, which is written before the guard is told.
Restart ==
    LET on     == IF switch.at = "read" THEN switch.target ELSE guard.enabled
        paused == guard.paused /\ on
    IN  /\ guard' = [guard EXCEPT !.enabled = on, !.paused = paused,
                       !.failures = IF on THEN @ ELSE NoFailures, !.rounds = IF on THEN @ ELSE 0]
        /\ gate' = FreshGate(0)
        /\ inflight' = "none"
        /\ callback' = "none"
        /\ probe' = [probe EXCEPT !.worker = IF paused THEN "loop" ELSE "none", !.fresh = FALSE]
        /\ request' = [r \in Requests |-> IdleRequest]
        /\ switch' = Resting
        /\ run' = "off"

RequestStep(r) ==
    \/ Poll(r) \/ StopWaiting(r) \/ Capture(r)
    \/ Ignored(r) \/ ObserveSuccess(r) \/ ObserveLimit(r) \/ ObserveFailure(r)
    \/ NotifyOutage(r) \/ StartProbes(r) \/ ApplyDecision(r) \/ ApplySuspension(r)
    \/ ReportSuccess(r) \/ ResumeInflight(r) \/ ReportLimit(r) \/ Leave(r)

ProbeStep == ProbeRound \/ ProbeDropped \/ ProbeFailed \/ ProbeSucceeded \/ NotifyRecovery \/ ProbeLeaves

GuardNext ==
    \/ BeginRun \/ Synchronize \/ Stop \/ Finish \/ Reroute \/ Restart
    \/ \E r \in Requests : Request(r) \/ RequestStep(r)
    \/ ProbeStep
    \/ SwitchRead \/ SwitchSet \/ SwitchResume
    \/ \E o \in Origins : WindowPasses(o)
    \/ CooldownPasses \/ SpacingPasses

GuardSpec == GuardInit /\ [][GuardNext]_guardVars

-----------------------------------------------------------------------------
(* Properties.                                                             *)

\* Every request that holds a slot is counted, and no other: a batch that begins,
\* an outage or a stop leaves the count alone.
SlotsAreHeld == gate.active = Cardinality({r \in Requests : request[r].at \in Inside})

\* A gate is paused exactly as long as an outage or a cooldown is: the end of one
\* does not lift the other ("connectivity recovery does not clear an active cooldown").
\* And after a 429 or a second outage the batch stays at its baseline, whatever succeeds.
GateKeepsReasons ==
    /\ gate.paused = (gate.cut \/ gate.cooling # "no")
    /\ gate.sticky => gate.limit = Baseline /\ ~gate.expansion /\ ~gate.recovery

\* Nothing of an outage is still on its way to the gate.
Settled ==
    /\ Unlocked /\ switch = Resting /\ run = "on"
    /\ \A r \in Requests : request[r].at \notin {"notifying", "starting", "decided", "suspending"}

\* A gate that an outage paused belongs to a guard that probes: otherwise nobody resumes it.
PausedGateIsProbed == Settled /\ gate.cut => Probing

\* The other way round: while the guard waits for its probes, the batch's gate is shut.
OutageShutsGate == Settled /\ Probing => gate.cut /\ gate.paused

\* A paused guard has a worker that probes, also when the old one was just leaving.
OutageHasWorker ==
    Probing /\ probe.worker = "none" =>
      callback # "none" \/ \E r \in Requests : request[r].at = "starting"

\* An outage only ends on RecoveryRounds successful rounds in a row, all begun after
\* the last request that failed.
RecoveryIsClean ==
    [][callback = "none" /\ callback' = "recovery" =>
         ~probe.disturbed /\ probe.clean + 1 >= RecoveryRounds]_guardVars

\* A gate that an outage paused opens again in its batch, once the route answers.
GateReopens == gate.cut /\ run = "on" ~> ~gate.cut \/ run # "on"
=============================================================================
