---------------------------- MODULE BrowserPool ----------------------------
(* The shared Camoufox pool of free_camoufox/browser_registry.py: a fixed    *)
(* set of browser slots, each with at most MaxContexts contexts; register()  *)
(* calls that are admitted to a slot, run a page flow and clean up; debug    *)
(* sessions, contexts of failed calls kept open for the operator; and the    *)
(* recycler that replaces a slot's browser.  Everything runs on one asyncio  *)
(* loop, so an action is the code between two awaits.  Abstracted: the page  *)
(* flow itself (an outcome), launch attempts, timing events, the artifact    *)
(* files, disconnect_requested (it only words an error), a second operator   *)
(* request while one is being served.                                        *)
EXTENDS Common

CONSTANTS
    PoolSlots,          \* pool_size browsers
    PoolCalls,          \* register() calls
    NoSlot,             \* a call or a close request that is at no slot
    MaxContexts,        \* max_contexts_per_browser
    MaxRegistrations,   \* max_registrations_per_browser
    MaxDeaths,          \* bound: browser processes that die
    LateDeadlines,      \* a registration deadline may pass while its failure is captured
    ClosesMeetDeaths    \* a browser may die while the operator closes its windows

ASSUME PoolAssumption ==
    /\ IsFiniteSet(PoolSlots) /\ IsFiniteSet(PoolCalls)
    /\ PoolSlots \cap PoolCalls = {} /\ NoSlot \notin PoolSlots
    /\ PoolCalls \cap {"nobody", "event", "operator"} = {}
    /\ MaxContexts \in Nat \ {0} /\ MaxRegistrations \in Nat \ {0}
    /\ MaxDeaths \in Nat
    /\ LateDeadlines \in BOOLEAN /\ ClosesMeetDeaths \in BOOLEAN

VARIABLES
    slot,       \* the _BrowserSlot objects
    call,       \* where each registration is
    session,    \* _debug_sessions: the calls whose context is kept open
    crew,       \* the recycler inside each slot's recycle_lock
    waiting,    \* _recycle_slot calls waiting for that lock
    closer,     \* _close_debug_sessions_async
    pool        \* _closed, and the deaths so far

poolVars == <<slot, call, session, crew, waiting, closer, pool>>

FreshBrowser == [browser |-> "live", gen |-> 0, draining |-> FALSE, failed |-> FALSE,
                 active |-> 0, holds |-> 0, done |-> 0]
Unasked == [at |-> "out", on |-> NoSlot, gen |-> 0, seen |-> 0, spoilt |-> FALSE, safe |-> FALSE,
            again |-> FALSE, tried |-> FALSE, kept |-> FALSE]
NoCrew  == [at |-> "free", gone |-> 0, by |-> "nobody"]
NoClose == [at |-> "idle", todo |-> {}, worn |-> {}, on |-> NoSlot]

Reserving == {"flow", "capture", "leaving"}     \* the call holds one of active_contexts
Permitted == Reserving \cup {"recycle"}         \* and, until it returns, a semaphore permit
Drivers   == PoolCalls \cup {"event", "operator"}

PoolTypeOK ==
    /\ slot \in [PoolSlots -> [browser : {"live", "dead", "none"}, gen : Nat,
                               draining : BOOLEAN, failed : BOOLEAN,
                               active : 0 .. MaxContexts, holds : 0 .. MaxContexts, done : Nat]]
    /\ call \in [PoolCalls -> [at : {"out", "scan", "recover", "picked", "over"} \cup Permitted,
                           on : PoolSlots \cup {NoSlot}, gen : Nat, seen : Nat, spoilt : BOOLEAN,
                           safe : BOOLEAN, again : BOOLEAN, tried : BOOLEAN, kept : BOOLEAN]]
    /\ session \subseteq PoolCalls
    /\ crew \in [PoolSlots -> [at : {"free", "discard", "drain", "closing"},
                               gone : Nat, by : Drivers \cup {"nobody"}]]
    /\ waiting \subseteq [slot : PoolSlots, gen : Nat, by : Drivers]
    /\ closer \in [at : {"idle", "closing", "recycling"}, todo : SUBSET PoolCalls,
                   worn : SUBSET PoolSlots, on : PoolSlots \cup {NoSlot}]
    /\ pool \in [closed : BOOLEAN, deaths : 0 .. MaxDeaths]

PoolInit ==
    /\ slot = [s \in PoolSlots |-> FreshBrowser]
    /\ call = [t \in PoolCalls |-> Unasked]
    /\ session = {}
    /\ crew = [s \in PoolSlots |-> NoCrew]
    /\ waiting = {}
    /\ closer = NoClose
    /\ pool = [closed |-> FALSE, deaths |-> 0]

----------------------------------------------------------------------------
(* What admission reads of a slot.                                          *)

\* Load and the other facts a slot is chosen by.
Load(s)    == slot[s].active + slot[s].holds
Locked(s)  == crew[s].at # "free"
Permits(s) == MaxContexts - Cardinality({t \in PoolCalls : call[t].on = s /\ call[t].at \in Permitted})
HealthySlot(s) == ~slot[s].draining /\ ~Locked(s) /\ slot[s].browser = "live"
Candidate(s) == HealthySlot(s) /\ Permits(s) > 0 /\ Load(s) < MaxContexts
Lighter(s, r) == \/ Load(s) < Load(r)
                 \/ Load(s) = Load(r) /\ slot[s].done <= slot[r].done
Recycling == {s \in PoolSlots : slot[s].draining \/ Locked(s)}

\* _acquire_slot_permit looks again, under the admission lock.
Admittable(s) == ~slot[s].draining /\ ~Locked(s) /\ Load(s) < MaxContexts

Sessions(s) == {t \in session : call[t].on = s}

\* The registration ended: the pool replays one that was safe_restart, once.
LeftPermits(c) == IF c.safe /\ ~c.again
                  THEN [Unasked EXCEPT !.at = "scan", !.again = TRUE]
                  ELSE [c EXCEPT !.at = "over"]

\* A call returns from _recycle_slot: to the scan it recovered for, or to its caller.
Returned(c) == IF c.at = "recover" THEN [c EXCEPT !.at = "scan"] ELSE LeftPermits(c)

DriverReturns(w) ==
    /\ call' = IF w \in PoolCalls THEN [call EXCEPT ![w] = Returned(@)] ELSE call
    /\ closer' = IF w = "operator" THEN [closer EXCEPT !.at = "closing", !.on = NoSlot] ELSE closer

----------------------------------------------------------------------------
(* A registration.                                                          *)

InsidePool == {t \in PoolCalls : call[t].at \notin {"out", "over"}}

\* _register_async takes the pool-wide semaphore.
Ask(t) ==
    /\ call[t].at = "out" /\ ~pool.closed
    /\ Cardinality(InsidePool) < MaxContexts * Cardinality(PoolSlots)
    /\ call' = [call EXCEPT ![t].at = "scan"]
    /\ UNCHANGED <<slot, session, crew, waiting, closer, pool>>

\* _select_admission_slot: the least loaded slot with room.
Pick(t, s) ==
    /\ call[t].at = "scan"
    /\ Candidate(s)
    /\ \A r \in PoolSlots : Candidate(r) => Lighter(s, r)
    /\ call' = [call EXCEPT ![t].at = "picked", ![t].on = s]
    /\ UNCHANGED <<slot, session, crew, waiting, closer, pool>>

\* With no healthy slot and no recycler at work the call rebuilds one itself, once.
NobodyHome(t) == call[t].at = "scan" /\ \A s \in PoolSlots : ~HealthySlot(s) /\ ~Locked(s)

RecoverSlot(t, s) ==
    /\ NobodyHome(t)
    /\ \A r \in Recycling : ~slot[r].failed
    /\ ~call[t].tried
    /\ waiting' = waiting \cup {[slot |-> s, gen |-> slot[s].gen, by |-> t]}
    /\ call' = [call EXCEPT ![t].at = "recover", ![t].tried = TRUE]
    /\ UNCHANGED <<slot, session, crew, closer, pool>>

\* ... or reports the failure, which is safe to restart.
GiveUp(t) ==
    /\ NobodyHome(t)
    /\ (\E r \in Recycling : slot[r].failed) \/ call[t].tried
    /\ call' = [call EXCEPT ![t] = LeftPermits([@ EXCEPT !.safe = TRUE])]
    /\ UNCHANGED <<slot, session, crew, waiting, closer, pool>>

\* The permit and the reservation, or back to the scan (_SlotAdmissionRace).  The browser may
\* have died since it was picked.
ReserveSlot(t) ==
    LET s == call[t].on
        lost == slot[s].browser # "live"
    IN /\ call[t].at = "picked"
       /\ Permits(s) > 0
       /\ IF Admittable(s)
          THEN /\ slot' = [slot EXCEPT ![s].active = @ + 1]
               /\ call' = [call EXCEPT ![t].at = IF lost THEN "leaving" ELSE "flow",
                                       ![t].gen = slot[s].gen, ![t].spoilt = lost, ![t].safe = lost]
          ELSE /\ call' = [call EXCEPT ![t].at = "scan", ![t].on = NoSlot]
               /\ UNCHANGED slot
       /\ UNCHANGED <<session, crew, waiting, closer, pool>>

\* The page flow succeeded.
Succeed(t) ==
    LET s == call[t].on IN
    /\ call[t].at = "flow"
    /\ slot' = [slot EXCEPT ![s].done = @ + 1]
    /\ call' = [call EXCEPT ![t].at = "leaving",
                            ![t].spoilt = slot[s].done + 1 >= MaxRegistrations]
    /\ UNCHANGED <<session, crew, waiting, closer, pool>>

\* The context or the page could not be created; replayed when the process was lost.
FailEarly(t, lost) ==
    /\ call[t].at = "flow"
    /\ call' = [call EXCEPT ![t].at = "leaving", ![t].spoilt = TRUE, ![t].safe = lost]
    /\ UNCHANGED <<slot, session, crew, waiting, closer, pool>>

\* A failure nobody wants to look at: a stop, a timeout, a lost browser.
FailPlainly(t, spoilt) ==
    /\ call[t].at = "flow"
    /\ call' = [call EXCEPT ![t].at = "leaving", ![t].spoilt = spoilt]
    /\ UNCHANGED <<slot, session, crew, waiting, closer, pool>>

\* A page is open while its browser is; one being torn down may not be closed yet.
MayBeOpen(t) ==
    LET s == call[t].on IN
    \/ slot[s].browser = "live" /\ slot[s].gen = call[t].gen
    \/ crew[s].at = "closing" /\ slot[s].gen = call[t].gen + 1

\* A failure worth inspecting: _retain_debug_context notes the slot's generation and captures.
FailVisibly(t) ==
    /\ call[t].at = "flow" /\ MayBeOpen(t)
    /\ call' = [call EXCEPT ![t].at = "capture", ![t].seen = slot[call[t].on].gen]
    /\ UNCHANGED <<slot, session, crew, waiting, closer, pool>>

\* After the capture, under the admission lock: the slot must still be the same.
Keepable(t) ==
    LET s == call[t].on IN
    /\ MayBeOpen(t) /\ ~pool.closed
    /\ slot[s].gen = call[t].seen /\ ~slot[s].draining /\ slot[s].browser = "live"

Retain(t) ==
    LET s == call[t].on IN
    /\ call[t].at = "capture"
    /\ \/ /\ Keepable(t)
          /\ session' = session \cup {t}
          /\ slot' = [slot EXCEPT ![s].holds = @ + 1]
          /\ call' = [call EXCEPT ![t].at = "leaving", ![t].kept = TRUE, ![t].spoilt = FALSE]
       \/ /\ call' = [call EXCEPT ![t].at = "leaving"]
          /\ UNCHANGED <<slot, session>>
    /\ UNCHANGED <<crew, waiting, closer, pool>>

\* The context is closed unless it is kept, the reservation returned, and a spoilt browser
\* of the same generation is sent to the recycler.
LeavePool(t, shut) ==
    LET s == call[t].on
        spoilt == call[t].spoilt \/ (~call[t].kept /\ ~shut)
    IN /\ call[t].at = "leaving"
       /\ slot' = [slot EXCEPT ![s].active = OneLess(@)]
       /\ IF spoilt /\ call[t].gen = slot[s].gen
          THEN /\ call' = [call EXCEPT ![t].at = "recycle", ![t].spoilt = TRUE]
               /\ waiting' = waiting \cup {[slot |-> s, gen |-> call[t].gen, by |-> t]}
          ELSE /\ call' = [call EXCEPT ![t] = LeftPermits(@)]
               /\ UNCHANGED waiting
       /\ UNCHANGED <<session, crew, closer, pool>>

\* The deadline passes (or the caller gives up): the task is cancelled where it waits.  A flow
\* cleans up; a capture under way is not protected, and nothing after it runs; a recycler
\* stopped before the browser is gone restores the slot, after that it leaves it failed.
Stopped(x, at) == IF at = "drain" THEN [x EXCEPT !.draining = FALSE]
                  ELSE [x EXCEPT !.draining = TRUE, !.failed = TRUE]

\* mutant: the cleanup can be cancelled as well
UnprotectedClose(t) == call[t].at \in {"scan", "picked", "leaving"}

\* Where a cancellation ends the call at once.
Unprotected(t) == call[t].at \in {"scan", "picked"} \/ (call[t].at = "capture" /\ LateDeadlines)

Expire(t) ==
    /\ \/ /\ Unprotected(t)
          /\ call' = [call EXCEPT ![t].at = "over"]
          /\ UNCHANGED <<slot, crew, waiting>>
       \/ /\ call[t].at = "flow"
          /\ call' = [call EXCEPT ![t].at = "leaving", ![t].spoilt = TRUE]
          /\ UNCHANGED <<slot, crew, waiting>>
       \/ /\ call[t].at \in {"recycle", "recover"}
          /\ call' = [call EXCEPT ![t].at = "over"]
          /\ waiting' = {r \in waiting : r.by # t}
          /\ LET own == {s \in PoolSlots : crew[s].by = t} IN
             /\ \A s \in own : crew[s].at # "discard"
             /\ slot' = [s \in PoolSlots |-> IF s \in own THEN Stopped(slot[s], crew[s].at) ELSE slot[s]]
             /\ crew' = [s \in PoolSlots |-> IF s \in own THEN NoCrew ELSE crew[s]]
    /\ UNCHANGED <<session, closer, pool>>

----------------------------------------------------------------------------
(* The recycler.                                                            *)

\* A window is open on the slot: its browser stays.
Spared(x) == [x EXCEPT !.draining = FALSE, !.failed = FALSE]

\* The slot lets go of its browser.
Detached(x) == [x EXCEPT !.browser = "none", !.gen = @ + 1, !.done = 0, !.draining = TRUE]

\* mutant: the recycler does not look for windows
HeldNever(x) == FALSE

\* The recycler reads the holds and goes on: w drives it, x is the slot as it stands.
Held(x)    == x.holds > 0
ToDrain(x) == x.active > 0
Detach(s, w, x)  == /\ slot' = [slot EXCEPT ![s] = Detached(x)]
                    /\ crew' = [crew EXCEPT ![s] = [at |-> "closing", gone |-> 0, by |-> w]]
                    /\ UNCHANGED <<call, closer>>
GoOn(s, w, x) ==
    \/ /\ Held(x)
       /\ slot' = [slot EXCEPT ![s] = Spared(x)]
       /\ crew' = [crew EXCEPT ![s] = NoCrew]
       /\ DriverReturns(w)
    \/ /\ ~Held(x) /\ ToDrain(x)
       /\ slot' = [slot EXCEPT ![s] = x]
       /\ crew' = [crew EXCEPT ![s] = [at |-> "drain", gone |-> 0, by |-> w]]
       /\ UNCHANGED <<call, closer>>
    \/ ~Held(x) /\ ~ToDrain(x) /\ Detach(s, w, x)

\* A request for a browser that is not there any more is dropped.
WornOut(r) == slot[r.slot].gen # r.gen \/ pool.closed

Begin(r) ==
    LET s == r.slot
        x == [slot[s] EXCEPT !.draining = TRUE]
    IN /\ r \in waiting /\ crew[s].at = "free"
       /\ waiting' = waiting \ {r}
       /\ \/ /\ WornOut(r)
             /\ DriverReturns(r.by)
             /\ UNCHANGED <<slot, session, crew>>
          \/ /\ ~WornOut(r) /\ x.browser = "live"
             /\ GoOn(s, r.by, x)
             /\ UNCHANGED session
          \/ /\ ~WornOut(r) /\ x.browser # "live"
             /\ slot' = [slot EXCEPT ![s] = x]
             /\ session' = session \ Sessions(s)
             /\ crew' = [crew EXCEPT ![s] = [at |-> "discard", gone |-> Cardinality(Sessions(s)),
                                             by |-> r.by]]
             /\ UNCHANGED <<call, closer>>
       /\ UNCHANGED pool

\* mutant: the holds of the closed contexts stay
GivenUpNot(s) == slot[s].holds

\* The contexts of a dead browser have been closed: their holds go.
GivenUp(s) == Greater(0, slot[s].holds - crew[s].gone)
Discarded(s) ==
    /\ crew[s].at = "discard"
    /\ GoOn(s, crew[s].by, [slot[s] EXCEPT !.holds = GivenUp(s)])
    /\ UNCHANGED <<session, waiting, pool>>

\* The slot is idle, or browser_recycle_drain_timeout_seconds have passed.
Drained(s) ==
    /\ crew[s].at = "drain"
    /\ IF Held(slot[s])
       THEN /\ slot' = [slot EXCEPT ![s] = Spared(@)]
            /\ crew' = [crew EXCEPT ![s] = NoCrew]
            /\ DriverReturns(crew[s].by)
       ELSE Detach(s, crew[s].by, slot[s])
    /\ UNCHANGED <<session, waiting, pool>>

\* The old browser is closed and a new one launched, or not: then the slot stays out.
Relaunch(s, ok) ==
    /\ crew[s].at = "closing"
    /\ slot' = [slot EXCEPT ![s].browser = IF ok THEN "live" ELSE "none",
                            ![s].draining = ~ok, ![s].failed = ~ok]
    /\ crew' = [crew EXCEPT ![s] = NoCrew]
    /\ DriverReturns(crew[s].by)
    /\ UNCHANGED <<session, waiting, pool>>

\* A browser process dies; its listener asks for a recycle of that generation.
Die(s) ==
    /\ slot[s].browser = "live" /\ ~pool.closed
    /\ pool.deaths < MaxDeaths
    /\ ClosesMeetDeaths \/ closer.todo \cap Sessions(s) = {}
    /\ slot' = [slot EXCEPT ![s].browser = "dead"]
    /\ waiting' = waiting \cup {[slot |-> s, gen |-> slot[s].gen, by |-> "event"]}
    /\ pool' = [pool EXCEPT !.deaths = @ + 1]
    /\ UNCHANGED <<call, session, crew, closer>>

----------------------------------------------------------------------------
(* The operator: close one window or all of them; an idle pool may be shut. *)

AskClose(ts) ==
    /\ closer.at = "idle" /\ ts # {} /\ ts \subseteq session /\ ~pool.closed
    /\ ClosesMeetDeaths \/ \A t \in ts : slot[call[t].on].browser = "live"
    /\ closer' = [NoClose EXCEPT !.at = "closing", !.todo = ts]
    /\ UNCHANGED <<slot, call, session, crew, waiting, pool>>

\* The last window of an idle slot that is due: recycle it when all are closed.
Due(x) == /\ x.holds = 0 /\ x.active = 0
          /\ x.done >= MaxRegistrations \/ x.failed \/ x.draining

\* One context after the other; a close that fails leaves its window.
CloseOne(t, ok) ==
    LET s == call[t].on
        x == [slot[s] EXCEPT !.holds = IF ok THEN OneLess(@) ELSE @]
    IN /\ closer.at = "closing" /\ t \in closer.todo
       /\ slot' = [slot EXCEPT ![s] = x]
       /\ session' = IF ok THEN session \ {t} ELSE session
       /\ closer' = [closer EXCEPT !.todo = @ \ {t},
                                   !.worn = IF ok /\ Due(x) THEN @ \cup {s} ELSE @]
       /\ UNCHANGED <<call, crew, waiting, pool>>

CloseRecycles(s) ==
    /\ closer.at = "closing" /\ closer.todo = {} /\ s \in closer.worn /\ ~pool.closed
    /\ closer' = [closer EXCEPT !.at = "recycling", !.worn = @ \ {s}, !.on = s]
    /\ waiting' = waiting \cup {[slot |-> s, gen |-> slot[s].gen, by |-> "operator"]}
    /\ UNCHANGED <<slot, call, session, crew, pool>>

CloseEnds ==
    /\ closer.at = "closing" /\ closer.todo = {}
    /\ closer.worn = {} \/ pool.closed
    /\ closer' = NoClose
    /\ UNCHANGED <<slot, call, session, crew, waiting, pool>>

\* shutdown(force=False): only without windows and active contexts.  What still waits is
\* cancelled, and every browser closed.
Unused == session = {} /\ \A s \in PoolSlots : slot[s].active = 0

ShutDown ==
    /\ ~pool.closed /\ Unused
    /\ pool' = [pool EXCEPT !.closed = TRUE]
    /\ call' = [t \in PoolCalls |-> IF t \in InsidePool THEN [call[t] EXCEPT !.at = "over"] ELSE call[t]]
    /\ slot' = [s \in PoolSlots |-> [slot[s] EXCEPT !.browser = "none", !.holds = 0]]
    /\ crew' = [s \in PoolSlots |-> NoCrew]
    /\ waiting' = {}
    /\ closer' = NoClose
    /\ session' = {}

----------------------------------------------------------------------------
CallStep(t) ==
    \/ Ask(t) \/ GiveUp(t) \/ ReserveSlot(t) \/ Succeed(t) \/ FailVisibly(t) \/ Retain(t) \/ Expire(t)
    \/ \E s \in PoolSlots : Pick(t, s) \/ RecoverSlot(t, s)
    \/ \E b \in BOOLEAN : FailEarly(t, b) \/ FailPlainly(t, b) \/ LeavePool(t, b)
RecyclerStep ==
    \/ \E r \in waiting : Begin(r)
    \/ \E s \in PoolSlots : Discarded(s) \/ Drained(s)
    \/ \E s \in PoolSlots, ok \in BOOLEAN : Relaunch(s, ok)
OperatorStep ==
    \/ \E ts \in SUBSET session : AskClose(ts)
    \/ \E t \in PoolCalls, ok \in BOOLEAN : CloseOne(t, ok)
    \/ \E s \in PoolSlots : CloseRecycles(s)
    \/ CloseEnds \/ ShutDown

PoolNext == (\E t \in PoolCalls : CallStep(t)) \/ RecyclerStep \/ OperatorStep \/ \E s \in PoolSlots : Die(s)

PoolSpec == PoolInit /\ [][PoolNext]_poolVars

----------------------------------------------------------------------------
(* Properties.                                                              *)

\* A slot counts one reservation for each registration between its admission and the end of
\* its cleanup, whichever way that ended: none is lost and none given back twice.
ReservationsReturned ==
    ~pool.closed => \A s \in PoolSlots :
        slot[s].active = Cardinality({t \in PoolCalls : call[t].on = s /\ call[t].at \in Reserving})

\* A slot counts one hold for each window on it: "neither can observe a session without its
\* capacity hold" (_retain_debug_context), up to the ones a recycler is just giving up.
HoldsMatchWindows ==
    \A s \in PoolSlots : slot[s].holds = Cardinality(Sessions(s)) + crew[s].gone

\* The contexts open in one browser, running and kept, never exceed max_contexts_per_browser.
ContextsFit ==
    \A s \in PoolSlots :
        Cardinality(Sessions(s) \cup {t \in PoolCalls : /\ call[t].on = s /\ call[t].at \in Reserving
                                                    /\ call[t].gen = slot[s].gen}) <= MaxContexts

\* What a slot counts is what is in its browser, and that fits.
PlacesAddUp == ReservationsReturned /\ HoldsMatchWindows /\ ContextsFit

\* A kept page belongs to the browser its slot has now: nothing is kept from a browser that
\* was replaced while the failure was captured.
WindowsAreCurrent ==
    \A s \in PoolSlots : \A t \in Sessions(s) : call[t].gen = slot[s].gen

TakenAway(s) == slot[s].browser = "live" /\ slot'[s].browser = "none"

\* A relaunch is never repeated for one loss: the recycler takes away a live browser only on
\* behalf of a registration of that very browser or of the operator's last window.
OnlyItsOwnRecycle(s) ==
    TakenAway(s) /\ ~pool'.closed =>
        \/ crew'[s].by = "operator"
        \/ /\ crew'[s].by \in PoolCalls /\ call[crew'[s].by].on = s
           /\ call[crew'[s].by].gen = slot[s].gen

\* A live browser goes only when no window is open in it, also not one kept while the recycler
\* waited for the slot to drain: "otherwise the newly retained page could be closed behind the
\* operator" (_recycle_slot); and it goes once.
WindowsSurviveRecycling ==
    [][\A s \in PoolSlots : /\ TakenAway(s) => Sessions(s) = {}
                            /\ OnlyItsOwnRecycle(s)
                            /\ WindowsAreCurrent']_poolVars

\* The listener of a dead browser gets it replaced, or its slot marked failed: a window nobody
\* closes does not hold on to a dead browser, nor does a registration that never ends.
DeadIsReplaced == \A s \in PoolSlots : slot[s].browser = "dead" ~> slot[s].browser # "dead"
=============================================================================
