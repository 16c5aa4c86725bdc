------------------------------- MODULE ProxyPool -------------------------------
(***************************************************************************)
(* The shared Free proxy pool of one process: the health of its exits      *)
(* (free_proxy_store, free_proxy_store_health), the challenge breaker      *)
(* (free_proxy_breaker) and the refill that mints tunnel exits             *)
(* (free_proxy_maintenance, free_proxy_tunnel), with the tasks that bind,  *)
(* use and report on exits.  Every operation of the pool takes its lock,   *)
(* so each is one step; probes, and the passes that call several           *)
(* operations, are not.  The leases of an exit are in ProxyLeases.         *)
(***************************************************************************)
EXTENDS Common

CONSTANTS Exits,          \* the proxy ids there may ever be
          FirstExits,     \* those the pool starts with
          ManualExits,    \* those an operator imported by hand, never minted
          ProxyTasks,     \* tasks that use the pool
          NoExit, NoTask,
          PoolTarget,     \* the pool size a refill aims at
          FailureLimit,   \* health failures in a row that quarantine an exit
          BurnThreshold,  \* distinct burned exits that trip the breaker
          ProbeTTL,       \* whether old health results are probed before use
          LateReports,    \* whether a health result may arrive after a burn
          MaxResets       \* operator resets of the breaker

ASSUME ExitAssumption == /\ FirstExits \subseteq Exits
                         /\ ManualExits \subseteq Exits
                         /\ PoolTarget \in Nat \ {0}
                         /\ FailureLimit \in Nat \ {0}
                         /\ BurnThreshold \in Nat \ {0}
                         /\ MaxResets \in Nat
                         /\ NoExit \notin Exits /\ NoTask \notin ProxyTasks
                         /\ IsFiniteSet(Exits)

VARIABLES exits,    \* exits[e]: the row of exit e
          burns,    \* exits burned within the breaker's window
          tripped,  \* the breaker's sticky trip
          minter,   \* the task that holds the maintenance lock, or NoTask
          attempt,  \* attempt[t]: what task t is doing with the pool
          resets    \* resets so far (bounded by MaxResets)

poolRowVars == <<exits, burns, tripped, minter, attempt, resets>>

Statuses == {"unminted", "unknown", "available", "quarantined", "burned", "removed"}
ExitRow == [status : Statuses, failures : 0..FailureLimit, expired : BOOLEAN,
            probed : BOOLEAN]

JobSteps == {"idle", "probing", "reported", "working", "challenged", "burnt",
             "asking", "cleared", "minting", "ended"}
Job == [step : JobSteps, exit : Exits \cup {NoExit},
        retried : BOOLEAN, todo : SUBSET Exits, left : 0..2 * PoolTarget,
        spent : SUBSET Exits]

NoJob == [step |-> "idle", exit |-> NoExit, retried |-> FALSE, todo |-> {},
          left |-> 0, spent |-> {}]

ProxyInit ==
  /\ exits = [e \in Exits |-> [status |-> IF e \in FirstExits THEN "unknown" ELSE "unminted",
                               failures |-> 0, expired |-> FALSE, probed |-> FALSE]]
  /\ burns = {}
  /\ tripped = FALSE
  /\ minter = NoTask
  /\ attempt = [t \in ProxyTasks |-> NoJob]
  /\ resets = 0

-------------------------------------------------------------------------------
\* The rows of the pool, and what a bind may choose from (_eligible, the
\* shared healthy pool; enabled and window metadata are left out).
Listed == {e \in Exits : exits[e].status \notin {"unminted", "removed"}}

Eligible(row) == \/ row.status \in {"unknown", "available"}
                 \/ row.status = "quarantined" /\ row.expired
Dispatchable == {e \in Listed : Eligible(exits[e])}

\* _probe_is_stale: there is no successful result within the TTL.
Stale(e) == ProbeTTL /\ ~exits[e].probed
Recent == {e \in Dispatchable : ~Stale(e)}

TunnelRows == Listed \ ManualExits

\* The rows a refill may replace.
BurnedTunnels == {e \in TunnelRows : exits[e].status = "burned"}

SetRow(e, row) == exits' = [exits EXCEPT ![e] = row]
SetJob(t, j) == attempt' = [attempt EXCEPT ![t] = j]
Step(t, s) == SetJob(t, [attempt[t] EXCEPT !.step = s])

-------------------------------------------------------------------------------
(* The health operations.  A row that is gone is left alone.               *)

\* record_success: whatever the row was, it is available.
SuccessRow(row) == [row EXCEPT !.status = "available", !.failures = 0,
                               !.expired = FALSE, !.probed = TRUE]

\* record_failure: at the limit the row is quarantined, whatever it was.
FailedRow(row) ==
  LET n == Lesser(FailureLimit, row.failures + 1)
  IN [row EXCEPT !.failures = n, !.probed = FALSE,
                 !.status = IF n >= FailureLimit THEN "quarantined" ELSE @,
                 !.expired = IF n >= FailureLimit THEN FALSE ELSE @]

\* record_challenge_burn.
BurnedRow(row) == [row EXCEPT !.status = "burned", !.failures = 0, !.expired = FALSE]

Reported(e, row) == exits' = IF e \in Listed THEN [exits EXCEPT ![e] = row] ELSE exits

\* A result that arrives after another task burned the exit.
InTime(e) == LateReports \/ exits[e].status # "burned"

-------------------------------------------------------------------------------
(* bind, with one exit requested and perform_probe FALSE.                  *)

\* A recent row is bound at once, under the lock.
BindRecent(t) ==
  /\ attempt[t].step = "idle"
  /\ \E e \in Recent : SetJob(t, [NoJob EXCEPT !.step = "working", !.exit = e])
  /\ UNCHANGED <<exits, burns, tripped, minter, resets>>

\* Otherwise the stale rows read by then are probed one by one, without the lock.
BindStale(t) ==
  /\ attempt[t].step = "idle"
  /\ Recent = {}
  /\ Dispatchable # {}
  /\ SetJob(t, [attempt[t] EXCEPT !.step = "reported", !.todo = Dispatchable])
  /\ UNCHANGED <<exits, burns, tripped, minter, resets>>

Probe(t) ==
  /\ attempt[t].step = "reported"
  /\ \E e \in attempt[t].todo :
       SetJob(t, [attempt[t] EXCEPT !.step = "probing", !.exit = e, !.todo = @ \ {e}])
  /\ UNCHANGED <<exits, burns, tripped, minter, resets>>

\* The row of a probe that passed may be gone; the lease that follows says so.
ProbePasses(t) ==
  /\ attempt[t].step = "probing"
  /\ InTime(attempt[t].exit)
  /\ Reported(attempt[t].exit, SuccessRow(exits[attempt[t].exit]))
  /\ SetJob(t, [NoJob EXCEPT !.step = IF attempt[t].exit \in Listed THEN "working" ELSE "ended",
                             !.exit = attempt[t].exit])
  /\ UNCHANGED <<burns, tripped, minter, resets>>

ProbeFails(t) ==
  /\ attempt[t].step = "probing"
  /\ InTime(attempt[t].exit)
  /\ Reported(attempt[t].exit, FailedRow(exits[attempt[t].exit]))
  /\ Step(t, "reported")
  /\ UNCHANGED <<burns, tripped, minter, resets>>

\* An answer that blames nobody (a 429, a business error) only skips the row.
ProbeSkipped(t) ==
  /\ attempt[t].step = "probing"
  /\ Step(t, "reported")
  /\ UNCHANGED <<exits, burns, tripped, minter, resets>>

\* record_burn: the breaker's burns, distinct exits within its window.
Burnt(e) == burns \cup {e}

\* The trip is sticky.
Trips(set) == tripped \/ Cardinality(set) >= BurnThreshold

\* A challenged candidate is retired; then the observer feeds the breaker
\* (_note_bind_challenge_burn), and the bind goes on with the next row.
ProbeChallenged(t) ==
  /\ attempt[t].step = "probing"
  /\ Reported(attempt[t].exit, BurnedRow(exits[attempt[t].exit]))
  /\ Step(t, "challenged")
  /\ UNCHANGED <<burns, tripped, minter, resets>>

NoteBurn(t) ==
  /\ attempt[t].step = "challenged"
  /\ burns' = Burnt(attempt[t].exit)
  /\ tripped' = Trips(Burnt(attempt[t].exit))
  /\ Step(t, "reported")
  /\ UNCHANGED <<exits, minter, resets>>

\* No row is left: the pool-empty error.  It leads to one refill and a
\* second bind (bind_with_pool_maintenance), after which the task fails.
BindEmpty(t) ==
  /\ \/ attempt[t].step = "idle" /\ Dispatchable = {}
     \/ attempt[t].step = "reported" /\ attempt[t].todo = {}
  /\ SetJob(t, [NoJob EXCEPT !.step = IF attempt[t].retried THEN "ended" ELSE "asking",
                             !.retried = TRUE])
  /\ UNCHANGED <<exits, burns, tripped, minter, resets>>

-------------------------------------------------------------------------------
(* A task that works through its exit.                                     *)

WorkEnds(t) == /\ attempt[t].step = "working"
               /\ Step(t, "ended")
               /\ UNCHANGED <<exits, burns, tripped, minter, resets>>

\* _record_proxy_failure: a transport failure of the task counts against its exit.
WorkFails(t) == /\ attempt[t].step = "working"
                /\ InTime(attempt[t].exit)
                /\ Reported(attempt[t].exit, FailedRow(exits[attempt[t].exit]))
                /\ Step(t, "ended")
                /\ UNCHANGED <<burns, tripped, minter, resets>>

\* _handle_challenge_failure: burn the row; feed the breaker; refill unless
\* the breaker is tripped by then.
WorkChallenged(t) == /\ attempt[t].step = "working"
                     /\ Reported(attempt[t].exit, BurnedRow(exits[attempt[t].exit]))
                     /\ Step(t, "burnt")
                     /\ UNCHANGED <<burns, tripped, minter, resets>>

FeedBreaker(t) == /\ attempt[t].step = "burnt"
                  /\ burns' = Burnt(attempt[t].exit)
                  /\ tripped' = Trips(Burnt(attempt[t].exit))
                  /\ SetJob(t, [NoJob EXCEPT !.step = IF tripped' THEN "ended" ELSE "asking",
                                             !.exit = attempt[t].exit])
                  /\ UNCHANGED <<exits, minter, resets>>

-------------------------------------------------------------------------------
(* _maintain_proxy_pool: the breaker is asked first, then the lock is taken. *)

AfterRefill(j) == IF j.retried THEN [NoJob EXCEPT !.retried = TRUE]
                  ELSE [NoJob EXCEPT !.step = "ended"]

AskBreaker(t) == /\ attempt[t].step = "asking"
                 /\ IF tripped THEN SetJob(t, AfterRefill(attempt[t])) ELSE Step(t, "cleared")
                 /\ UNCHANGED <<exits, burns, tripped, minter, resets>>

\* ensure_target reads the burned rows, the shortage and the room once.
Shortage == Greater(0, PoolTarget - Cardinality(Dispatchable))

\* mutant: the tunnel rows that are there already are not counted
RoomForAll == 2 * PoolTarget

Room == Greater(0, 2 * PoolTarget - Cardinality(TunnelRows \ BurnedTunnels))

MaintenanceFree == minter = NoTask

StartMinting(t) ==
  /\ attempt[t].step = "cleared"
  /\ MaintenanceFree
  /\ minter' = t
  /\ SetJob(t, [attempt[t] EXCEPT !.step = "minting", !.left = Lesser(Shortage, Room),
                                  !.spent = BurnedTunnels])
  /\ UNCHANGED <<exits, burns, tripped, resets>>

\* One mint: a fresh exit is imported, and only then is a burned one removed.
Minted(row) == [row EXCEPT !.status = "unknown"]
Removed(row) == [row EXCEPT !.status = "removed"]

Mint(t) ==
  /\ attempt[t].step = "minting"
  /\ attempt[t].left > 0
  /\ \E e \in Exits \ ManualExits :
       /\ exits[e].status = "unminted"
       /\ IF attempt[t].spent = {}
          THEN /\ SetRow(e, Minted(exits[e]))
               /\ SetJob(t, [attempt[t] EXCEPT !.left = @ - 1])
          ELSE \E b \in attempt[t].spent :
                 /\ exits' = [exits EXCEPT ![e] = Minted(@), ![b] = Removed(@)]
                 /\ SetJob(t, [attempt[t] EXCEPT !.left = @ - 1, !.spent = @ \ {b}])
  /\ UNCHANGED <<burns, tripped, minter, resets>>

\* The pass ends when it minted what was short, or when a mint fails.
StopMinting(t) == /\ attempt[t].step = "minting"
                  /\ minter' = NoTask
                  /\ SetJob(t, AfterRefill(attempt[t]))
                  /\ UNCHANGED <<exits, burns, tripped, resets>>

-------------------------------------------------------------------------------
(* Time and the operator.                                                  *)

QuarantineEnds(e) == /\ exits[e].status = "quarantined"
                     /\ ~exits[e].expired
                     /\ SetRow(e, [exits[e] EXCEPT !.expired = TRUE])
                     /\ UNCHANGED <<burns, tripped, minter, attempt, resets>>

ResultAges(e) == /\ exits[e].probed
                 /\ SetRow(e, [exits[e] EXCEPT !.probed = FALSE])
                 /\ UNCHANGED <<burns, tripped, minter, attempt, resets>>

\* _prune: a burn leaves the window; the trip stays.
BurnAges(e) == /\ e \in burns
               /\ burns' = burns \ {e}
               /\ UNCHANGED <<exits, tripped, minter, attempt, resets>>

Reset == /\ resets < MaxResets
         /\ resets' = resets + 1
         /\ burns' = {}
         /\ tripped' = FALSE
         /\ UNCHANGED <<exits, minter, attempt>>

ProxyTaskStep(t) == \/ BindRecent(t) \/ BindStale(t) \/ Probe(t) \/ ProbePasses(t) \/ ProbeFails(t)
                    \/ ProbeSkipped(t) \/ ProbeChallenged(t) \/ NoteBurn(t) \/ BindEmpty(t)
                    \/ WorkEnds(t) \/ WorkFails(t) \/ WorkChallenged(t) \/ FeedBreaker(t)
                    \/ AskBreaker(t) \/ StartMinting(t) \/ Mint(t) \/ StopMinting(t)

ProxyNext == \/ \E t \in ProxyTasks : ProxyTaskStep(t)
             \/ \E e \in Exits : QuarantineEnds(e) \/ ResultAges(e) \/ BurnAges(e)
             \/ Reset

ProxySpec == ProxyInit /\ [][ProxyNext]_poolRowVars

-------------------------------------------------------------------------------
\* Every variable has its type, and the maintenance lock is held by the task
\* that mints, and by it alone.
ProxyTypeOK == /\ exits \in [Exits -> ExitRow]
               /\ burns \subseteq Exits
               /\ tripped \in BOOLEAN
               /\ minter \in ProxyTasks \cup {NoTask}
               /\ attempt \in [ProxyTasks -> Job]
               /\ resets \in 0..MaxResets
               /\ \A t \in ProxyTasks : minter = t <=> attempt[t].step = "minting"

\* "Burned rows never participate in allocation again and never expire on
\* their own": a burned exit stays burned until a refill removes it.
BurnedIsForever ==
  [][\A e \in Exits : exits[e].status = "burned" => exits'[e].status \in {"burned", "removed"}]_poolRowVars

\* A refill removes only exits that are burned when it removes them, and never
\* one that was imported by hand.
RemovesOnlyBurned(e) ==
  exits'[e].status = "removed" /\ e \in Listed
     => exits[e].status = "burned" /\ e \notin ManualExits

\* A refill reads the burned exits and the room for new ones once, and mints while
\* other tasks burn, quarantine and probe exits: the live ones never exceed twice
\* the target, none is removed but a burned one, and none without a replacement.
RefillKeepsPool ==
  [][/\ \A e \in Exits : RemovesOnlyBurned(e)
     /\ Cardinality(Listed') >= Cardinality(Listed)
     /\ Cardinality((TunnelRows \ BurnedTunnels)') <= 2 * PoolTarget]_poolRowVars
===============================================================================
