------------------------------ MODULE ProxyLeases ------------------------------
(***************************************************************************)
(* The leases of one row of the shared Free proxy pool (free_proxy_store,  *)
(* SQLiteFreeProxyPool).  Every operation of the pool loads all rows,      *)
(* edits its copy and saves the copy back; the pool's lock makes that one  *)
(* step within a process, but nothing does between processes.  _save       *)
(* therefore merges the copy with the leases the table holds by then.      *)
(*                                                                         *)
(* Each task runs in a process of its own, the case the merge is for.  An  *)
(* operation has two steps: the load, which keeps a snapshot, and the      *)
(* commit.  Times are ticks left, so that a copy ages as the table does.   *)
(***************************************************************************)
EXTENDS Common

CONSTANTS LeaseTasks,   \* the tasks, each the one of its process
          LeaseTerm,    \* ticks a lease lasts (180 s in the code)
          MaxVanished   \* how many processes may die

ASSUME LeaseTermAssumption == LeaseTerm \in Nat \ {0}
ASSUME MaxVanishedAssumption == MaxVanished \in Nat

VARIABLES table,    \* table[t]: ticks left of t's lease in resource_leases, or NoRow
          stage,    \* stage[t]: how far the task is with its lease
          pending,  \* pending[t]: the operation t's process has loaded rows for
          vanished  \* processes that died (bounded by MaxVanished)

leaseVars == <<table, stage, pending, vanished>>

NoRow == 0 - 1
Left == 0..LeaseTerm
Entry == {NoRow} \cup Left
Stages == {"new", "working", "done", "dead"}
Kinds == {"idle", "lease", "heartbeat", "release", "report"}

NoCopy == [t \in LeaseTasks |-> NoRow]
IdleStage == [kind |-> "idle", seen |-> NoCopy, wanted |-> NoCopy, moved |-> FALSE]

\* One operation between its load and its commit: the leases it saw, the
\* leases its copy asks for, and whether the row's revision moved since.
Operation == [kind : Kinds, seen : [LeaseTasks -> Entry],
              wanted : [LeaseTasks -> Entry], moved : BOOLEAN]

LeaseInit == /\ table = NoCopy
             /\ stage = [t \in LeaseTasks |-> "new"]
             /\ pending = [t \in LeaseTasks |-> IdleStage]
             /\ vanished = 0

-------------------------------------------------------------------------------
\* _load reads the leases that have not expired.
Loaded == [t \in LeaseTasks |-> IF table[t] > 0 THEN table[t] ELSE NoRow]

Start(t, kind, wanted) ==
  /\ pending[t].kind = "idle"
  /\ pending' = [pending EXCEPT ![t] = [kind |-> kind, seen |-> Loaded,
                                        wanted |-> wanted, moved |-> FALSE]]
  /\ UNCHANGED <<table, stage, vanished>>

\* FreeProxyPool.lease: the copy gets a lease of the whole term for the task.
StartLease(t) == /\ stage[t] = "new"
                 /\ Start(t, "lease", [Loaded EXCEPT ![t] = LeaseTerm])

\* heartbeat, heartbeat_batch: only a lease that is still active is renewed.
StartHeartbeat(t) == /\ stage[t] = "working"
                     /\ table[t] > 0
                     /\ Start(t, "heartbeat", [Loaded EXCEPT ![t] = LeaseTerm])

\* release: the copy loses the task's lease.  (Nothing is saved if it had none,
\* which a working task has: WorkingHoldsLease.)
StartRelease(t) == /\ stage[t] = "working"
                   /\ table[t] > 0
                   /\ Start(t, "release", [Loaded EXCEPT ![t] = NoRow])

\* record_success, record_failure, record_challenge_burn, annotate_window,
\* update_group: the leases of the copy are those of the load.
StartReport(t) == /\ stage[t] # "dead"
                  /\ Start(t, "report", Loaded)

-------------------------------------------------------------------------------
(* _save, for one row: what becomes of the lease of task o when operation  *)
(* op commits.                                                             *)

\* A lease the load saw and somebody released since is not brought back.
Renewed(op, o) == /\ op.wanted[o] > 0
                  /\ ~(op.moved /\ op.seen[o] # NoRow /\ table[o] = NoRow)

\* mutant: a lease that was renewed after the load is dropped
WithheldRenewed(op, o) == op.seen[o] # NoRow \/ table[o] = 0

\* A lease the load saw is dropped if nobody renewed it since, one it did not see stays.
Withheld(op, o) == \/ op.seen[o] # NoRow /\ table[o] <= op.seen[o]
                   \/ table[o] = 0

\* A renewal is never shortened.
Longer(op, o) == Greater(table[o], op.wanted[o])

MergedLease(op, o) == IF Renewed(op, o) THEN Longer(op, o)
                      ELSE IF table[o] # NoRow /\ Withheld(op, o) THEN NoRow
                      ELSE table[o]

Merged(op) == [o \in LeaseTasks |-> MergedLease(op, o)]

StageAfter(t) == CASE pending[t].kind = "lease" -> "working"
                   [] pending[t].kind = "release" -> "done"
                   [] OTHER -> stage[t]

\* A write moves the revision that every other process loaded.
Moved(mine) == [t \in LeaseTasks |->
                  IF t = mine \/ pending[t].kind = "idle" THEN IdleStage
                  ELSE [pending[t] EXCEPT !.moved = TRUE]]

Commit(t) == /\ pending[t].kind # "idle"
             /\ table' = Merged(pending[t])
             /\ stage' = [stage EXCEPT ![t] = StageAfter(t)]
             /\ pending' = Moved(t)
             /\ UNCHANGED vanished

\* A task that switches back to the proxy leases it again.
Again(t) == /\ stage[t] = "done"
            /\ pending[t].kind = "idle"
            /\ stage' = [stage EXCEPT ![t] = "new"]
            /\ UNCHANGED <<table, pending, vanished>>

\* The process dies: what it loaded is lost.
Vanishes(t) == /\ stage[t] # "dead"
               /\ vanished < MaxVanished
               /\ vanished' = vanished + 1
               /\ stage' = [stage EXCEPT ![t] = "dead"]
               /\ pending' = [pending EXCEPT ![t] = IdleStage]
               /\ UNCHANGED table

\* release_proxy_leases: recovery deletes the lease of an interrupted owner
\* and moves the row's revision.
Reclaims(t) == /\ stage[t] = "dead"
               /\ table[t] # NoRow
               /\ table' = [table EXCEPT ![t] = NoRow]
               /\ pending' = Moved(t)
               /\ UNCHANGED <<stage, vanished>>

TickOff(n) == IF n = NoRow THEN NoRow ELSE OneLess(n)
Aged(copy) == [t \in LeaseTasks |-> TickOff(copy[t])]

\* The task's process is prompt: its heartbeat comes in time (every minute of
\* three), and its own write reaches the table before the lease it asks for ends.
Prompt(t) == /\ stage[t] = "working" => table[t] # 1
             /\ pending[t].kind \in {"lease", "heartbeat"} => pending[t].wanted[t] # 1

Ages == /\ \A t \in LeaseTasks : Prompt(t)
        /\ table' = Aged(table)
        /\ pending' = [t \in LeaseTasks |->
                         [pending[t] EXCEPT !.seen = Aged(@), !.wanted = Aged(@)]]
        /\ UNCHANGED <<stage, vanished>>

LeaseNext == \/ \E t \in LeaseTasks :
                  \/ StartLease(t) \/ StartHeartbeat(t) \/ StartRelease(t)
                  \/ StartReport(t) \/ Commit(t) \/ Again(t) \/ Vanishes(t) \/ Reclaims(t)
             \/ Ages

LeaseSpec == LeaseInit /\ [][LeaseNext]_leaseVars

-------------------------------------------------------------------------------
\* Every variable has its type; a task that is not working waits for nothing
\* but a lease or a report.
LeaseTypeOK == /\ table \in [LeaseTasks -> Entry]
               /\ stage \in [LeaseTasks -> Stages]
               /\ pending \in [LeaseTasks -> Operation]
               /\ vanished \in 0..MaxVanished

\* Whatever copies other processes write back, a working task keeps its lease.
WorkingHoldsLease == \A t \in LeaseTasks : stage[t] = "working" => table[t] > 0

\* Whatever copies other processes write back, a lease that was released does
\* not come back.
ReleasedStaysReleased == \A t \in LeaseTasks : stage[t] = "done" => table[t] = NoRow

\* The store implements the table of leases in which every operation is one
\* step: only the task, time and recovery change its lease.
Believing == [t \in LeaseTasks |-> stage[t] = "working"]
TicksLeft == [t \in LeaseTasks |-> IF table[t] = NoRow THEN 0 ELSE table[t]]
Promise == INSTANCE LeaseTable WITH holder <- Believing, left <- TicksLeft

LeasesAreATable == Promise!TableSpec
===============================================================================
