------------------------------ MODULE LeaseTable ------------------------------
(***************************************************************************)
(* What the shared proxy pool promises of the leases of one proxy: a table *)
(* with one lease per task, in which only the task itself, time and the    *)
(* recovery of an interrupted task change its lease.  Nothing here is      *)
(* read, kept and written back later: every operation is one step.  The    *)
(* module ProxyLeases shows that the code's snapshots implement it.        *)
(***************************************************************************)
EXTENDS Naturals

CONSTANTS LeaseTasks,  \* the tasks that may lease the proxy
          LeaseTerm    \* how many ticks a new lease lasts

VARIABLES holder,  \* holder[t]: t believes that it holds a lease
          left     \* left[t]: ticks left of t's lease, 0 when it has none

tableVars == <<holder, left>>

TableInit == /\ holder = [t \in LeaseTasks |-> FALSE]
             /\ left = [t \in LeaseTasks |-> 0]

Take(t) == /\ ~holder[t]
           /\ \E n \in 1..LeaseTerm : left' = [left EXCEPT ![t] = n]
           /\ holder' = [holder EXCEPT ![t] = TRUE]

\* A renewal never shortens what is left.
Keep(t) == /\ holder[t]
           /\ \E n \in 1..LeaseTerm : n >= left[t] /\ left' = [left EXCEPT ![t] = n]
           /\ UNCHANGED holder

Give(t) == /\ holder[t]
           /\ holder' = [holder EXCEPT ![t] = FALSE]
           /\ left' = [left EXCEPT ![t] = 0]

\* The task's process is gone: its lease stays until it lapses or is reclaimed.
Vanish(t) == /\ holder[t]
             /\ holder' = [holder EXCEPT ![t] = FALSE]
             /\ UNCHANGED left

Reclaim(t) == /\ ~holder[t]
              /\ left' = [left EXCEPT ![t] = 0]
              /\ UNCHANGED holder

\* The lease of a task that believes in it never lapses.
Age == /\ \A t \in LeaseTasks : holder[t] => left[t] # 1
       /\ left' = [t \in LeaseTasks |-> IF left[t] = 0 THEN 0 ELSE left[t] - 1]
       /\ UNCHANGED holder

TableNext == \/ \E t \in LeaseTasks : Take(t) \/ Keep(t) \/ Give(t) \/ Vanish(t) \/ Reclaim(t)
             \/ Age

TableSpec == TableInit /\ [][TableNext]_tableVars
===============================================================================
