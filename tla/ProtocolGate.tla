---------------------------- MODULE ProtocolGate ----------------------------
(***************************************************************************)
(* The protocol gate of one proxy: _ProxyProtocolState and what every      *)
(* method of ProxyProtocolGate makes of it.  Each method runs under the    *)
(* gate's condition, so each is one operator on the record:                *)
(*                                                                         *)
(*   active, limit   requests inside, and how many may be                  *)
(*   streak          successes since the last setback                      *)
(*   expansion       the limit may grow towards the ceiling                *)
(*   recovery        a full streak is owed before it may                   *)
(*   sticky          no more growth in this batch                          *)
(*   paused          nobody is admitted                                    *)
(*   cut             ... because of an outage (connectivity_paused)        *)
(*   cooling         ... because of an HTTP 429: pause_until is zero       *)
(*                   (no), ahead (on) or past and not yet noticed (over)   *)
(*   outages         outages of this batch; only "two or more" is told     *)
(*                   apart                                                 *)
(*   spaced          launch_interval_seconds since the last admission      *)
(***************************************************************************)
EXTENDS Integers

CONSTANTS
    Baseline,           \* limit of begin_run
    Ceiling,            \* healthy_ceiling
    RestoreSuccesses    \* restore_successes

ASSUME GateAssumption ==
    /\ Baseline \in Nat \ {0}
    /\ Ceiling \in Nat /\ Ceiling >= Baseline
    /\ RestoreSuccesses \in Nat \ {0}

Gate == [active : Nat, limit : Baseline .. Ceiling, streak : 0 .. RestoreSuccesses - 1,
         expansion : BOOLEAN, recovery : BOOLEAN, sticky : BOOLEAN,
         paused : BOOLEAN, cut : BOOLEAN, cooling : {"no", "on", "over"},
         outages : 0 .. 2, spaced : BOOLEAN]

\* begin_run keeps the requests that are inside.
FreshGate(active) ==
    [active |-> active, limit |-> Baseline, streak |-> 0,
     expansion |-> Ceiling > Baseline, recovery |-> FALSE, sticky |-> FALSE,
     paused |-> FALSE, cut |-> FALSE, cooling |-> "no", outages |-> 0, spaced |-> TRUE]

\* mutant: the end of a cooldown lifts every pause
ClearedAll(g) ==
    IF g.cooling # "over" THEN g
    ELSE [g EXCEPT !.cooling = "no", !.paused = FALSE, !.limit = Baseline, !.streak = 0]

\* _clear_expired_pause_locked
Cleared(g) ==
    IF g.cooling # "over" THEN g
    ELSE [g EXCEPT !.cooling = "no", !.paused = g.cut, !.limit = Baseline, !.streak = 0]

\* guard_expansion: back to the baseline, growth only after a full streak
Guarded(g) ==
    [g EXCEPT !.limit = Baseline, !.streak = 0, !.expansion = FALSE, !.recovery = ~g.sticky]

\* pause_connectivity; the second outage of a batch is counted as one too many
Cut(g, counted) ==
    LET c == Cleared(g)
        n == IF counted /\ ~c.cut /\ c.outages < 2 THEN c.outages + 1 ELSE c.outages
    IN  [Guarded([c EXCEPT !.sticky = @ \/ n = 2])
           EXCEPT !.outages = n, !.cut = TRUE, !.paused = TRUE]

\* resume_connectivity: an active cooldown stays
Restored(g) ==
    [Guarded(Cleared(g)) EXCEPT !.cut = FALSE, !.paused = g.cooling = "on"]

\* report of an HTTP 429
RateLimited(g) ==
    [Cleared(g) EXCEPT !.limit = Baseline, !.streak = 0, !.expansion = FALSE,
                       !.recovery = FALSE, !.sticky = TRUE, !.paused = TRUE, !.cooling = "on"]

\* report of any other failure
Failed(g) == [Cleared(g) EXCEPT !.streak = 0]

Counts(g)    == ~Cleared(g).paused /\ ~g.sticky
Full(g)      == Counts(g) /\ Cleared(g).streak + 1 >= RestoreSuccesses
\* recovery_qualified: this success repays the recovery
Qualifies(g) == Full(g) /\ g.recovery

\* report of a success
Succeeded(g) ==
    LET c == Cleared(g)
        e == IF g.recovery THEN Ceiling > Baseline ELSE c.expansion
    IN  IF ~Counts(g) THEN c
        ELSE IF ~Full(g) THEN [c EXCEPT !.streak = @ + 1]
        ELSE [c EXCEPT !.recovery = FALSE, !.expansion = e, !.streak = 0,
                       !.limit = IF e /\ @ < Ceiling THEN @ + 1 ELSE @]

\* acquire: one look of a waiter at the gate, and leaving it
Admits(g)   == LET c == Cleared(g) IN ~c.paused /\ c.active < c.limit /\ c.spaced
Admitted(g) == [Cleared(g) EXCEPT !.active = @ + 1, !.spaced = FALSE]
RoomLeft(g)     == [g EXCEPT !.active = IF @ = 0 THEN 0 ELSE @ - 1]
=============================================================================
