---------------------- MODULE ConnectivityGuardProofs ----------------------
(***************************************************************************)
(* What is proved of ConnectivityGuard for every number of requests,       *)
(* origins, failures, probe rounds and slots.                              *)
(*                                                                         *)
(* The first lemmas are about the operators of ProtocolGate: each keeps    *)
(* what a gate is (SoundGate), counts slots as it should and touches the   *)
(* outage mark only if it is about outages.  The steps of the guard then   *)
(* never open them up.                                                     *)
(***************************************************************************)
EXTENDS ConnectivityGuard, FiniteSetTheorems, TLAPS

-----------------------------------------------------------------------------
(* A gate stays a gate when a field is given one of its values.            *)

LEMMA SetActive == ASSUME NEW g \in Gate, NEW v \in Nat PROVE [g EXCEPT !.active = v] \in Gate
BY DEF Gate

LEMMA SetLimit == ASSUME NEW g \in Gate, NEW v \in Baseline .. Ceiling PROVE [g EXCEPT !.limit = v] \in Gate
BY DEF Gate

LEMMA SetStreak == ASSUME NEW g \in Gate, NEW v \in 0 .. RestoreSuccesses - 1 PROVE [g EXCEPT !.streak = v] \in Gate
BY DEF Gate

LEMMA SetExpansion == ASSUME NEW g \in Gate, NEW v \in BOOLEAN PROVE [g EXCEPT !.expansion = v] \in Gate
BY DEF Gate

LEMMA SetRecovery == ASSUME NEW g \in Gate, NEW v \in BOOLEAN PROVE [g EXCEPT !.recovery = v] \in Gate
BY DEF Gate

LEMMA SetSticky == ASSUME NEW g \in Gate, NEW v \in BOOLEAN PROVE [g EXCEPT !.sticky = v] \in Gate
BY DEF Gate

LEMMA SetPaused == ASSUME NEW g \in Gate, NEW v \in BOOLEAN PROVE [g EXCEPT !.paused = v] \in Gate
BY DEF Gate

LEMMA SetCut == ASSUME NEW g \in Gate, NEW v \in BOOLEAN PROVE [g EXCEPT !.cut = v] \in Gate
BY DEF Gate

LEMMA SetCooling == ASSUME NEW g \in Gate, NEW v \in {"no", "on", "over"} PROVE [g EXCEPT !.cooling = v] \in Gate
BY DEF Gate

LEMMA SetOutages == ASSUME NEW g \in Gate, NEW v \in 0 .. 2 PROVE [g EXCEPT !.outages = v] \in Gate
BY DEF Gate

LEMMA SetSpaced == ASSUME NEW g \in Gate, NEW v \in BOOLEAN PROVE [g EXCEPT !.spaced = v] \in Gate
BY DEF Gate

LEMMA Fields ==
    ASSUME NEW g \in Gate
    PROVE  /\ g.active \in Nat /\ g.limit \in Baseline .. Ceiling /\ g.streak \in 0 .. RestoreSuccesses - 1
           /\ g.expansion \in BOOLEAN /\ g.recovery \in BOOLEAN /\ g.sticky \in BOOLEAN
           /\ g.paused \in BOOLEAN /\ g.cut \in BOOLEAN /\ g.cooling \in {"no", "on", "over"}
           /\ g.outages \in 0 .. 2 /\ g.spaced \in BOOLEAN
BY DEF Gate

LEMMA Values ==
    /\ Baseline \in Baseline .. Ceiling /\ 0 \in 0 .. RestoreSuccesses - 1
    /\ (Ceiling > Baseline) \in BOOLEAN
BY GateAssumption

-----------------------------------------------------------------------------
(* The operators of the gate.                                              *)

\* A gate is paused for a reason, and past growing only at its baseline.
SoundGate(g) ==
    /\ g \in Gate
    /\ g.paused = (g.cut \/ g.cooling # "no")
    /\ g.sticky => g.limit = Baseline /\ ~g.expansion /\ ~g.recovery

LEMMA FreshIsSound ==
    ASSUME NEW n \in Nat
    PROVE  SoundGate(FreshGate(n)) /\ FreshGate(n).active = n /\ ~FreshGate(n).cut
<1>1. FreshGate(n) \in Gate
  BY GateAssumption DEF FreshGate, Gate
<1>2. QED
  BY <1>1 DEF SoundGate, FreshGate

LEMMA ClearedIsSound ==
    ASSUME NEW g, SoundGate(g)
    PROVE  /\ SoundGate(Cleared(g)) /\ Cleared(g).active = g.active /\ Cleared(g).cut = g.cut
           /\ Cleared(g).sticky = g.sticky
<1>1. g \in Gate
  BY DEF SoundGate
<1>2. Cleared(g) \in Gate
  BY <1>1, Fields, Values, SetLimit, SetStreak, SetCooling, SetPaused DEF Cleared
<1>3. QED
  BY <1>1, <1>2 DEF SoundGate, Cleared, Gate

LEMMA GuardedIsSound ==
    ASSUME NEW g, SoundGate(g)
    PROVE  SoundGate(Guarded(g)) /\ Guarded(g).active = g.active /\ Guarded(g).cut = g.cut
<1>1. g \in Gate
  BY DEF SoundGate
<1>2. Guarded(g) \in Gate
  BY <1>1, Values, SetLimit, SetStreak, SetExpansion, SetRecovery DEF Guarded
<1>3. QED
  BY <1>1, <1>2 DEF SoundGate, Guarded, Gate

LEMMA CutIsSound ==
    ASSUME NEW g, SoundGate(g), NEW counted \in BOOLEAN
    PROVE  SoundGate(Cut(g, counted)) /\ Cut(g, counted).active = g.active /\ Cut(g, counted).cut
<1> DEFINE c == Cleared(g)
           n == IF counted /\ ~c.cut /\ c.outages < 2 THEN c.outages + 1 ELSE c.outages
           s == [c EXCEPT !.sticky = @ \/ n = 2]
           d == Guarded(s)
<1>1. SoundGate(c) /\ c \in Gate /\ c.active = g.active
  BY ClearedIsSound DEF SoundGate
<1> HIDE DEF c
<1>2. n \in 0 .. 2
  BY <1>1 DEF Gate
<1> HIDE DEF n
<1>3. s \in Gate /\ s.active = c.active /\ s.cooling = c.cooling
  BY <1>1, Fields, SetSticky DEF Gate
<1> HIDE DEF s
<1>4. /\ d \in Gate /\ d.active = s.active /\ d.cooling = s.cooling
      /\ d.limit = Baseline /\ ~d.expansion /\ (d.sticky => ~d.recovery)
<2>1. d \in Gate
  BY <1>3, Values, SetLimit, SetStreak, SetExpansion, SetRecovery DEF Guarded
<2>2. QED
  BY <1>3, <2>1 DEF Guarded, Gate
<1>5. Cut(g, counted) = [d EXCEPT !.outages = n, !.cut = TRUE, !.paused = TRUE]
  BY DEF Cut, c, n, s
<1> HIDE DEF d
<1>6. Cut(g, counted) \in Gate
  BY <1>2, <1>4, <1>5, SetOutages, SetCut, SetPaused
<1>7. /\ Cut(g, counted).active = d.active /\ Cut(g, counted).cut /\ Cut(g, counted).paused
      /\ Cut(g, counted).sticky = d.sticky /\ Cut(g, counted).limit = d.limit
      /\ Cut(g, counted).expansion = d.expansion /\ Cut(g, counted).recovery = d.recovery
  BY <1>4, <1>5 DEF Gate
<1>8. QED
  BY <1>1, <1>3, <1>4, <1>6, <1>7 DEF SoundGate

LEMMA RestoredIsSound ==
    ASSUME NEW g, SoundGate(g)
    PROVE  SoundGate(Restored(g)) /\ Restored(g).active = g.active /\ ~Restored(g).cut
<1> DEFINE d == Guarded(Cleared(g))
<1>1. SoundGate(d) /\ d.active = g.active /\ d \in Gate
  BY ClearedIsSound, GuardedIsSound DEF SoundGate
<1>2. g \in Gate /\ (d.cooling # "no" <=> g.cooling = "on")
  BY DEF SoundGate, Guarded, Cleared, Gate
<1>3. Restored(g) = [d EXCEPT !.cut = FALSE, !.paused = g.cooling = "on"]
  BY DEF Restored
<1> HIDE DEF d
<1>4. Restored(g) \in Gate
  BY <1>1, <1>3, SetCut, SetPaused
<1>5. QED
  BY <1>1, <1>2, <1>3, <1>4 DEF SoundGate, Gate

LEMMA FailedIsSound ==
    ASSUME NEW g, SoundGate(g)
    PROVE  SoundGate(Failed(g)) /\ Failed(g).active = g.active /\ Failed(g).cut = g.cut
<1>1. SoundGate(Cleared(g)) /\ Cleared(g).active = g.active /\ Cleared(g).cut = g.cut
  BY ClearedIsSound
<1>2. Failed(g) \in Gate
  BY <1>1, Values, SetStreak DEF Failed, SoundGate
<1>3. QED
  BY <1>1, <1>2 DEF SoundGate, Failed, Gate

LEMMA RateLimitedIsSound ==
    ASSUME NEW g, SoundGate(g)
    PROVE  SoundGate(RateLimited(g)) /\ RateLimited(g).active = g.active /\ RateLimited(g).cut = g.cut
<1>1. SoundGate(Cleared(g)) /\ Cleared(g).active = g.active /\ Cleared(g).cut = g.cut
  BY ClearedIsSound
<1>2. RateLimited(g) \in Gate
  BY <1>1, Values, SetLimit, SetStreak, SetExpansion, SetRecovery, SetSticky, SetPaused, SetCooling
     DEF RateLimited, SoundGate
<1>3. QED
  BY <1>1, <1>2 DEF SoundGate, RateLimited, Gate

LEMMA SucceededIsSound ==
    ASSUME NEW g, SoundGate(g)
    PROVE  SoundGate(Succeeded(g)) /\ Succeeded(g).active = g.active /\ Succeeded(g).cut = g.cut
<1> DEFINE c == Cleared(g)
           e == IF g.recovery THEN Ceiling > Baseline ELSE c.expansion
           l == IF e /\ c.limit < Ceiling THEN c.limit + 1 ELSE c.limit
<1>1. SoundGate(c) /\ c \in Gate /\ c.active = g.active /\ c.cut = g.cut /\ c.sticky = g.sticky
  BY ClearedIsSound DEF SoundGate
<1>2. CASE ~Counts(g)
  BY <1>1, <1>2 DEF Succeeded
<1>3. CASE Counts(g) /\ ~Full(g)
  <2>1. Succeeded(g) = [c EXCEPT !.streak = @ + 1] /\ ~c.sticky
    BY <1>1, <1>3 DEF Succeeded, Counts
  <2>2. c.streak + 1 \in 0 .. RestoreSuccesses - 1
    BY <1>1, <1>3, Fields, GateAssumption DEF Full
  <2> HIDE DEF c
  <2>3. Succeeded(g) \in Gate
    BY <1>1, <2>1, <2>2, SetStreak
  <2>4. QED
    BY <1>1, <2>1, <2>3 DEF SoundGate, Gate
<1>4. CASE Full(g)
  <2>1. /\ Succeeded(g) = [c EXCEPT !.recovery = FALSE, !.expansion = e, !.streak = 0, !.limit = l]
        /\ ~c.sticky
    BY <1>1, <1>4 DEF Succeeded, Full, Counts
  <2> HIDE DEF c
  <2>2. e \in BOOLEAN
    BY <1>1, Fields, Values DEF SoundGate
  <2> HIDE DEF e
  <2>3. l \in Baseline .. Ceiling
    <3>1. c.limit \in Baseline .. Ceiling
      BY <1>1, Fields
    <3>2. c.limit < Ceiling => c.limit + 1 \in Baseline .. Ceiling
      BY <3>1, GateAssumption
    <3>3. QED
      BY <3>1, <3>2, Zenon
  <2> HIDE DEF l
  <2>4. Succeeded(g) \in Gate
    <3>1. [c EXCEPT !.recovery = FALSE, !.expansion = e] \in Gate
      BY <1>1, <2>2, SetRecovery, SetExpansion
    <3>2. [c EXCEPT !.recovery = FALSE, !.expansion = e, !.streak = 0] \in Gate
      BY <3>1, Values, SetStreak
    <3>3. QED
      BY <3>2, <2>1, <2>3, SetLimit
  <2>5. /\ Succeeded(g).active = c.active /\ Succeeded(g).cut = c.cut
        /\ Succeeded(g).paused = c.paused /\ Succeeded(g).cooling = c.cooling
        /\ Succeeded(g).sticky = c.sticky
    BY <1>1, <2>1 DEF Gate
  <2>6. QED
    BY <1>1, <2>1, <2>4, <2>5 DEF SoundGate
<1>5. QED
  BY <1>2, <1>3, <1>4

LEMMA AdmittedIsSound ==
    ASSUME NEW g, SoundGate(g)
    PROVE  SoundGate(Admitted(g)) /\ Admitted(g).active = g.active + 1 /\ Admitted(g).cut = g.cut
<1>1. SoundGate(Cleared(g)) /\ Cleared(g).active = g.active /\ Cleared(g).cut = g.cut
  BY ClearedIsSound
<1>2. Cleared(g).active + 1 \in Nat
  BY <1>1, Fields DEF SoundGate
<1>3. Admitted(g) \in Gate
  BY <1>1, <1>2, SetActive, SetSpaced DEF Admitted, SoundGate
<1>4. QED
  BY <1>1, <1>3 DEF SoundGate, Admitted, Gate

LEMMA LeftIsSound ==
    ASSUME NEW g, SoundGate(g)
    PROVE  /\ SoundGate(RoomLeft(g)) /\ RoomLeft(g).cut = g.cut
           /\ g.active > 0 => RoomLeft(g).active = g.active - 1
<1>1. g \in Gate
  BY DEF SoundGate
<1>2. (IF g.active = 0 THEN 0 ELSE g.active - 1) \in Nat
  BY <1>1, Fields
<1>3. RoomLeft(g) \in Gate
  BY <1>1, <1>2, SetActive DEF RoomLeft
<1>4. QED
  BY <1>1, <1>3 DEF SoundGate, RoomLeft, Gate

\* Time: a cooldown runs out, the spacing passes.
LEMMA TimeIsSound ==
    ASSUME NEW g, SoundGate(g)
    PROVE  /\ SoundGate([g EXCEPT !.spaced = TRUE])
           /\ g.cooling = "on" => SoundGate([g EXCEPT !.cooling = "over"])
<1>1. [g EXCEPT !.spaced = TRUE] \in Gate /\ [g EXCEPT !.cooling = "over"] \in Gate
  BY SetSpaced, SetCooling DEF SoundGate
<1>2. QED
  BY <1>1 DEF SoundGate, Gate

-----------------------------------------------------------------------------
(* What the steps do to the gate.                                          *)

LEMMA GateStaysSound ==
    ASSUME SoundGate(gate), [GuardNext]_guardVars
    PROVE  SoundGate(gate')
<1>0. gate.active \in Nat
  BY Fields DEF SoundGate
<1>1. CASE BeginRun
  BY <1>0, <1>1, FreshIsSound DEF BeginRun
<1>2. CASE Synchronize
  BY <1>2, CutIsSound DEF Synchronize
<1>3. CASE Stop \/ Finish \/ Reroute \/ SwitchRead \/ SwitchSet \/ UNCHANGED guardVars
  BY <1>3 DEF Stop, Finish, Reroute, SwitchRead, SwitchSet, guardVars
<1>4. CASE Restart
  BY <1>4, FreshIsSound DEF Restart
<1>5. CASE \E r \in Requests : Request(r) \/ RequestStep(r)
  <2>1. PICK r \in Requests : Request(r) \/ RequestStep(r)
    BY <1>5
  <2>2. CASE Poll(r)
    BY <2>2, AdmittedIsSound, ClearedIsSound DEF Poll
  <2>3. CASE NotifyOutage(r)
    BY <2>3, CutIsSound DEF NotifyOutage
  <2>4. CASE ApplyDecision(r)
    BY <2>4, CutIsSound, GuardedIsSound DEF ApplyDecision
  <2>5. CASE ApplySuspension(r) \/ ReportSuccess(r) \/ ReportLimit(r) \/ Leave(r)
    BY <2>5, FailedIsSound, SucceededIsSound, RateLimitedIsSound, LeftIsSound
       DEF ApplySuspension, ReportSuccess, ReportLimit, Leave
  <2>6. CASE \/ Request(r) \/ StopWaiting(r) \/ Capture(r) \/ Ignored(r) \/ ObserveSuccess(r)
             \/ ObserveLimit(r) \/ ObserveFailure(r) \/ StartProbes(r) \/ ResumeInflight(r)
    BY <2>6 DEF Request, StopWaiting, Capture, Ignored, ObserveSuccess, ObserveLimit,
                ObserveFailure, StartProbes, ResumeInflight
  <2>7. QED
    BY <2>1, <2>2, <2>3, <2>4, <2>5, <2>6 DEF RequestStep
<1>6. CASE ProbeStep
  BY <1>6, RestoredIsSound
     DEF ProbeStep, ProbeRound, ProbeDropped, ProbeFailed, ProbeSucceeded, NotifyRecovery, ProbeLeaves
<1>7. CASE SwitchResume
  BY <1>7, RestoredIsSound DEF SwitchResume
<1>8. CASE \E o \in Origins : WindowPasses(o)
  BY <1>8 DEF WindowPasses
<1>9. CASE CooldownPasses \/ SpacingPasses
  BY <1>9, TimeIsSound DEF CooldownPasses, SpacingPasses
<1>10. QED
  BY <1>1, <1>2, <1>3, <1>4, <1>5, <1>6, <1>7, <1>8, <1>9 DEF GuardNext

\* A paused gate has its reason, whatever ends first (protocol_concurrency.py: a
\* recovery does not clear an active cooldown), and after a 429 or a second outage
\* nothing makes it grow again in its batch (sticky_constrained).
THEOREM ReasonsKept == GuardSpec => []GateKeepsReasons
<1>1. GuardInit => SoundGate(gate)
  BY FreshIsSound DEF GuardInit
<1>2. SoundGate(gate) /\ [GuardNext]_guardVars => SoundGate(gate)'
  <2>1. SUFFICES ASSUME SoundGate(gate), [GuardNext]_guardVars PROVE SoundGate(gate')
    BY DEF SoundGate
  <2>2. QED
    BY <2>1, GateStaysSound
<1>3. SoundGate(gate) => GateKeepsReasons
  BY DEF SoundGate, GateKeepsReasons
<1>4. QED
  BY <1>1, <1>2, <1>3, PTL DEF GuardSpec

-----------------------------------------------------------------------------
(* The guard and its prober.                                               *)

\* Only an enabled guard is paused.  Rounds counted while it is were clean, and a round
\* whose generation is current was not disturbed.
ProbeSound ==
    /\ guard.paused => guard.enabled /\ probe.clean = guard.rounds
    /\ probe.fresh => ~probe.disturbed

Places == {"idle", "waiting"} \cup Inside
RequestRecord == [at : Places, fresh : BOOLEAN, cancels : BOOLEAN]
GuardRecord == [enabled : BOOLEAN, paused : BOOLEAN, failures : [Origins -> 0 .. Threshold], rounds : 0 .. RecoveryRounds]
ProbeRecord == [worker : {"none", "loop", "asking", "leaving"}, fresh : BOOLEAN, disturbed : BOOLEAN, clean : 0 .. RecoveryRounds]

RequestType == request \in [Requests -> RequestRecord]
GuardType   == guard \in GuardRecord
ProbeType   == probe \in ProbeRecord
RestType ==
    /\ inflight \in {"none", "expanded", "suspended", "rolledback"}
    /\ callback \in {"none", "outage", "recovery"}
    /\ switch \in [at : {"idle", "read", "set"}, was : BOOLEAN, target : BOOLEAN]
    /\ run \in {"off", "starting", "synced", "on", "stopping"}

ProberInv == GuardType /\ ProbeType /\ RestType /\ ProbeSound /\ OutageHasWorker

\* Records stay records when a field is given one of its values.
LEMMA RequestFields ==
    ASSUME NEW x \in RequestRecord
    PROVE  /\ \A p \in Places : [x EXCEPT !.at = p] \in RequestRecord
           /\ \A b \in BOOLEAN : [x EXCEPT !.fresh = b] \in RequestRecord
           /\ \A b \in BOOLEAN : [x EXCEPT !.cancels = b] \in RequestRecord
BY DEF RequestRecord

LEMMA GuardFields ==
    ASSUME NEW g \in GuardRecord
    PROVE  /\ \A b \in BOOLEAN : [g EXCEPT !.enabled = b] \in GuardRecord
           /\ \A b \in BOOLEAN : [g EXCEPT !.paused = b] \in GuardRecord
           /\ \A f \in [Origins -> 0 .. Threshold] : [g EXCEPT !.failures = f] \in GuardRecord
           /\ \A o \in Origins, n \in 0 .. Threshold : [g EXCEPT !.failures[o] = n] \in GuardRecord
           /\ \A n \in 0 .. RecoveryRounds : [g EXCEPT !.rounds = n] \in GuardRecord
           /\ g.failures \in [Origins -> 0 .. Threshold] /\ g.rounds \in 0 .. RecoveryRounds
BY DEF GuardRecord

LEMMA ProbeFields ==
    ASSUME NEW x \in ProbeRecord
    PROVE  /\ \A w \in {"none", "loop", "asking", "leaving"} : [x EXCEPT !.worker = w] \in ProbeRecord
           /\ \A b \in BOOLEAN : [x EXCEPT !.fresh = b] \in ProbeRecord
           /\ \A b \in BOOLEAN : [x EXCEPT !.disturbed = b] \in ProbeRecord
           /\ \A n \in 0 .. RecoveryRounds : [x EXCEPT !.clean = n] \in ProbeRecord
           /\ x.worker \in {"none", "loop", "asking", "leaving"} /\ x.fresh \in BOOLEAN
           /\ x.disturbed \in BOOLEAN /\ x.clean \in 0 .. RecoveryRounds
BY DEF ProbeRecord

LEMMA Initials ==
    /\ NoFailures \in [Origins -> 0 .. Threshold]
    /\ IdleRequest \in RequestRecord
    /\ 0 \in 0 .. RecoveryRounds /\ Threshold \in 0 .. Threshold /\ RecoveryRounds \in 0 .. RecoveryRounds
BY GuardAssumption DEF NoFailures, IdleRequest, RequestRecord, Places

\* A request goes to another place, and may be marked there.
LEMMA RequestMoves ==
    ASSUME RequestType, NEW r \in Requests, NEW p \in Places, NEW b \in BOOLEAN
    PROVE  /\ request' = [request EXCEPT ![r].at = p] => RequestType'
           /\ request' = [request EXCEPT ![r].at = p, ![r].cancels = b] => RequestType'
<1>1. request[r] \in RequestRecord
  BY DEF RequestType
<1>2. \A x \in RequestRecord : request' = [request EXCEPT ![r] = x] => RequestType'
  BY DEF RequestType
<1>3. [request[r] EXCEPT !.at = p] \in RequestRecord /\ [request[r] EXCEPT !.at = p, !.cancels = b] \in RequestRecord
  BY <1>1, RequestFields
<1>4. /\ [request EXCEPT ![r].at = p] = [request EXCEPT ![r] = [request[r] EXCEPT !.at = p]]
      /\ [request EXCEPT ![r].at = p, ![r].cancels = b] = [request EXCEPT ![r] = [request[r] EXCEPT !.at = p, !.cancels = b]]
  BY DEF RequestType
<1>5. QED
  BY <1>2, <1>3, <1>4

LEMMA RequestsStay ==
    ASSUME RequestType, [GuardNext]_guardVars
    PROVE  RequestType'
<1>1. CASE \E r \in Requests : Request(r) \/ RequestStep(r)
  <2>1. PICK r \in Requests : Request(r) \/ RequestStep(r)
    BY <1>1
  <2>2. CASE \E p \in Places : Goto(r, p)
    BY <2>2, RequestMoves DEF Goto
  <2>3. CASE Capture(r) \/ Leave(r)
    <3>1. PICK x \in RequestRecord : request' = [request EXCEPT ![r] = x]
      <4>1. [IdleRequest EXCEPT !.at = "flying"] \in RequestRecord
        BY Initials, RequestFields DEF Places, Inside
      <4>2. QED
        BY <2>3, <4>1, Initials DEF Capture, Leave
    <3>2. QED
      BY <3>1 DEF RequestType
  <2>4. CASE ObserveFailure(r)
    <3>1. PICK o \in Origins : \/ Goto(r, "leaving")
                               \/ AlreadyPaused(r, o) \/ Suspected(r, o) \/ Outage(r, o)
      BY <2>4 DEF ObserveFailure
    <3>2. CASE Goto(r, "leaving") \/ AlreadyPaused(r, o) \/ Suspected(r, o)
      BY <3>2, RequestMoves DEF AlreadyPaused, Suspected, Goto, Places, Inside
    <3>3. CASE Outage(r, o)
      <4>1. \A q \in Requests : request[q] \in RequestRecord
        BY DEF RequestType
      <4>2. \A q \in Requests : [request[q] EXCEPT !.fresh = FALSE] \in RequestRecord
        BY <4>1, RequestFields
      <4>3. [at |-> "notifying", fresh |-> FALSE, cancels |-> FALSE] \in RequestRecord
        BY DEF RequestRecord, Places, Inside
      <4>4. QED
        BY <3>3, <4>2, <4>3 DEF Outage, RequestType
    <3>4. QED
      BY <3>1, <3>2, <3>3
  <2>5. CASE Poll(r) /\ UNCHANGED request
    BY <2>5 DEF RequestType
  <2>6. QED
    BY <2>1, <2>2, <2>3, <2>4, <2>5
       DEF RequestStep, Request, Poll, StopWaiting, Ignored, ObserveSuccess, ObserveLimit, NotifyOutage, StartProbes,
           ApplyDecision, ApplySuspension, ReportSuccess, ResumeInflight, ReportLimit, Places, Inside
<1>2. CASE Restart
  BY <1>2, Initials DEF Restart, RequestType
<1>3. CASE \/ BeginRun \/ Synchronize \/ Stop \/ Finish \/ Reroute \/ ProbeStep
           \/ SwitchRead \/ SwitchSet \/ SwitchResume \/ (\E o \in Origins : WindowPasses(o))
           \/ CooldownPasses \/ SpacingPasses \/ UNCHANGED guardVars
  BY <1>3 DEF BeginRun, Synchronize, Stop, Finish, Reroute, ProbeStep, ProbeRound, ProbeDropped, ProbeFailed,
              ProbeSucceeded, NotifyRecovery, ProbeLeaves, SwitchRead, SwitchSet, SwitchResume, WindowPasses,
              CooldownPasses, SpacingPasses, guardVars, RequestType
<1>4. QED
  BY <1>1, <1>2, <1>3 DEF GuardNext

\* A failed request: the failure is counted, and maybe an outage begins.
LEMMA FailureKeepsProber ==
    ASSUME ProberInv, RequestType, NEW r \in Requests, ObserveFailure(r)
    PROVE  ProberInv'
<1>1. PICK o \in Origins :
        \/ ~guard.enabled /\ Goto(r, "leaving") /\ UNCHANGED <<guard, probe, callback>>
        \/ guard.enabled /\ (AlreadyPaused(r, o) \/ Suspected(r, o) \/ Outage(r, o))
  BY DEF ObserveFailure
<1>2. request[r].at = "flying" /\ callback = "none" /\ UNCHANGED <<gate, inflight, switch, run>>
  BY DEF ObserveFailure, Returns, Unlocked
<1>3. CASE ~guard.enabled /\ Goto(r, "leaving") /\ UNCHANGED <<guard, probe, callback>>
  BY <1>2, <1>3 DEF ProberInv, GuardType, GuardRecord, ProbeType, ProbeRecord, RestType, ProbeSound, OutageHasWorker, Probing, Goto, RequestType
<1>4. CASE guard.enabled /\ AlreadyPaused(r, o)
  <2>1. guard.failures[o] < Threshold => guard.failures[o] + 1 \in 0 .. Threshold
    BY GuardAssumption DEF ProberInv, GuardType, GuardRecord
  <2>2. GuardType'
    BY <1>4, <2>1, GuardFields, Initials DEF AlreadyPaused, ProberInv, GuardType
  <2>3. ProbeType' /\ ProbeSound'
    <3>1. ProbeType'
      BY <1>4, ProbeFields, Initials DEF AlreadyPaused, ProberInv, ProbeType
    <3>2. QED
      BY <1>4, <3>1 DEF AlreadyPaused, ProberInv, GuardType, GuardRecord, ProbeType, ProbeRecord, ProbeSound
  <2>4. OutageHasWorker'
    BY <1>4 DEF AlreadyPaused, OutageHasWorker, RequestType
  <2>5. QED
    BY <1>2, <1>4, <2>2, <2>3, <2>4 DEF AlreadyPaused, ProberInv, RestType
<1>5. CASE guard.enabled /\ Suspected(r, o)
  <2>1. guard.failures[o] + 1 \in 0 .. Threshold
    BY <1>5, GuardAssumption DEF Suspected, ProberInv, GuardType, GuardRecord
  <2>2. GuardType' /\ ~guard'.paused
    BY <1>5, <2>1, GuardFields DEF Suspected, ProberInv, GuardType, GuardRecord
  <2>3. QED
    BY <1>2, <1>5, <2>2 DEF Suspected, ProberInv, ProbeType, RestType, ProbeSound, OutageHasWorker, Probing
<1>6. CASE guard.enabled /\ Outage(r, o)
  <2>1. GuardType'
    BY <1>6, GuardFields, Initials DEF Outage, ProberInv, GuardType
  <2>2. ProbeType' /\ ProbeSound'
    <3>1. ProbeType'
      BY <1>6, ProbeFields, Initials DEF Outage, ProberInv, ProbeType
    <3>2. QED
      BY <1>6, <3>1 DEF Outage, ProberInv, GuardType, GuardRecord, ProbeType, ProbeRecord, ProbeSound
  <2>3. QED
    BY <1>2, <1>6, <2>1, <2>2 DEF Outage, ProberInv, RestType, OutageHasWorker
<1>7. QED
  BY <1>1, <1>3, <1>4, <1>5, <1>6

\* Every other step of a request.
LEMMA RequestKeepsProber ==
    ASSUME ProberInv, RequestType, NEW r \in Requests, Request(r) \/ RequestStep(r)
    PROVE  ProberInv'
<1>1. CASE ObserveFailure(r)
  BY <1>1, FailureKeepsProber
<1>2. CASE NotifyOutage(r)
  <2>1. OutageHasWorker'
    BY <1>2 DEF NotifyOutage, Goto, OutageHasWorker, RequestType
  <2>2. inflight' \in {"none", "expanded", "suspended", "rolledback"}
    BY <1>2 DEF NotifyOutage, ProberInv, RestType, Suspended, RolledBack
  <2>3. QED
    BY <1>2, <2>1, <2>2 DEF NotifyOutage, ProberInv, GuardType, GuardRecord, ProbeType, ProbeRecord, RestType, ProbeSound
<1>3. CASE StartProbes(r)
  <2>1. /\ ProbeType' /\ probe'.fresh = probe.fresh /\ probe'.disturbed = probe.disturbed
        /\ probe'.clean = probe.clean /\ (Probing => probe'.worker # "none")
    BY <1>3, ProbeFields DEF StartProbes, Started, ProberInv, ProbeType, ProbeRecord
  <2>2. QED
    BY <1>3, <2>1 DEF StartProbes, ProberInv, GuardType, RestType, ProbeSound, OutageHasWorker, Probing
<1>4. CASE ObserveSuccess(r)
  <2>1. GuardType' /\ guard'.enabled = guard.enabled /\ guard'.paused = guard.paused /\ guard'.rounds = guard.rounds
    BY <1>4, GuardFields, GuardAssumption DEF ObserveSuccess, Healthy, ProberInv, GuardType, GuardRecord
  <2>2. \A q \in Requests : request[q].at = "starting" => request'[q].at = "starting"
    BY <1>4 DEF ObserveSuccess, Returns, Goto, RequestType
  <2>3. QED
    BY <1>4, <2>1, <2>2 DEF ObserveSuccess, ProberInv, ProbeType, RestType, ProbeSound, OutageHasWorker, Probing
<1>5. CASE \/ Request(r) \/ Poll(r) \/ StopWaiting(r) \/ Capture(r) \/ Ignored(r) \/ ObserveLimit(r)
           \/ ApplyDecision(r) \/ ApplySuspension(r) \/ ReportSuccess(r) \/ ResumeInflight(r)
           \/ ReportLimit(r) \/ Leave(r)
  <2>1. UNCHANGED <<guard, probe, callback, switch, run>>
    BY <1>5 DEF Request, Poll, StopWaiting, Capture, Ignored, ObserveLimit, ApplyDecision, ApplySuspension,
                ReportSuccess, ResumeInflight, ReportLimit, Leave
  <2>2. \A q \in Requests : request[q].at = "starting" => request'[q].at = "starting"
    BY <1>5 DEF Request, Poll, StopWaiting, Capture, Ignored, ObserveLimit, ApplyDecision, ApplySuspension,
                ReportSuccess, ResumeInflight, ReportLimit, Leave, Returns, Goto, RequestType
  <2>3. inflight' \in {"none", "expanded", "suspended", "rolledback"}
    BY <1>5 DEF Request, Poll, StopWaiting, Capture, Ignored, ObserveLimit, ApplyDecision, ApplySuspension,
                ReportSuccess, ResumeInflight, ReportLimit, Leave, Suspended, Resumed, RolledBack, ProberInv, RestType
  <2>4. QED
    BY <2>1, <2>2, <2>3 DEF ProberInv, GuardType, GuardRecord, ProbeType, ProbeRecord, RestType, ProbeSound, OutageHasWorker, Probing
<1>6. QED
  BY <1>1, <1>2, <1>3, <1>4, <1>5 DEF RequestStep

LEMMA ProbeKeepsProber ==
    ASSUME ProberInv, ProbeStep
    PROVE  ProberInv'
<1>1. UNCHANGED <<inflight, request, switch, run>>
  BY DEF ProbeStep, ProbeRound, ProbeDropped, ProbeFailed, ProbeSucceeded, NotifyRecovery, ProbeLeaves
<1>2. CASE ProbeRound \/ ProbeDropped \/ ProbeLeaves \/ NotifyRecovery
  <2>1. ProbeType' /\ guard' = guard /\ (Probing => probe'.worker # "none") /\ callback' \in {"none", "outage", "recovery"}
    <3>1. ProbeType'
      BY <1>2, ProbeFields DEF ProbeRound, ProbeDropped, ProbeLeaves, NotifyRecovery, ProberInv, ProbeType
    <3>2. QED
      BY <1>2, <3>1 DEF ProbeRound, ProbeDropped, ProbeLeaves, NotifyRecovery, ProberInv, ProbeType, ProbeRecord, RestType
  <2>2. probe'.clean = probe.clean /\ (probe'.fresh => ~probe'.disturbed)
    BY <1>2 DEF ProbeRound, ProbeDropped, ProbeLeaves, NotifyRecovery, ProberInv, ProbeType, ProbeRecord, ProbeSound
  <2>3. QED
    BY <1>1, <2>1, <2>2 DEF ProberInv, GuardType, RestType, ProbeSound, OutageHasWorker, Probing
<1>3. CASE ProbeFailed
  <2>1. GuardType' /\ ProbeType'
    BY <1>3, GuardFields, ProbeFields, Initials DEF ProbeFailed, ProberInv, GuardType, ProbeType
  <2>2. ProbeSound' /\ probe'.worker = "loop"
    BY <1>3 DEF ProbeFailed, ProberInv, GuardType, GuardRecord, ProbeType, ProbeRecord, ProbeSound
  <2>3. QED
    BY <1>1, <1>3, <2>1, <2>2 DEF ProbeFailed, ProberInv, RestType, OutageHasWorker
<1>4. CASE ProbeSucceeded /\ guard.rounds + 1 < RecoveryRounds
  <2>1. probe.clean = guard.rounds /\ ~probe.disturbed /\ guard.rounds + 1 \in 0 .. RecoveryRounds
    BY <1>4, GuardFields, GuardAssumption DEF ProbeSucceeded, Probing, ProberInv, GuardType, ProbeSound
  <2>2. /\ guard' = [guard EXCEPT !.rounds = guard.rounds + 1]
        /\ probe' = [probe EXCEPT !.worker = "loop", !.clean = guard.rounds + 1]
        /\ callback' = callback
    BY <1>4, <2>1 DEF ProbeSucceeded
  <2>3. GuardType' /\ ProbeType'
    BY <2>1, <2>2, GuardFields, ProbeFields DEF ProberInv, GuardType, ProbeType
  <2>4. ProbeSound' /\ probe'.worker = "loop"
    BY <2>2 DEF ProberInv, GuardType, GuardRecord, ProbeType, ProbeRecord, ProbeSound
  <2>5. QED
    BY <1>1, <2>2, <2>3, <2>4 DEF ProberInv, RestType, OutageHasWorker
<1>5. CASE ProbeSucceeded /\ ~(guard.rounds + 1 < RecoveryRounds)
  <2>1. /\ guard' = [guard EXCEPT !.paused = FALSE, !.failures = NoFailures, !.rounds = RecoveryRounds]
        /\ probe' = probe /\ callback' = "recovery"
    BY <1>5 DEF ProbeSucceeded
  <2>2. GuardType' /\ ~guard'.paused
    <3>1. GuardType'
      BY <2>1, GuardFields, Initials DEF ProberInv, GuardType
    <3>2. QED
      BY <2>1, <3>1 DEF ProberInv, GuardType, GuardRecord
  <2>3. QED
    BY <1>1, <2>1, <2>2 DEF ProberInv, ProbeType, RestType, ProbeSound, OutageHasWorker, Probing
<1>6. QED
  BY <1>2, <1>3, <1>4, <1>5 DEF ProbeStep

\* The batch, the switch, time and a restart.
LEMMA RestKeepsProber ==
    ASSUME ProberInv, RequestType,
           \/ BeginRun \/ Synchronize \/ Stop \/ Finish \/ Reroute \/ Restart
           \/ SwitchRead \/ SwitchSet \/ SwitchResume \/ (\E o \in Origins : WindowPasses(o))
           \/ CooldownPasses \/ SpacingPasses \/ UNCHANGED guardVars
    PROVE  ProberInv'
<1>1. CASE BeginRun
  <2>1. /\ ProbeType' /\ probe'.fresh = probe.fresh /\ probe'.disturbed = probe.disturbed
        /\ probe'.clean = probe.clean /\ (Probing => probe'.worker # "none")
    BY <1>1, ProbeFields DEF BeginRun, Started, ProberInv, ProbeType, ProbeRecord
  <2>2. QED
    BY <1>1, <2>1 DEF BeginRun, ProberInv, GuardType, RestType, ProbeSound, OutageHasWorker, Probing
<1>2. CASE Synchronize \/ Stop \/ Finish \/ SwitchResume \/ CooldownPasses \/ SpacingPasses \/ UNCHANGED guardVars
  <2>1. UNCHANGED <<guard, probe, callback, request>>
    BY <1>2 DEF Synchronize, Stop, Finish, SwitchResume, CooldownPasses, SpacingPasses, guardVars
  <2>2. RestType'
    <3>1. switch' = switch \/ switch' = Resting
      BY <1>2 DEF Synchronize, Stop, Finish, SwitchResume, CooldownPasses, SpacingPasses, guardVars
    <3>2. switch' \in [at : {"idle", "read", "set"}, was : BOOLEAN, target : BOOLEAN]
      <4>1. Resting \in [at : {"idle", "read", "set"}, was : BOOLEAN, target : BOOLEAN]
        BY DEF Resting
      <4>2. QED
        BY <3>1, <4>1 DEF ProberInv, RestType
    <3>3. run' \in {"off", "starting", "synced", "on", "stopping"}
      BY <1>2 DEF Synchronize, Stop, Finish, SwitchResume, CooldownPasses, SpacingPasses, guardVars, ProberInv, RestType
    <3>4. inflight' \in {"none", "expanded", "suspended", "rolledback"}
      BY <1>2 DEF Synchronize, Stop, Finish, SwitchResume, CooldownPasses, SpacingPasses, guardVars, Suspended,
                  Resumed, ProberInv, RestType
    <3>5. QED
      BY <2>1, <3>2, <3>3, <3>4 DEF ProberInv, RestType
  <2>3. QED
    BY <2>1, <2>2 DEF ProberInv, GuardType, ProbeType, ProbeSound, OutageHasWorker, Probing
<1>3. CASE Reroute
  <2>1. GuardType' /\ ProbeType' /\ ~guard'.paused /\ ~probe'.fresh
    <3>1. GuardType' /\ ProbeType'
      BY <1>3, GuardFields, ProbeFields, Initials DEF Reroute, ProberInv, GuardType, ProbeType
    <3>2. QED
      BY <1>3, <3>1 DEF Reroute, ProberInv, GuardType, GuardRecord, ProbeType, ProbeRecord
  <2>2. QED
    BY <1>3, <2>1 DEF Reroute, ProberInv, RestType, ProbeSound, OutageHasWorker, Probing
<1>4. CASE Restart
  <2> DEFINE on == IF switch.at = "read" THEN switch.target ELSE guard.enabled
             paused == guard.paused /\ on
  <2>1. on \in BOOLEAN /\ paused \in BOOLEAN
    BY DEF ProberInv, RestType, GuardType, GuardRecord
  <2>2. /\ guard' = [guard EXCEPT !.enabled = on, !.paused = paused,
                       !.failures = IF on THEN @ ELSE NoFailures, !.rounds = IF on THEN @ ELSE 0]
        /\ probe' = [probe EXCEPT !.worker = IF paused THEN "loop" ELSE "none", !.fresh = FALSE]
        /\ callback' = "none" /\ inflight' = "none" /\ switch' = Resting /\ run' = "off"
    BY <1>4 DEF Restart
  <2>3. /\ guard'.enabled = on /\ guard'.paused = paused /\ (on => guard'.rounds = guard.rounds)
        /\ ~probe'.fresh /\ probe'.clean = probe.clean /\ (paused => probe'.worker = "loop")
    BY <2>1, <2>2 DEF ProberInv, GuardType, GuardRecord, ProbeType, ProbeRecord
  <2>4. GuardType'
    <3>1. (IF on THEN guard.failures ELSE NoFailures) \in [Origins -> 0 .. Threshold]
      BY GuardFields, Initials DEF ProberInv, GuardType
    <3>2. (IF on THEN guard.rounds ELSE 0) \in 0 .. RecoveryRounds
      BY GuardFields, Initials DEF ProberInv, GuardType
    <3> HIDE DEF on, paused
    <3>3. QED
      BY <2>1, <2>2, <3>1, <3>2, GuardFields DEF ProberInv, GuardType
  <2>5. ProbeType'
    BY <2>2, ProbeFields DEF ProberInv, ProbeType
  <2>6. RestType'
    BY <2>2 DEF RestType, Resting
  <2>7. QED
    BY <2>3, <2>4, <2>5, <2>6 DEF ProberInv, ProbeSound, OutageHasWorker, Probing
<1>5. CASE SwitchRead
  <2>1. guard.paused \in BOOLEAN
    BY DEF ProberInv, GuardType, GuardRecord
  <2>2. QED
    BY <1>5, <2>1 DEF SwitchRead, ProberInv, GuardType, ProbeType, RestType, ProbeSound, OutageHasWorker, Probing
<1>6. CASE SwitchSet
  <2>1. /\ GuardType' /\ (guard' = guard \/ ~guard'.paused)
    <3>1. CASE guard' = guard
      BY <3>1 DEF ProberInv, GuardType
    <3>2. CASE guard' = [guard EXCEPT !.enabled = TRUE] /\ ~guard.enabled
      <4>1. GuardType'
        BY <3>2, GuardFields DEF ProberInv, GuardType
      <4>2. QED
        BY <3>2, <4>1 DEF ProberInv, GuardType, GuardRecord, ProbeSound
    <3>3. CASE guard' = [guard EXCEPT !.enabled = FALSE, !.paused = FALSE, !.failures = NoFailures, !.rounds = 0]
      <4>1. GuardType'
        BY <3>3, GuardFields, Initials DEF ProberInv, GuardType
      <4>2. QED
        BY <3>3, <4>1 DEF ProberInv, GuardType, GuardRecord
    <3>4. QED
      BY <1>6, <3>1, <3>2, <3>3 DEF SwitchSet, ProberInv, GuardType, GuardRecord, RestType
  <2>2. /\ ProbeType' /\ probe'.worker = probe.worker /\ probe'.clean = probe.clean
        /\ probe'.disturbed = probe.disturbed /\ (probe'.fresh => probe.fresh)
    <3>1. (probe.fresh /\ guard' = guard) \in BOOLEAN
      OBVIOUS
    <3>2. ProbeType'
      BY <1>6, <3>1, ProbeFields DEF SwitchSet, ProberInv, ProbeType
    <3>3. QED
      BY <1>6, <3>2 DEF SwitchSet, ProberInv, ProbeType, ProbeRecord
  <2>3. RestType' /\ UNCHANGED <<callback, request>>
    BY <1>6 DEF SwitchSet, Resting, ProberInv, RestType
  <2>4. QED
    BY <2>1, <2>2, <2>3 DEF ProberInv, ProbeSound, OutageHasWorker, Probing
<1>7. CASE \E o \in Origins : WindowPasses(o)
  <2>1. PICK o \in Origins : WindowPasses(o)
    BY <1>7
  <2>2. guard.failures[o] - 1 \in 0 .. Threshold
    BY <2>1, GuardAssumption DEF WindowPasses, ProberInv, GuardType, GuardRecord
  <2>3. GuardType' /\ ~guard'.paused
    <3>1. GuardType'
      BY <2>1, <2>2, GuardFields DEF WindowPasses, ProberInv, GuardType
    <3>2. QED
      BY <2>1, <3>1 DEF WindowPasses, ProberInv, GuardType, GuardRecord
  <2>4. QED
    BY <2>1, <2>3 DEF WindowPasses, ProberInv, ProbeType, RestType, ProbeSound, OutageHasWorker, Probing
<1>8. QED
  BY <1>1, <1>2, <1>3, <1>4, <1>5, <1>6, <1>7

LEMMA ProberInit == GuardInit => ProberInv /\ RequestType
<1>1. ASSUME GuardInit PROVE GuardType /\ ProbeType /\ RestType /\ RequestType
  <2>1. GuardType /\ RestType
    BY <1>1, Initials DEF GuardInit, GuardType, GuardRecord, RestType, Resting
  <2>2. ProbeType /\ RequestType
    BY <1>1, Initials DEF GuardInit, ProbeType, ProbeRecord, RequestType
  <2>3. QED
    BY <2>1, <2>2
<1>2. QED
  BY <1>1 DEF GuardInit, ProberInv, ProbeSound, OutageHasWorker, Probing

LEMMA ProberStep ==
    ASSUME ProberInv, RequestType, [GuardNext]_guardVars
    PROVE  ProberInv'
BY RequestKeepsProber, ProbeKeepsProber, RestKeepsProber DEF GuardNext

LEMMA ProberInvariant == GuardSpec => [](ProberInv /\ RequestType)
<1>1. ProberInv /\ RequestType /\ [GuardNext]_guardVars => (ProberInv /\ RequestType)'
  BY ProberStep, RequestsStay
<1>2. QED
  BY <1>1, ProberInit, PTL DEF GuardSpec

\* The variables keep their types for every number of requests, origins, failures and rounds.
THEOREM GuardTypeCorrect == GuardSpec => []GuardTypeOK
<1>1. GuardInit => SoundGate(gate)
  BY FreshIsSound DEF GuardInit
<1>2. SoundGate(gate) /\ [GuardNext]_guardVars => SoundGate(gate)'
  <2>1. SUFFICES ASSUME SoundGate(gate), [GuardNext]_guardVars PROVE SoundGate(gate')
    BY DEF SoundGate
  <2>2. QED
    BY <2>1, GateStaysSound
<1>3. SoundGate(gate) /\ ProberInv /\ RequestType => GuardTypeOK
  BY DEF SoundGate, ProberInv, RequestType, RequestRecord, Places, GuardType, GuardRecord, ProbeType, ProbeRecord,
         RestType, GuardTypeOK
<1>4. QED
  BY <1>1, <1>2, <1>3, ProberInvariant, PTL DEF GuardSpec

\* A paused guard has a prober or a thread that is about to start one, even when the old
\* worker was just leaving (_finish_probe_worker looks again).
THEOREM ProberPresent == GuardSpec => []OutageHasWorker
<1>1. ProberInv => OutageHasWorker
  BY DEF ProberInv
<1>2. QED
  BY <1>1, ProberInvariant, PTL

\* An outage only ends on enough rounds in a row that no failed request disturbed
\* (the generation test of run_probe_round).
THEOREM CleanRecovery == GuardSpec => RecoveryIsClean
<1>1. ASSUME ProberInv, RequestType, [GuardNext]_guardVars, callback = "none", callback' = "recovery"
      PROVE  ~probe.disturbed /\ probe.clean + 1 >= RecoveryRounds
  <2>1. ProbeSucceeded
    <3>1. ASSUME NEW r \in Requests, Request(r) \/ RequestStep(r)
          PROVE  callback' # "recovery"
      BY <1>1, <3>1 DEF RequestStep, Request, Poll, StopWaiting, Capture, Ignored, ObserveSuccess, ObserveLimit,
           ObserveFailure, AlreadyPaused, Suspected, Outage, NotifyOutage, StartProbes, ApplyDecision,
           ApplySuspension, ReportSuccess, ResumeInflight, ReportLimit, Leave
    <3>2. ASSUME ~ProbeSucceeded, ProbeStep PROVE callback' # "recovery"
      BY <1>1, <3>2 DEF ProbeStep, ProbeRound, ProbeDropped, ProbeFailed, NotifyRecovery, ProbeLeaves
    <3>3. ASSUME \/ BeginRun \/ Synchronize \/ Stop \/ Finish \/ Reroute \/ Restart
                 \/ SwitchRead \/ SwitchSet \/ SwitchResume \/ (\E o \in Origins : WindowPasses(o))
                 \/ CooldownPasses \/ SpacingPasses \/ UNCHANGED guardVars
          PROVE  callback' # "recovery"
      BY <1>1, <3>3 DEF BeginRun, Synchronize, Stop, Finish, Reroute, Restart, SwitchRead, SwitchSet, SwitchResume,
           WindowPasses, CooldownPasses, SpacingPasses, guardVars
    <3>4. QED
      BY <1>1, <3>1, <3>2, <3>3 DEF GuardNext
  <2>2. ~(guard.rounds + 1 < RecoveryRounds) /\ guard.paused /\ probe.fresh
    BY <1>1, <2>1 DEF ProbeSucceeded, Probing
  <2>3. guard.rounds \in Nat
    BY <1>1, GuardFields DEF ProberInv, GuardType
  <2>4. QED
    BY <1>1, <2>2, <2>3, GuardAssumption DEF ProberInv, ProbeSound
<1>2. ProberInv /\ RequestType /\ [GuardNext]_guardVars =>
        [callback = "none" /\ callback' = "recovery" =>
           ~probe.disturbed /\ probe.clean + 1 >= RecoveryRounds]_guardVars
  BY <1>1
<1>3. QED
  BY <1>2, ProberInvariant, PTL DEF GuardSpec, RecoveryIsClean

-----------------------------------------------------------------------------
(* Slots.                                                                  *)

Holders == {r \in Requests : request[r].at \in Inside}

LEMMA HoldersFinite == IsFiniteSet(Holders) /\ Cardinality(Holders) \in Nat
BY GuardAssumption, FS_Subset, FS_CardinalityType DEF Holders

\* A step of r moves nobody else in or out of the gate.
LEMMA OthersStay ==
    ASSUME RequestType, NEW r \in Requests, Request(r) \/ RequestStep(r)
    PROVE  \A q \in Requests \ {r} : request'[q].at = request[q].at
<1>1. CASE \E p \in Places : Goto(r, p)
  BY <1>1 DEF Goto, RequestType
<1>2. CASE Capture(r) \/ Leave(r) \/ UNCHANGED request
  BY <1>2 DEF Capture, Leave, RequestType
<1>3. CASE ObserveFailure(r)
  <2>1. PICK o \in Origins : \/ Goto(r, "leaving")
                             \/ AlreadyPaused(r, o) \/ Suspected(r, o) \/ Outage(r, o)
    BY <1>3 DEF ObserveFailure
  <2>2. QED
    BY <2>1 DEF Goto, AlreadyPaused, Suspected, Outage, RequestType, RequestRecord
<1>4. QED
  BY <1>1, <1>2, <1>3
     DEF RequestStep, Request, Poll, StopWaiting, Ignored, ObserveSuccess, ObserveLimit, NotifyOutage, StartProbes,
         ApplyDecision, ApplySuspension, ReportSuccess, ResumeInflight, ReportLimit, Places, Inside

LEMMA SlotStep ==
    ASSUME SoundGate(gate), RequestType, SlotsAreHeld, NEW r \in Requests, Request(r) \/ RequestStep(r)
    PROVE  SlotsAreHeld'
<1>1. \A q \in Requests \ {r} : q \in Holders' <=> q \in Holders
  BY OthersStay DEF Holders
<1>2. CASE Poll(r) /\ Admits(gate)
  <2>1. r \notin Holders /\ r \in Holders'
    BY <1>2 DEF Poll, Goto, Holders, Inside, RequestType, RequestRecord
  <2>2. Holders' = Holders \cup {r}
    BY <1>1, <2>1 DEF Holders
  <2>3. Cardinality(Holders') = Cardinality(Holders) + 1
    BY <2>1, <2>2, HoldersFinite, FS_AddElement
  <2>4. gate'.active = gate.active + 1
    BY <1>2, AdmittedIsSound DEF Poll
  <2>5. QED
    BY <2>3, <2>4 DEF SlotsAreHeld, Holders
<1>3. CASE Leave(r)
  <2>1. r \in Holders /\ r \notin Holders'
    BY <1>3 DEF Leave, IdleRequest, Holders, Inside, RequestType
  <2>2. Holders' = Holders \ {r}
    BY <1>1, <2>1 DEF Holders
  <2>3. Cardinality(Holders') = Cardinality(Holders) - 1 /\ Cardinality(Holders) > 0
    BY <2>1, <2>2, HoldersFinite, FS_RemoveElement, FS_EmptySet
  <2>4. gate'.active = gate.active - 1
    BY <1>3, <2>3, LeftIsSound DEF Leave, SlotsAreHeld, Holders
  <2>5. QED
    BY <2>3, <2>4 DEF SlotsAreHeld, Holders
<1>4. CASE ~(Poll(r) /\ Admits(gate)) /\ ~Leave(r)
  <2>1. r \in Holders' <=> r \in Holders
    <3>1. CASE ObserveFailure(r)
      <4>1. PICK o \in Origins : \/ Goto(r, "leaving")
                                 \/ AlreadyPaused(r, o) \/ Suspected(r, o) \/ Outage(r, o)
        BY <3>1 DEF ObserveFailure
      <4>2. request[r].at = "flying" /\ request'[r].at \in Inside
        BY <3>1, <4>1 DEF ObserveFailure, Returns, Goto, AlreadyPaused, Suspected, Outage, Inside, RequestType, RequestRecord
      <4>3. QED
        BY <4>2 DEF Holders, Inside
    <3>2. CASE Poll(r)
      BY <1>4, <3>2 DEF Poll, Holders
    <3>3. CASE Request(r) \/ StopWaiting(r) \/ Capture(r) \/ Ignored(r) \/ ObserveSuccess(r) \/ ObserveLimit(r)
      BY <3>3 DEF Request, StopWaiting, Capture, Ignored, ObserveSuccess, ObserveLimit, Returns, Goto, IdleRequest, Holders,
                  Inside, RequestType, RequestRecord
    <3>4. CASE \/ NotifyOutage(r) \/ StartProbes(r) \/ ApplyDecision(r) \/ ApplySuspension(r)
               \/ ReportSuccess(r) \/ ResumeInflight(r) \/ ReportLimit(r)
      BY <3>4 DEF NotifyOutage, StartProbes, ApplyDecision, ApplySuspension, ReportSuccess, ResumeInflight,
                  ReportLimit, Goto, Holders, Inside, RequestType, RequestRecord
    <3>5. QED
      BY <1>4, <3>1, <3>2, <3>3, <3>4 DEF RequestStep
  <2>2. Holders' = Holders
    BY <1>1, <2>1 DEF Holders
  <2>3. gate'.active = gate.active
    <3>1. CASE Poll(r)
      BY <1>4, <3>1, ClearedIsSound DEF Poll
    <3>2. CASE NotifyOutage(r) \/ ApplyDecision(r)
      BY <3>2, CutIsSound, GuardedIsSound DEF NotifyOutage, ApplyDecision
    <3>3. CASE ApplySuspension(r) \/ ReportSuccess(r) \/ ReportLimit(r)
      BY <3>3, FailedIsSound, SucceededIsSound, RateLimitedIsSound DEF ApplySuspension, ReportSuccess, ReportLimit
    <3>4. CASE \/ Request(r) \/ StopWaiting(r) \/ Capture(r) \/ Ignored(r) \/ ObserveSuccess(r)
               \/ ObserveLimit(r) \/ ObserveFailure(r) \/ StartProbes(r) \/ ResumeInflight(r)
      BY <3>4 DEF Request, StopWaiting, Capture, Ignored, ObserveSuccess, ObserveLimit, ObserveFailure, StartProbes,
                  ResumeInflight
    <3>5. QED
      BY <1>4, <3>1, <3>2, <3>3, <3>4 DEF RequestStep
  <2>4. QED
    BY <2>2, <2>3 DEF SlotsAreHeld, Holders
<1>5. QED
  BY <1>2, <1>3, <1>4

\* Slots are counted right whatever happens to the requests that hold them: outages, stale
\* results, stops, new batches and restarts.
THEOREM SlotsCounted == GuardSpec => []SlotsAreHeld
<1> DEFINE Inv == SoundGate(gate) /\ SlotsAreHeld
<1>1. GuardInit => Inv
  <2>1. SUFFICES ASSUME GuardInit PROVE Inv
    OBVIOUS
  <2>2. Holders = {}
    BY <2>1 DEF GuardInit, IdleRequest, Holders, Inside
  <2>3. gate = FreshGate(0)
    BY <2>1 DEF GuardInit
  <2>4. SoundGate(gate) /\ gate.active = 0
    BY <2>3, FreshIsSound
  <2>5. Cardinality(Holders) = 0
    BY <2>2, FS_EmptySet
  <2>6. QED
    BY <2>4, <2>5 DEF SlotsAreHeld, Holders
<1>2. ASSUME Inv, RequestType, [GuardNext]_guardVars PROVE Inv'
  <2>1. SUFFICES SlotsAreHeld'
    BY <1>2, GateStaysSound DEF SoundGate
  <2>2. CASE \E r \in Requests : Request(r) \/ RequestStep(r)
    BY <1>2, <2>2, SlotStep
  <2>3. CASE Restart
    <3>1. Holders' = {}
      BY <2>3 DEF Restart, IdleRequest, Holders, Inside
    <3>2. gate'.active = 0
      BY <2>3, FreshIsSound DEF Restart
    <3>3. QED
      BY <3>1, <3>2, FS_EmptySet DEF SlotsAreHeld, Holders
  <2>4. CASE \/ BeginRun \/ Synchronize \/ Stop \/ Finish \/ Reroute \/ ProbeStep
             \/ SwitchRead \/ SwitchSet \/ SwitchResume \/ (\E o \in Origins : WindowPasses(o))
             \/ CooldownPasses \/ SpacingPasses \/ UNCHANGED guardVars
    <3>1. request' = request
      BY <2>4 DEF BeginRun, Synchronize, Stop, Finish, Reroute, ProbeStep, ProbeRound, ProbeDropped, ProbeFailed,
              ProbeSucceeded, NotifyRecovery, ProbeLeaves, SwitchRead, SwitchSet, SwitchResume, WindowPasses,
              CooldownPasses, SpacingPasses, guardVars
    <3>2. gate.active \in Nat /\ gate \in Gate
      BY <1>2, Fields DEF SoundGate
    <3>3. CASE BeginRun \/ Synchronize
      BY <1>2, <3>1, <3>2, <3>3, FreshIsSound, CutIsSound DEF BeginRun, Synchronize, SlotsAreHeld
    <3>4. CASE NotifyRecovery \/ SwitchResume
      BY <1>2, <3>1, <3>4, RestoredIsSound DEF NotifyRecovery, SwitchResume, SlotsAreHeld
    <3>5. CASE CooldownPasses \/ SpacingPasses
      BY <1>2, <3>1, <3>2, <3>5 DEF CooldownPasses, SpacingPasses, SlotsAreHeld, Gate
    <3>6. CASE \/ Stop \/ Finish \/ Reroute \/ ProbeRound \/ ProbeDropped \/ ProbeFailed \/ ProbeSucceeded
               \/ ProbeLeaves \/ SwitchRead \/ SwitchSet \/ (\E o \in Origins : WindowPasses(o)) \/ UNCHANGED guardVars
      BY <1>2, <3>1, <3>6 DEF Stop, Finish, Reroute, ProbeRound, ProbeDropped, ProbeFailed, ProbeSucceeded, ProbeLeaves,
              SwitchRead, SwitchSet, WindowPasses, guardVars, SlotsAreHeld
    <3>7. QED
      BY <2>4, <3>3, <3>4, <3>5, <3>6 DEF ProbeStep
  <2>5. QED
    BY <1>2, <2>2, <2>3, <2>4 DEF GuardNext
<1>3. Inv /\ RequestType /\ [GuardNext]_guardVars => Inv'
  BY <1>2
<1>4. QED
  BY <1>1, <1>3, ProberInvariant, PTL DEF GuardSpec

-----------------------------------------------------------------------------
(* Gate and guard agree, when decisions reach the gate before the guard    *)
(* moves on and no outage begins while the switch is being thrown.         *)

PlaceSound ==
    /\ run \in {"off", "starting", "synced"} => \A r \in Requests : request[r].at = "idle"
    /\ \A r \in Requests : request[r].at = "notifying" => ~request[r].cancels

\* While a decision is on its way its outage lasts and the switch is not touched.
DecisionSound ==
    /\ Undecided => guard.paused
    /\ switch.at = "idle" <=> switch = Resting
    /\ switch.at # "idle" => ~Undecided
    /\ switch.at = "read" => (guard.paused => switch.was)
    /\ switch.at = "set" => ~guard.paused
    /\ callback = "recovery" => ~guard.paused

\* Who will open a gate that is shut, and who will shut one that has to be.
CutSound ==
    /\ gate.cut => guard.paused \/ callback = "recovery" \/ switch.at = "set" \/ run = "off"
    /\ guard.paused /\ run \in {"synced", "on", "stopping"} => gate.cut \/ callback = "outage"

Known == SoundGate(gate) /\ ProberInv /\ RequestType

Opens(r) == guard.enabled /\ \E o \in Origins : Outage(r, o)

\* What a request can do to the guard and the gate.
LEMMA RequestEffect ==
    ASSUME Known, NEW r \in Requests, Request(r) \/ RequestStep(r), PlaceSound, ~LateToggles
    PROVE  /\ UNCHANGED <<switch, run>>
           /\ guard'.paused = guard.paused \/ Opens(r)
           /\ Opens(r) => guard'.paused /\ callback = "none" /\ callback' = "outage" /\ switch = Resting
           /\ gate'.cut = gate.cut \/ (gate'.cut /\ Undecided)
           /\ callback' = callback \/ Opens(r) \/ (callback' = "none" /\ gate'.cut /\ Undecided)
           /\ callback' = callback \/ callback' # "recovery"
<1>1. UNCHANGED <<switch, run>>
  BY DEF RequestStep, Request, Poll, StopWaiting, Capture, Ignored, ObserveSuccess, ObserveLimit, ObserveFailure,
         NotifyOutage, StartProbes, ApplyDecision, ApplySuspension, ReportSuccess, ResumeInflight, ReportLimit, Leave
<1>2. CASE ObserveFailure(r)
  <2>1. gate' = gate /\ callback = "none"
    BY <1>2 DEF ObserveFailure, Returns, Unlocked
  <2>2. CASE Opens(r)
    <3>1. PICK o \in Origins : Outage(r, o)
      BY <2>2 DEF Opens
    <3>2. guard'.paused
      BY <3>1 DEF Outage, Known, ProberInv, GuardType, GuardRecord
    <3>3. callback' = "outage" /\ switch = Resting
      BY <3>1 DEF Outage
    <3>4. QED
      BY <1>1, <2>1, <2>2, <3>2, <3>3
  <2>3. CASE ~Opens(r)
    <3>1. PICK o \in Origins : guard' = guard \/ AlreadyPaused(r, o) \/ Suspected(r, o)
      BY <1>2, <2>3 DEF ObserveFailure, Opens
    <3>2. guard'.paused = guard.paused /\ callback' = callback
      BY <1>2, <2>3, <3>1 DEF ObserveFailure, Opens, AlreadyPaused, Suspected, Known, ProberInv, GuardType, GuardRecord
    <3>3. QED
      BY <1>1, <2>1, <2>3, <3>2
  <2>4. QED
    BY <2>2, <2>3
<1>3. CASE ~ObserveFailure(r)
  <2>1. request[r].at # "flying" \/ Ignored(r) \/ ObserveSuccess(r) \/ ObserveLimit(r)
    BY <1>3 DEF RequestStep, Request, Poll, StopWaiting, Capture, NotifyOutage, StartProbes, ApplyDecision,
                ApplySuspension, ReportSuccess, ResumeInflight, ReportLimit, Leave
  <2>2. guard'.paused = guard.paused
    BY <1>3 DEF RequestStep, Request, Poll, StopWaiting, Capture, Ignored, ObserveSuccess, Healthy, ObserveLimit,
           NotifyOutage, StartProbes, ApplyDecision, ApplySuspension, ReportSuccess, ResumeInflight, ReportLimit, Leave,
           Known, ProberInv, GuardType, GuardRecord
  <2>3. callback' = callback \/ NotifyOutage(r)
    BY <1>3 DEF RequestStep, Request, Poll, StopWaiting, Capture, Ignored, ObserveSuccess, ObserveLimit,
           StartProbes, ApplyDecision, ApplySuspension, ReportSuccess, ResumeInflight, ReportLimit, Leave
  <2>4. ~Opens(r)
    <3>1. ASSUME NEW o \in Origins, Outage(r, o) PROVE FALSE
      <4>1. callback' = "outage" /\ request'[r].at = "notifying"
        BY <3>1 DEF Outage
      <4>2. callback = "outage" \/ NotifyOutage(r)
        BY <2>3, <4>1
      <4>3. guard'.paused /\ ~guard.paused
        BY <3>1 DEF Outage, Known, ProberInv, GuardType, GuardRecord
      <4>4. QED
        BY <2>2, <4>3
    <3>2. QED
      BY <3>1 DEF Opens
  <2>5. CASE NotifyOutage(r)
    <3>1. gate'.cut /\ callback' = "none" /\ Undecided
      BY <2>5, CutIsSound DEF NotifyOutage, Known, PlaceSound, Undecided
    <3>2. QED
      BY <1>1, <2>2, <2>4, <3>1
  <2>6. CASE ApplyDecision(r)
    <3>1. gate'.cut = gate.cut \/ (gate'.cut /\ Undecided)
      BY <2>6, CutIsSound, GuardedIsSound DEF ApplyDecision, Known, Undecided
    <3>2. QED
      BY <1>1, <2>2, <2>3, <2>4, <2>6, <3>1 DEF ApplyDecision
  <2>7. CASE ~NotifyOutage(r) /\ ~ApplyDecision(r)
    <3>1. gate'.cut = gate.cut
      <4>1. CASE Poll(r)
        BY <4>1, AdmittedIsSound, ClearedIsSound DEF Poll, Known
      <4>2. CASE ApplySuspension(r) \/ ReportSuccess(r) \/ ReportLimit(r) \/ Leave(r)
        BY <4>2, FailedIsSound, SucceededIsSound, RateLimitedIsSound, LeftIsSound
           DEF ApplySuspension, ReportSuccess, ReportLimit, Leave, Known
      <4>3. CASE \/ Request(r) \/ StopWaiting(r) \/ Capture(r) \/ Ignored(r) \/ ObserveSuccess(r)
                 \/ ObserveLimit(r) \/ StartProbes(r) \/ ResumeInflight(r)
        BY <4>3 DEF Request, StopWaiting, Capture, Ignored, ObserveSuccess, ObserveLimit, StartProbes, ResumeInflight
      <4>4. QED
        BY <1>3, <2>7, <4>1, <4>2, <4>3 DEF RequestStep
    <3>2. QED
      BY <1>1, <2>2, <2>3, <2>4, <2>7, <3>1
  <2>8. QED
    BY <2>5, <2>6, <2>7
<1>4. QED
  BY <1>2, <1>3

\* Only an outage brings a decision on its way.
LEMMA NewDecision ==
    ASSUME Known, NEW r \in Requests, Request(r) \/ RequestStep(r), PlaceSound
    PROVE  PlaceSound' /\ (Undecided' => Undecided \/ Opens(r))
<1> DEFINE Pending(x) == x.at \in {"notifying", "starting", "decided"} /\ ~x.cancels
<1>1. UNCHANGED run /\ (run \in {"off", "starting", "synced"} => FALSE)
  BY DEF PlaceSound, RequestStep, Request, Poll, StopWaiting, Capture, Ignored, ObserveSuccess, ObserveLimit, ObserveFailure,
         NotifyOutage, StartProbes, ApplyDecision, ApplySuspension, ReportSuccess, ResumeInflight, ReportLimit, Leave, Returns
<1>2. CASE ObserveFailure(r) /\ Opens(r)
  <2>1. PICK o \in Origins : Outage(r, o)
    BY <1>2 DEF Opens
  <2>2. \A q \in Requests : request'[q].at = "notifying" => ~request'[q].cancels
    BY <2>1 DEF Outage, PlaceSound, Known, RequestType, RequestRecord
  <2>3. QED
    BY <1>1, <1>2, <2>2 DEF PlaceSound
<1>3. CASE ~(ObserveFailure(r) /\ Opens(r))
  <2>1. /\ \A q \in Requests \ {r} : request'[q] = request[q]
        /\ Pending(request'[r]) => Pending(request[r])
        /\ request'[r].at = "notifying" => request' = request
    <3>1. CASE Request(r) \/ Poll(r) \/ StopWaiting(r) \/ Ignored(r) \/ ObserveSuccess(r) \/ ObserveLimit(r)
      BY <3>1 DEF Request, Poll, StopWaiting, Ignored, ObserveSuccess, ObserveLimit, Goto,
                  Known, RequestType, RequestRecord
    <3>2. CASE Capture(r) \/ Leave(r)
      BY <3>2 DEF Capture, Leave, IdleRequest, Known, RequestType
    <3>3. CASE \/ NotifyOutage(r) \/ StartProbes(r) \/ ApplyDecision(r) \/ ApplySuspension(r) \/ ReportSuccess(r)
               \/ ResumeInflight(r) \/ ReportLimit(r)
      BY <3>3 DEF NotifyOutage, StartProbes, ApplyDecision, ApplySuspension, ReportSuccess, ResumeInflight, ReportLimit, Goto,
                  Known, RequestType, RequestRecord
    <3>4. CASE ObserveFailure(r)
      <4>1. PICK o \in Origins : Goto(r, "leaving") \/ AlreadyPaused(r, o) \/ Suspected(r, o)
        BY <1>3, <3>4 DEF ObserveFailure, Opens
      <4>2. QED
        BY <4>1 DEF Goto, AlreadyPaused, Suspected, Known, RequestType, RequestRecord
    <3>5. QED
      BY <3>1, <3>2, <3>3, <3>4 DEF RequestStep
  <2>2. \A q \in Requests : Pending(request'[q]) => Pending(request[q])
    BY <2>1
  <2>3. Undecided' => Undecided
    BY <2>2 DEF Undecided
  <2>4. \A q \in Requests : request'[q].at = "notifying" => ~request'[q].cancels
    BY <2>1 DEF PlaceSound
  <2>5. QED
    BY <1>1, <2>3, <2>4 DEF PlaceSound
<1>4. QED
  BY <1>2, <1>3

PromptInv == PlaceSound /\ DecisionSound /\ CutSound

LEMMA RequestKeepsPrompt ==
    ASSUME Known, PromptInv, ~LateToggles, NEW r \in Requests, Request(r) \/ RequestStep(r)
    PROVE  PromptInv'
<1>1. PlaceSound' /\ (Undecided' => Undecided \/ Opens(r))
  BY NewDecision DEF PromptInv
<1>2. /\ UNCHANGED <<switch, run>>
      /\ guard'.paused = guard.paused \/ Opens(r)
      /\ Opens(r) => guard'.paused /\ callback = "none" /\ callback' = "outage" /\ switch = Resting
      /\ gate'.cut = gate.cut \/ (gate'.cut /\ Undecided)
      /\ callback' = callback \/ Opens(r) \/ (callback' = "none" /\ gate'.cut /\ Undecided)
      /\ callback' = callback \/ callback' # "recovery"
  BY RequestEffect DEF PromptInv
<1>3. DecisionSound'
  BY <1>1, <1>2 DEF PromptInv, DecisionSound, Resting
<1>4. CutSound'
  <2>1. CASE Opens(r)
    BY <1>2, <2>1 DEF PromptInv, DecisionSound, CutSound
  <2>2. CASE ~Opens(r) /\ Undecided
    BY <1>2, <2>2 DEF PromptInv, DecisionSound, CutSound
  <2>3. CASE ~Opens(r) /\ ~Undecided
    BY <1>2, <2>3 DEF PromptInv, DecisionSound, CutSound
  <2>4. QED
    BY <2>1, <2>2, <2>3
<1>5. QED
  BY <1>1, <1>3, <1>4 DEF PromptInv

LEMMA ProbeKeepsPrompt ==
    ASSUME Known, PromptInv, ~LateDecisions, ProbeStep
    PROVE  PromptInv'
<1>1. UNCHANGED <<request, switch, run>> /\ (Undecided' <=> Undecided)
  BY DEF ProbeStep, ProbeRound, ProbeDropped, ProbeFailed, ProbeSucceeded, NotifyRecovery, ProbeLeaves, Undecided
<1>2. PlaceSound'
  BY <1>1 DEF PromptInv, PlaceSound
<1>3. CASE guard'.paused = guard.paused /\ UNCHANGED <<gate, callback>>
  BY <1>1, <1>2, <1>3 DEF PromptInv, DecisionSound, CutSound
<1>4. CASE ProbeSucceeded /\ ~(guard.rounds + 1 < RecoveryRounds)
  <2>1. ~guard'.paused /\ callback' = "recovery" /\ ~Undecided /\ gate' = gate
    BY <1>4 DEF ProbeSucceeded, Known, ProberInv, GuardType, GuardRecord
  <2>2. QED
    BY <1>1, <1>2, <2>1 DEF PromptInv, DecisionSound, CutSound
<1>5. CASE NotifyRecovery
  <2>1. ~gate'.cut /\ callback' = "none" /\ guard' = guard /\ ~guard.paused
    BY <1>5, RestoredIsSound DEF NotifyRecovery, Known, PromptInv, DecisionSound
  <2>2. QED
    BY <1>1, <1>2, <2>1 DEF PromptInv, DecisionSound, CutSound
<1>6. ProbeRound \/ ProbeDropped \/ ProbeFailed \/ ProbeLeaves \/ (ProbeSucceeded /\ guard.rounds + 1 < RecoveryRounds)
        => guard'.paused = guard.paused /\ UNCHANGED <<gate, callback>>
  BY DEF ProbeRound, ProbeDropped, ProbeFailed, ProbeLeaves, ProbeSucceeded, Known, ProberInv, GuardType, GuardRecord
<1>7. QED
  BY <1>3, <1>4, <1>5, <1>6 DEF ProbeStep

LEMMA RestKeepsPrompt ==
    ASSUME Known, PromptInv, ~LateDecisions,
           \/ BeginRun \/ Synchronize \/ Stop \/ Finish \/ Reroute \/ Restart
           \/ SwitchRead \/ SwitchSet \/ SwitchResume \/ (\E o \in Origins : WindowPasses(o))
           \/ CooldownPasses \/ SpacingPasses \/ UNCHANGED guardVars
    PROVE  PromptInv'
<1>1. CASE Restart
  <2>1. ~gate'.cut /\ callback' = "none" /\ switch' = Resting /\ run' = "off"
    BY <1>1, FreshIsSound DEF Restart
  <2>2. \A r \in Requests : request'[r].at = "idle"
    BY <1>1 DEF Restart, IdleRequest
  <2>3. PlaceSound' /\ ~Undecided'
    BY <2>2 DEF PlaceSound, Undecided
  <2>4. QED
    BY <2>1, <2>3 DEF PromptInv, DecisionSound, CutSound, Resting
<1>2. CASE ~Restart
  <2>1. request' = request /\ (Undecided' <=> Undecided)
    BY <1>2 DEF BeginRun, Synchronize, Stop, Finish, Reroute, SwitchRead, SwitchSet, SwitchResume, WindowPasses,
                CooldownPasses, SpacingPasses, guardVars, Undecided
  <2>2. PlaceSound'
    BY <1>2, <2>1 DEF BeginRun, Synchronize, Stop, Finish, Reroute, SwitchRead, SwitchSet, SwitchResume, WindowPasses,
                CooldownPasses, SpacingPasses, guardVars, PromptInv, PlaceSound
  <2>3. CASE BeginRun
    <3>1. gate.active \in Nat
      BY Fields DEF Known, SoundGate
    <3>2. ~gate'.cut /\ run' = "starting" /\ UNCHANGED <<guard, callback, switch>>
      BY <2>3, <3>1, FreshIsSound DEF BeginRun
    <3>3. QED
      BY <2>1, <2>2, <3>2 DEF PromptInv, DecisionSound, CutSound
  <2>4. CASE Synchronize
    <3>1. /\ UNCHANGED <<guard, callback, switch>> /\ run \in {"starting", "synced"} /\ run' \in {"synced", "on"}
          /\ (guard.paused => gate'.cut) /\ (~guard.paused => gate'.cut = gate.cut)
      BY <2>4, CutIsSound DEF Synchronize, Known
    <3>2. QED
      BY <2>1, <2>2, <3>1 DEF PromptInv, DecisionSound, CutSound
  <2>5. CASE Stop \/ Finish
    <3>1. UNCHANGED <<gate, guard, callback, switch>> /\ run \in {"on", "stopping"} /\ run' \in {"stopping", "off"}
      BY <2>5 DEF Stop, Finish
    <3>2. QED
      BY <2>1, <2>2, <3>1 DEF PromptInv, DecisionSound, CutSound
  <2>6. CASE Reroute
    <3>1. ~Undecided
      BY <2>6 DEF Reroute, PromptInv, PlaceSound, Undecided
    <3>2. ~guard'.paused /\ run' = "off" /\ UNCHANGED <<gate, callback, switch>>
      BY <2>6 DEF Reroute, Known, ProberInv, GuardType, GuardRecord
    <3>3. QED
      BY <2>1, <2>2, <3>1, <3>2 DEF PromptInv, DecisionSound, CutSound
  <2>7. CASE SwitchRead
    <3>1. /\ UNCHANGED <<gate, guard, callback, run>> /\ switch.at = "idle" /\ ~Undecided
          /\ switch'.at = "read" /\ switch'.was = guard.paused
      BY <2>7 DEF SwitchRead
    <3>2. QED
      BY <2>1, <2>2, <3>1 DEF PromptInv, DecisionSound, CutSound, Resting
  <2>8. CASE SwitchSet
    <3>1. UNCHANGED <<gate, callback, run>> /\ switch.at = "read" /\ callback = "none" /\ ~Undecided
      BY <2>8 DEF SwitchSet, Unlocked, PromptInv, DecisionSound
    <3>2. guard'.paused = guard.paused \/ (~guard'.paused /\ ~switch.target)
      BY <2>8 DEF SwitchSet, Known, ProberInv, GuardType, GuardRecord
    <3>3. CASE switch.was /\ ~switch.target
      <4>1. switch'.at = "set" /\ switch' # Resting
        BY <2>8, <3>3 DEF SwitchSet, Resting, Known, ProberInv, RestType
      <4>2. ~guard'.paused
        BY <2>8, <3>3 DEF SwitchSet, Known, ProberInv, GuardType, GuardRecord, ProbeSound
      <4>3. QED
        BY <2>1, <2>2, <3>1, <4>1, <4>2 DEF PromptInv, DecisionSound, CutSound
    <3>4. CASE ~(switch.was /\ ~switch.target)
      <4>1. switch' = Resting
        BY <2>8, <3>4 DEF SwitchSet
      <4>2. guard.paused /\ ~guard'.paused => FALSE
        BY <3>1, <3>2, <3>4 DEF PromptInv, DecisionSound
      <4>3. QED
        BY <2>1, <2>2, <3>1, <3>2, <4>1, <4>2 DEF PromptInv, DecisionSound, CutSound, Resting
    <3>5. QED
      BY <3>3, <3>4
  <2>9. CASE SwitchResume
    <3>1. ~gate'.cut /\ switch' = Resting /\ UNCHANGED <<guard, callback, run>> /\ switch.at = "set"
      BY <2>9, RestoredIsSound DEF SwitchResume, Known
    <3>2. ~Undecided /\ ~guard.paused
      BY <3>1 DEF PromptInv, DecisionSound
    <3>3. QED
      BY <2>1, <2>2, <3>1, <3>2 DEF PromptInv, DecisionSound, CutSound, Resting
  <2>10. CASE (\E o \in Origins : WindowPasses(o)) \/ CooldownPasses \/ SpacingPasses \/ UNCHANGED guardVars
    <3>1. UNCHANGED <<callback, switch, run>> /\ guard'.paused = guard.paused /\ gate'.cut = gate.cut
      BY <2>10 DEF WindowPasses, CooldownPasses, SpacingPasses, guardVars, Known, ProberInv, GuardType, GuardRecord,
                   SoundGate, Gate
    <3>2. QED
      BY <2>1, <2>2, <3>1 DEF PromptInv, DecisionSound, CutSound
  <2>11. QED
    BY <1>2, <2>3, <2>4, <2>5, <2>6, <2>7, <2>8, <2>9, <2>10
<1>3. QED
  BY <1>1, <1>2

LEMMA PromptInvariant ==
    ASSUME ~LateDecisions, ~LateToggles
    PROVE  GuardSpec => [](Known /\ PromptInv)
<1>1. GuardInit => Known /\ PromptInv
  <2>1. SUFFICES ASSUME GuardInit PROVE Known /\ PromptInv
    OBVIOUS
  <2>2. Known
    BY <2>1, ProberInit, FreshIsSound DEF GuardInit, Known
  <2>3. ~Undecided /\ PlaceSound /\ ~gate.cut /\ ~guard.paused
    BY <2>1, FreshIsSound DEF GuardInit, IdleRequest, Undecided, PlaceSound
  <2>4. QED
    BY <2>1, <2>2, <2>3 DEF GuardInit, PromptInv, DecisionSound, CutSound, Resting
<1>2. ASSUME Known, PromptInv, [GuardNext]_guardVars PROVE (Known /\ PromptInv)'
  <2>1. Known'
    <3>1. SoundGate(gate')
      BY <1>2, GateStaysSound DEF Known
    <3>2. SoundGate(gate)'
      BY <3>1 DEF SoundGate
    <3>3. QED
      BY <1>2, <3>2, ProberStep, RequestsStay DEF Known
  <2>2. PromptInv'
    BY <1>2, RequestKeepsPrompt, ProbeKeepsPrompt, RestKeepsPrompt DEF GuardNext
  <2>3. QED
    BY <2>1, <2>2
<1>3. QED
  BY <1>1, <1>2, PTL DEF GuardSpec

\* With decisions that reach the gate in time, a gate an outage paused belongs to a guard
\* that probes for its end: someone will resume it.
THEOREM PausedIsProbed ==
    ASSUME ~LateDecisions, ~LateToggles
    PROVE  GuardSpec => []PausedGateIsProbed
<1>1. Known /\ PromptInv => PausedGateIsProbed
  BY DEF Known, ProberInv, ProbeSound, PromptInv, CutSound, PausedGateIsProbed, Settled, Unlocked, Resting, Probing
<1>2. QED
  BY <1>1, PromptInvariant, PTL

\* Under the same conditions the batch's gate is shut as long as its guard probes.
THEOREM OutageIsShut ==
    ASSUME ~LateDecisions, ~LateToggles
    PROVE  GuardSpec => []OutageShutsGate
<1>1. Known /\ PromptInv => OutageShutsGate
  BY DEF Known, SoundGate, PromptInv, CutSound, OutageShutsGate, Settled, Unlocked, Probing
<1>2. QED
  BY <1>1, PromptInvariant, PTL

=============================================================================
