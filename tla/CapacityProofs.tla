---------------------------- MODULE CapacityProofs ----------------------------
(***************************************************************************)
(* The two places where work is admitted to a capacity.                    *)
(*                                                                         *)
(* The adaptive gate counts its tasks exactly, lends capacity above the    *)
(* restore ceiling only under a burst hold and keeps the node gate         *)
(* informed, for every batch and every choice of its limits.  The three    *)
(* arguments are independent: the door, the capacity, and the news, of     *)
(* which the last always tells the capacity that holds.                    *)
(*                                                                         *)
(* The browser pool counts in each slot the reservations and the windows   *)
(* that are there, never more than the slot has contexts, and takes a      *)
(* live browser away only without windows and once for one loss, for any   *)
(* number of slots, registrations and contexts, as long as no deadline     *)
(* falls into the capture of a failure and no browser dies under the       *)
(* operator's hands: TLC finds what goes wrong otherwise.  Its invariant   *)
(* adds to what a slot counts who drives its recycler, and for which       *)
(* browser.                                                                *)
(***************************************************************************)
EXTENDS AdaptiveGate, BrowserPool, FiniteSetTheorems, SequenceTheorems, TLAPS

-------------------------------------------------------------------------------
(* The adaptive gate.                                                      *)

Capacities == Minimum..Ceiling
Item == Reporters \X Capacities

\* f announces a change of capacity from old to new, if there is one.
Tells(f, old, new) == /\ f \in Seq(Item)
                      /\ f = <<>> => old = new
                      /\ f # <<>> => f[Len(f)][2] = new

Door == gateStage \in [GateTasks -> GateStages] /\ DoorCounts

Capacity == /\ taskLimit \in Capacities /\ peakLimit \in Capacities
            /\ burstHold \in {"none", "held", "due"}
            /\ taskLimit <= peakLimit /\ BaseLimit <= peakLimit
            /\ BurstIsTemporary

Informed == /\ news \in Seq(Item) /\ newsOvertaken \in BOOLEAN
            /\ ~newsOvertaken => /\ news = <<>> => nodeLimit = Lesser(RestoreCeiling, taskLimit)
                                 /\ news # <<>> => news[Len(news)][2] = taskLimit

GateInv == Door /\ Capacity /\ Informed /\ NeverOverfull

-------------------------------------------------------------------------------
(* The news.                                                               *)

LEMMA Limits ==
  /\ Minimum \in Nat \ {0} /\ BaseLimit \in Nat /\ RestoreCeiling \in Nat /\ Ceiling \in Nat
  /\ ImmediateResetLimit \in Nat /\ BurstStep \in Nat \ {0}
  /\ Minimum <= BaseLimit /\ BaseLimit <= RestoreCeiling /\ RestoreCeiling <= Ceiling
  /\ Minimum <= ImmediateResetLimit /\ ImmediateResetLimit <= Ceiling
  /\ \A n \in Capacities : n \in Int /\ n >= Minimum /\ n <= Ceiling
  /\ \A n \in Int : n >= Minimum /\ n <= Ceiling => n \in Capacities
  BY GateLimitsAssumption, GateThresholdsAssumption DEF Capacities

LEMMA TellsNothing == ASSUME NEW n PROVE Tells(<<>>, n, n)
  BY DEF Tells

LEMMA TellsOne ==
  ASSUME NEW r \in Reporters, NEW old, NEW new \in Capacities
  PROVE  Tells(<<<<r, new>>>>, old, new)
<1>1. <<r, new>> \in Item
  BY DEF Item
<1>2. <<<<r, new>>>> \in Seq(Item) /\ Len(<<<<r, new>>>>) = 1 /\ <<<<r, new>>>> # <<>>
      /\ <<<<r, new>>>>[1] = <<r, new>>
  BY <1>1
<1> QED BY <1>2 DEF Tells

LEMMA TellsAnnounced ==
  ASSUME NEW r \in Reporters, NEW old, NEW new \in Capacities
  PROVE  Tells(Announcement(r, old, new), old, new)
<1>1. CASE old = new
  BY <1>1, TellsNothing DEF Announcement
<1>2. CASE old # new
  BY <1>2, TellsOne DEF Announcement
<1> QED BY <1>1, <1>2

LEMMA TellsBoth ==
  ASSUME NEW f, NEW g, NEW a, NEW b, NEW c, Tells(f, a, b), Tells(g, b, c)
  PROVE  Tells(f \o g, a, c)
<1>1. f \in Seq(Item) /\ g \in Seq(Item)
  BY DEF Tells
<1>2. /\ f \o g \in Seq(Item) /\ Len(f \o g) = Len(f) + Len(g)
      /\ Len(f) \in Nat /\ Len(g) \in Nat
      /\ \A i \in 1..(Len(f) + Len(g)) : (f \o g)[i] = IF i <= Len(f) THEN f[i] ELSE g[i - Len(f)]
  BY <1>1, ConcatProperties
<1>3. CASE g = <<>>
  <2>1. Len(g) = 0 /\ b = c
    BY <1>3 DEF Tells
  <2>2. f \o g = f
    BY <1>1, <1>3
  <2> QED BY <2>1, <2>2 DEF Tells
<1>4. CASE g # <<>>
  <2>1. Len(g) > 0
    BY <1>1, <1>2, <1>4, EmptySeq
  <2>2. (f \o g)[Len(f) + Len(g)] = g[Len(g)]
    BY <1>2, <2>1
  <2>3. f \o g # <<>>
    BY <1>2, <2>1
  <2> QED BY <1>2, <1>4, <2>2, <2>3 DEF Tells
<1> QED BY <1>3, <1>4

\* Announcing keeps the node gate informed.
LEMMA AnnounceInforms ==
  ASSUME Informed, NEW fresh, Announce(fresh), Tells(fresh, taskLimit, taskLimit'),
         newsOvertaken' = newsOvertaken, nodeLimit' = nodeLimit
  PROVE  Informed'
<1>1. news \in Seq(Item) /\ fresh \in Seq(Item) /\ news' = news \o fresh
  BY DEF Informed, Tells, Announce
<1>2. news' \in Seq(Item)
  BY <1>1, ConcatProperties
<1>3. ASSUME ~newsOvertaken, news = <<>>
      PROVE  /\ news' = <<>> => nodeLimit' = Lesser(RestoreCeiling, taskLimit')
             /\ news' # <<>> => news'[Len(news')][2] = taskLimit'
  <2>1. news' = fresh
    BY <1>1, <1>3
  <2> QED BY <1>3, <2>1 DEF Informed, Tells
<1>4. ASSUME ~newsOvertaken, news # <<>>
      PROVE  /\ news' = <<>> => nodeLimit' = Lesser(RestoreCeiling, taskLimit')
             /\ news' # <<>> => news'[Len(news')][2] = taskLimit'
  <2>1. Tells(news, taskLimit, taskLimit)
    BY <1>1, <1>4 DEF Informed, Tells
  <2>2. Tells(news', taskLimit, taskLimit')
    BY <1>1, <2>1, TellsBoth
  <2>3. news' # <<>>
    <3>1. Len(news) > 0 /\ Len(news') = Len(news) + Len(fresh) /\ Len(fresh) \in Nat /\ Len(news) \in Nat
      BY <1>1, <1>4, ConcatProperties, EmptySeq
    <3> QED BY <3>1
  <2> QED BY <2>2, <2>3 DEF Tells
<1> QED BY <1>2, <1>3, <1>4 DEF Informed

\* Nothing that the node gate is told about changes.
LEMMA StaysInformed ==
  ASSUME Informed, UNCHANGED <<news, newsOvertaken, nodeLimit, taskLimit>> PROVE Informed'
  BY DEF Informed

LEMMA DeliverInforms ==
  ASSUME Informed, Capacity, NEW i \in 1..Len(news), DeliverNews(i) PROVE Informed'
<1>1. /\ nodeLimit' = Greater(1, Lesser(RestoreCeiling, news[i][2]))
      /\ newsOvertaken' = (newsOvertaken \/ i > 1)
      /\ news' = SubSeq(news, 1, i - 1) \o SubSeq(news, i + 1, Len(news))
      /\ taskLimit' = taskLimit
  BY DEF DeliverNews, capacityVars
<1>2. news \in Seq(Item) /\ Len(news) \in Nat /\ i \in Int
  BY DEF Informed
<1> DEFINE before == SubSeq(news, 1, i - 1)
           after == SubSeq(news, i + 1, Len(news))
<1>9. i >= 1 /\ i <= Len(news) /\ \A k \in 1..Len(news) : news[k] \in Item
  BY <1>2
<1>10. before \in Seq(Item) /\ Len(before) = i - 1
  <2>1. \A k \in 1..(i - 1) : news[k] \in Item
    BY <1>2, <1>9
  <2>2. i - 1 \in Int
    BY <1>2
  <2>3. before \in Seq(Item) /\ Len(before) = IF 1 <= i - 1 THEN (i - 1) - 1 + 1 ELSE 0
    BY <2>1, <2>2, SubSeqProperties
  <2> QED BY <1>2, <1>9, <2>3
<1>3. /\ after \in Seq(Item) /\ Len(after) = Len(news) - i
      /\ \A k \in 1..(Len(news) - i) : after[k] = news[i + k]
  <2>1. \A k \in (i + 1)..Len(news) : news[k] \in Item
    BY <1>2, <1>9
  <2>2. i + 1 \in Int
    BY <1>2
  <2>3. /\ after \in Seq(Item) /\ Len(after) = IF i + 1 <= Len(news) THEN Len(news) - (i + 1) + 1 ELSE 0
        /\ \A k \in 1..(Len(news) - (i + 1) + 1) : after[k] = news[(i + 1) + k - 1]
    BY <1>2, <2>1, <2>2, SubSeqProperties
  <2> HIDE DEF after
  <2>4. Len(after) = Len(news) - i
    BY <1>2, <1>9, <2>3
  <2>5. ASSUME NEW k \in 1..(Len(news) - i) PROVE after[k] = news[i + k]
    <3>1. k \in 1..(Len(news) - (i + 1) + 1) /\ (i + 1) + k - 1 = i + k
      BY <1>2, <2>5
    <3> QED BY <2>3, <3>1
  <2> QED BY <2>3, <2>4, <2>5
<1> HIDE DEF before, after
<1>4. /\ news' \in Seq(Item) /\ Len(news') = Len(news) - 1
      /\ \A k \in 1..Len(news') : k > i - 1 => news'[k] = after[k - (i - 1)]
  <2>1. news' = before \o after
    BY <1>1 DEF before, after
  <2>2. /\ news' \in Seq(Item) /\ Len(news') = Len(before) + Len(after)
        /\ \A k \in 1..(Len(before) + Len(after)) : news'[k] = IF k <= Len(before) THEN before[k] ELSE after[k - Len(before)]
    BY <1>3, <1>10, <2>1, ConcatProperties
  <2>3. Len(news') = Len(news) - 1
    BY <1>2, <1>3, <1>10, <2>2
  <2>4. ASSUME NEW k \in 1..Len(news'), k > i - 1 PROVE news'[k] = after[k - (i - 1)]
    BY <1>2, <1>3, <1>10, <2>2, <2>4
  <2> QED BY <2>2, <2>3, <2>4
<1>5. ASSUME ~newsOvertaken' PROVE ~newsOvertaken /\ i = 1
  <2>1. ~newsOvertaken /\ ~(i > 1)
    BY <1>1, <1>5
  <2> QED BY <1>9, <1>2, <2>1
<1>6. ASSUME ~newsOvertaken', news' = <<>> PROVE nodeLimit' = Lesser(RestoreCeiling, taskLimit')
  <2>1. Len(news) = 1 /\ news # <<>> /\ i = 1 /\ ~newsOvertaken
    BY <1>2, <1>4, <1>5, <1>6
  <2>2. news[i][2] = taskLimit
    BY <2>1 DEF Informed
  <2>3. taskLimit \in Int /\ taskLimit >= 1 /\ RestoreCeiling \in Int /\ RestoreCeiling >= 1
    BY Limits DEF Capacity
  <2>4. Greater(1, Lesser(RestoreCeiling, taskLimit)) = Lesser(RestoreCeiling, taskLimit)
    BY <2>3 DEF Greater, Lesser
  <2> QED BY <1>1, <2>2, <2>4
<1>7. ASSUME ~newsOvertaken', news' # <<>> PROVE news'[Len(news')][2] = taskLimit'
  <2>1. i = 1 /\ ~newsOvertaken /\ Len(news') > 0 /\ Len(news') \in 1..Len(news')
    BY <1>4, <1>5, <1>7, EmptySeq
  <2>2. news'[Len(news')] = news[Len(news)]
    BY <1>2, <1>3, <1>4, <2>1
  <2>3. news # <<>>
    BY <1>2, <1>4, <2>1
  <2> QED BY <1>1, <2>1, <2>2, <2>3 DEF Informed
<1>8. newsOvertaken' \in BOOLEAN
  BY <1>1 DEF Informed
<1> QED BY <1>4, <1>6, <1>7, <1>8 DEF Informed

-------------------------------------------------------------------------------
(* The capacity.                                                           *)

\* The capacity after an overdue burst has expired.
LEMMA Expired ==
  ASSUME Capacity
  PROVE  /\ LimitNow \in Capacities /\ LimitNow <= taskLimit /\ LimitNow <= peakLimit
         /\ BurstNow \in {"none", "held"}
         /\ LimitNow > RestoreCeiling => BurstNow = "held"
         /\ BurstOver => burstHold = "due"
<1>1. /\ taskLimit \in Int /\ taskLimit >= Minimum /\ taskLimit <= Ceiling /\ peakLimit \in Int
      /\ taskLimit <= peakLimit /\ burstHold \in {"none", "held", "due"}
      /\ taskLimit > RestoreCeiling => burstHold # "none"
      /\ RestoreCeiling \in Int /\ RestoreCeiling >= Minimum /\ RestoreCeiling <= Ceiling
  BY Limits DEF Capacity, BurstIsTemporary
<1>2. /\ LimitNow \in Int /\ LimitNow >= Minimum /\ LimitNow <= Ceiling
      /\ LimitNow <= taskLimit /\ LimitNow <= peakLimit
  BY <1>1, Limits DEF LimitNow, Lesser
<1>3. BurstNow \in {"none", "held"} /\ (LimitNow > RestoreCeiling => BurstNow = "held")
  BY <1>1 DEF LimitNow, BurstNow, BurstOver, Lesser
<1> QED BY <1>2, <1>3, Limits DEF BurstOver

\* What a step has to show of the capacity: the new limit is granted, in range
\* and told; a limit above the restore ceiling is held.
Granted(fresh) == /\ taskLimit' \in Capacities /\ peakLimit' \in Capacities
                  /\ burstHold' \in {"none", "held", "due"}
                  /\ taskLimit' <= peakLimit' /\ peakLimit <= peakLimit'
                  /\ taskLimit' > RestoreCeiling => burstHold' # "none"
                  /\ Announce(fresh) /\ Tells(fresh, taskLimit, taskLimit')
                  /\ newsOvertaken' = newsOvertaken /\ nodeLimit' = nodeLimit

LEMMA GrantedKeeps ==
  ASSUME Capacity, Informed, NEW fresh, Granted(fresh)
  PROVE  Capacity' /\ Informed' /\ peakLimit <= peakLimit'
<1>1. BaseLimit <= peakLimit'
  <2>1. /\ BaseLimit \in Int /\ peakLimit \in Int /\ peakLimit' \in Int
        /\ BaseLimit <= peakLimit /\ peakLimit <= peakLimit'
    BY Limits DEF Capacity, Granted
  <2> QED BY <2>1
<1>2. Capacity'
  BY <1>1 DEF Capacity, Granted, BurstIsTemporary, Capacities
<1>3. Informed'
  BY AnnounceInforms DEF Granted
<1> QED BY <1>2, <1>3 DEF Granted

\* A step that only expires the burst.
LEMMA ExpiryGrants ==
  ASSUME Capacity, NEW r \in Reporters, taskLimit' = LimitNow, burstHold' = BurstNow,
         peakLimit' = peakLimit, Announce(ExpiryNews(r)), newsOvertaken' = newsOvertaken,
         nodeLimit' = nodeLimit
  PROVE  Granted(ExpiryNews(r))
<1>1. peakLimit \in Capacities /\ peakLimit <= peakLimit
  BY Limits DEF Capacity
<1>2. Tells(ExpiryNews(r), taskLimit, LimitNow)
  BY Expired, TellsAnnounced DEF ExpiryNews
<1>3. BurstNow \in {"none", "held", "due"}
  BY Expired
<1>4. LimitNow \in Capacities /\ LimitNow <= peakLimit /\ (LimitNow > RestoreCeiling => BurstNow # "none")
  BY Expired
<1> HIDE DEF Capacities
<1> QED BY <1>1, <1>2, <1>3, <1>4 DEF Granted

LEMMA SuccessGrants ==
  ASSUME Capacity, NEW t \in GateTasks, ReportSuccess(t) PROVE \E fresh : Granted(fresh)
<1> DEFINE fresh == ExpiryNews(t) \o Announcement(t, LimitNow, taskLimit')
<1>1. PICK restore \in BOOLEAN :
        /\ restore => LimitNow < RestoreCeiling
        /\ taskLimit' = LimitNow + AsCount(restore)
        /\ peakLimit' = IF restore THEN Greater(peakLimit, taskLimit') ELSE peakLimit
        /\ burstHold' = BurstNow /\ Announce(fresh)
        /\ newsOvertaken' = newsOvertaken /\ nodeLimit' = nodeLimit
  <2> DEFINE restore == /\ gateHealth = "sound" /\ Backlog
                        /\ LimitNow < RestoreCeiling
                        /\ Lesser(successStreak + 1, RestoreSuccesses) = RestoreSuccesses
  <2>1. restore \in BOOLEAN
    BY DEF Backlog
  <2>2. /\ restore => LimitNow < RestoreCeiling
        /\ taskLimit' = LimitNow + AsCount(restore)
        /\ peakLimit' = IF restore THEN Greater(peakLimit, taskLimit') ELSE peakLimit
        /\ burstHold' = BurstNow /\ Announce(fresh)
        /\ newsOvertaken' = newsOvertaken /\ nodeLimit' = nodeLimit
    BY DEF ReportSuccess
  <2> HIDE DEF restore
  <2> QED BY <2>1, <2>2
<1>2. /\ LimitNow \in Int /\ LimitNow >= Minimum /\ LimitNow <= Ceiling /\ LimitNow <= peakLimit
      /\ peakLimit \in Int /\ peakLimit >= Minimum /\ peakLimit <= Ceiling
      /\ LimitNow > RestoreCeiling => BurstNow = "held"
      /\ BurstNow \in {"none", "held"}
      /\ RestoreCeiling \in Int /\ RestoreCeiling <= Ceiling /\ Minimum \in Int /\ Ceiling \in Int
  BY Expired, Limits DEF Capacity
<1>3. /\ taskLimit' \in Int /\ taskLimit' >= Minimum /\ taskLimit' <= Ceiling
      /\ taskLimit' > RestoreCeiling => taskLimit' = LimitNow
      /\ peakLimit' \in Int /\ peakLimit' >= peakLimit /\ peakLimit' <= Ceiling /\ taskLimit' <= peakLimit'
  <2>1. CASE restore
    <3>1. taskLimit' = LimitNow + 1 /\ peakLimit' = Greater(peakLimit, taskLimit') /\ LimitNow < RestoreCeiling
      BY <1>1, <2>1 DEF AsCount
    <3> QED BY <1>2, <3>1 DEF Greater
  <2>2. CASE ~restore
    <3>1. taskLimit' = LimitNow + 0 /\ peakLimit' = peakLimit
      BY <1>1, <2>2 DEF AsCount
    <3> QED BY <1>2, <3>1
  <2> QED BY <2>1, <2>2
<1>4. taskLimit' \in Capacities /\ peakLimit' \in Capacities
  BY <1>2, <1>3, Limits
<1>5. Tells(fresh, taskLimit, taskLimit')
  <2>1. t \in Reporters
    BY DEF Reporters
  <2>2. Tells(ExpiryNews(t), taskLimit, LimitNow)
    BY <2>1, Expired, TellsAnnounced DEF ExpiryNews
  <2>3. Tells(Announcement(t, LimitNow, taskLimit'), LimitNow, taskLimit')
    BY <1>4, <2>1, TellsAnnounced
  <2> QED BY <2>2, <2>3, TellsBoth
<1> HIDE DEF fresh
<1>6. Granted(fresh)
  BY <1>1, <1>2, <1>3, <1>4, <1>5 DEF Granted
<1> QED BY <1>6

LEMMA BannedGrants ==
  ASSUME Capacity, NEW t \in GateTasks, ReportBanned(t) PROVE \E fresh : Granted(fresh)
<1> DEFINE canBurst == /\ Ceiling > RestoreCeiling /\ Backlog /\ gateHealth # "pressed"
                       /\ LimitNow >= RestoreCeiling
           atTop    == canBurst /\ LimitNow >= Ceiling
           counts   == canBurst /\ ~atTop
           promotes == counts /\ BannedNow + 1 >= BannedThreshold
           raised   == IF promotes THEN Lesser(Ceiling, LimitNow + BurstStep) ELSE LimitNow
           holds    == \/ atTop
                       \/ counts /\ (LimitNow > RestoreCeiling \/ promotes)
                       \/ /\ ~canBurst /\ gateHealth # "pressed"
                          /\ BurstNow = "held" /\ LimitNow > RestoreCeiling
           fresh    == ExpiryNews(t) \o Announcement(t, LimitNow, raised)
<1>1. /\ taskLimit' = raised /\ peakLimit' = Greater(peakLimit, raised)
      /\ burstHold' = IF holds THEN "held" ELSE BurstNow
      /\ Announce(fresh) /\ newsOvertaken' = newsOvertaken /\ nodeLimit' = nodeLimit
  BY DEF ReportBanned
<1>2. promotes => holds
  OBVIOUS
<1>3. raised = IF promotes THEN Lesser(Ceiling, LimitNow + BurstStep) ELSE LimitNow
  OBVIOUS
<1> HIDE DEF canBurst, atTop, counts, promotes, raised, holds
<1>4. /\ LimitNow \in Int /\ LimitNow >= Minimum /\ LimitNow <= Ceiling /\ LimitNow <= peakLimit
      /\ peakLimit \in Int /\ peakLimit >= Minimum /\ peakLimit <= Ceiling
      /\ LimitNow > RestoreCeiling => BurstNow = "held"
      /\ BurstNow \in {"none", "held"} /\ BurstStep \in Nat
      /\ RestoreCeiling \in Int /\ RestoreCeiling <= Ceiling /\ Minimum \in Int /\ Ceiling \in Int
  BY Expired, Limits DEF Capacity
<1>5. raised \in Int /\ raised >= Minimum /\ raised <= Ceiling
  BY <1>3, <1>4 DEF Lesser
<1>6. /\ peakLimit' \in Int /\ peakLimit' >= Minimum /\ peakLimit' <= Ceiling /\ raised <= peakLimit'
      /\ peakLimit <= peakLimit'
  BY <1>1, <1>4, <1>5 DEF Greater
<1>7. taskLimit' \in Capacities /\ peakLimit' \in Capacities
  BY <1>1, <1>5, <1>6, Limits
<1>8. raised > RestoreCeiling => burstHold' = "held"
  <2>1. CASE promotes
    BY <1>1, <1>2, <2>1
  <2>2. CASE ~promotes
    BY <1>1, <1>3, <1>4, <2>2
  <2> QED BY <2>1, <2>2
<1>9. burstHold' \in {"none", "held", "due"}
  BY <1>1, <1>4
<1>10. Tells(fresh, taskLimit, taskLimit')
  <2>1. t \in Reporters
    BY DEF Reporters
  <2>2. Tells(ExpiryNews(t), taskLimit, LimitNow)
    BY <2>1, Expired, TellsAnnounced DEF ExpiryNews
  <2>3. Tells(Announcement(t, LimitNow, raised), LimitNow, raised)
    BY <1>1, <1>7, <2>1, TellsAnnounced
  <2> QED BY <1>1, <2>2, <2>3, TellsBoth
<1> HIDE DEF fresh
<1>11. Granted(fresh)
  BY <1>1, <1>6, <1>7, <1>8, <1>9, <1>10 DEF Granted
<1> QED BY <1>11

LEMMA PressureGrants ==
  ASSUME Capacity, NEW t \in GateTasks, NEW n \in PressureNodes, NEW immediate \in BOOLEAN,
         ReportPressure(t, n, immediate)
  PROVE  \E fresh : Granted(fresh)
<1>1. PICK cuts \in BOOLEAN :
        /\ taskLimit' = IF cuts THEN CutLimit(immediate) ELSE LimitNow
        /\ burstHold' = IF cuts THEN "none" ELSE BurstNow
        /\ Announce(ExpiryNews(t) \o IF cuts THEN <<<<t, taskLimit'>>>> ELSE <<>>)
        /\ newsOvertaken' = newsOvertaken /\ nodeLimit' = nodeLimit /\ peakLimit' = peakLimit
  <2> DEFINE accepted == seenPressure[t][n] < (IF immediate THEN 2 ELSE 1)
             events == pressureEvents + AsCount(accepted /\ ~immediate)
             cuts == accepted /\ (immediate \/ events >= PressureThreshold)
  <2>1. cuts \in BOOLEAN
    OBVIOUS
  <2>2. /\ taskLimit' = IF cuts THEN CutLimit(immediate) ELSE LimitNow
        /\ burstHold' = IF cuts THEN "none" ELSE BurstNow
        /\ Announce(ExpiryNews(t) \o IF cuts THEN <<<<t, taskLimit'>>>> ELSE <<>>)
        /\ newsOvertaken' = newsOvertaken /\ nodeLimit' = nodeLimit /\ peakLimit' = peakLimit
    BY DEF ReportPressure
  <2> HIDE DEF cuts
  <2> QED BY <2>1, <2>2
<1> DEFINE fresh == ExpiryNews(t) \o IF cuts THEN <<<<t, taskLimit'>>>> ELSE <<>>
<1>2. /\ LimitNow \in Int /\ LimitNow >= Minimum /\ LimitNow <= Ceiling /\ LimitNow <= peakLimit
      /\ LimitNow \in Capacities /\ peakLimit \in Capacities /\ peakLimit \in Int
      /\ LimitNow > RestoreCeiling => BurstNow = "held"
      /\ BurstNow \in {"none", "held"}
      /\ RestoreCeiling \in Int /\ RestoreCeiling <= Ceiling /\ RestoreCeiling >= Minimum
      /\ ImmediateResetLimit \in Int /\ ImmediateResetLimit >= Minimum
      /\ Minimum \in Int /\ Ceiling \in Int
  BY Expired, Limits DEF Capacity
<1>3. /\ CutLimit(immediate) \in Int /\ CutLimit(immediate) >= Minimum
      /\ CutLimit(immediate) <= LimitNow /\ CutLimit(immediate) <= RestoreCeiling
  BY <1>2 DEF CutLimit, BurstActive, Lesser, Greater
<1>4. /\ taskLimit' \in Int /\ taskLimit' >= Minimum /\ taskLimit' <= LimitNow
      /\ taskLimit' > RestoreCeiling => burstHold' = "held"
      /\ burstHold' \in {"none", "held", "due"}
  BY <1>1, <1>2, <1>3
<1>5. taskLimit' \in Capacities /\ taskLimit' <= peakLimit' /\ peakLimit' \in Capacities /\ peakLimit <= peakLimit'
  BY <1>1, <1>2, <1>4, Limits
<1>6. Tells(fresh, taskLimit, taskLimit')
  <2>1. t \in Reporters
    BY DEF Reporters
  <2>2. Tells(ExpiryNews(t), taskLimit, LimitNow)
    BY <2>1, Expired, TellsAnnounced DEF ExpiryNews
  <2>3. CASE cuts
    <3>1. Tells(<<<<t, taskLimit'>>>>, LimitNow, taskLimit')
      BY <1>5, <2>1, TellsOne
    <3> QED BY <2>2, <2>3, <3>1, TellsBoth
  <2>4. CASE ~cuts
    <3>1. taskLimit' = LimitNow
      BY <1>1, <2>4
    <3>2. Tells(<<>>, LimitNow, taskLimit')
      BY <3>1, TellsNothing
    <3> QED BY <2>2, <2>4, <3>2, TellsBoth
  <2> QED BY <2>3, <2>4
<1> HIDE DEF fresh
<1>7. Announce(fresh)
  BY <1>1 DEF fresh
<1>8. Granted(fresh)
  BY <1>1, <1>4, <1>5, <1>6, <1>7 DEF Granted
<1> QED BY <1>8

LEMMA ResourceGrants ==
  ASSUME Capacity, NEW r \in Reporters, ResourceExhausted(r) \/ ResourceGuarded(r) \/ ResourceRecovers(r)
  PROVE  \/ \E fresh : Granted(fresh)
         \/ UNCHANGED <<news, newsOvertaken, nodeLimit, taskLimit, peakLimit, burstHold>>
<1>1. /\ taskLimit \in Int /\ taskLimit >= Minimum /\ taskLimit <= Ceiling /\ taskLimit <= peakLimit
      /\ peakLimit \in Int /\ peakLimit \in Capacities /\ burstHold \in {"none", "held", "due"}
      /\ taskLimit > RestoreCeiling => burstHold # "none"
      /\ BaseLimit <= peakLimit /\ BaseLimit \in Int /\ BaseLimit >= Minimum /\ BaseLimit <= RestoreCeiling
      /\ RestoreCeiling \in Int /\ Minimum \in Int /\ Ceiling \in Int /\ RestoreCeiling <= Ceiling
  BY Limits DEF Capacity, BurstIsTemporary
<1>2. CASE ResourceExhausted(r)
  <2> DEFINE fresh == IF incidentLevel < 2 \/ taskLimit' < taskLimit THEN <<<<r, taskLimit'>>>> ELSE <<>>
  <2>1. /\ taskLimit' = Lesser(taskLimit, EmergencyLimit) /\ Announce(fresh)
        /\ peakLimit' = peakLimit /\ burstHold' = burstHold
        /\ newsOvertaken' = newsOvertaken /\ nodeLimit' = nodeLimit
    BY <1>2 DEF ResourceExhausted
  <2>2. EmergencyLimit \in Int /\ EmergencyLimit >= Minimum
    BY <1>1 DEF EmergencyLimit, Greater, Lesser
  <2>3. taskLimit' \in Int /\ taskLimit' >= Minimum /\ taskLimit' <= taskLimit
    BY <1>1, <2>1, <2>2 DEF Lesser
  <2>4. taskLimit' \in Capacities /\ taskLimit' <= peakLimit' /\ peakLimit <= peakLimit'
        /\ (taskLimit' > RestoreCeiling => burstHold' # "none")
    BY <1>1, <2>1, <2>3, Limits
  <2>5. Tells(fresh, taskLimit, taskLimit')
    <3>1. CASE incidentLevel < 2 \/ taskLimit' < taskLimit
      BY <2>4, <3>1, TellsOne
    <3>2. CASE ~(incidentLevel < 2 \/ taskLimit' < taskLimit)
      <4>1. taskLimit' = taskLimit
        BY <1>1, <2>3, <3>2
      <4>2. fresh = <<>>
        BY <3>2
      <4> HIDE DEF fresh
      <4> QED BY <4>1, <4>2, TellsNothing
    <3> QED BY <3>1, <3>2
  <2> HIDE DEF fresh
  <2>6. Granted(fresh)
    BY <1>1, <2>1, <2>4, <2>5 DEF Granted
  <2> QED BY <2>6
<1>3. CASE ResourceGuarded(r)
  <2>1. /\ taskLimit' = Lesser(taskLimit, BaseLimit) /\ Announce(Announcement(r, taskLimit, taskLimit'))
        /\ peakLimit' = peakLimit /\ burstHold' = burstHold
        /\ newsOvertaken' = newsOvertaken /\ nodeLimit' = nodeLimit
    BY <1>3 DEF ResourceGuarded
  <2>2. taskLimit' \in Int /\ taskLimit' >= Minimum /\ taskLimit' <= taskLimit
    BY <1>1, <2>1 DEF Lesser
  <2>3. taskLimit' \in Capacities /\ taskLimit' <= peakLimit' /\ peakLimit <= peakLimit'
        /\ (taskLimit' > RestoreCeiling => burstHold' # "none")
    BY <1>1, <2>1, <2>2, Limits
  <2>4. Tells(Announcement(r, taskLimit, taskLimit'), taskLimit, taskLimit')
    BY <2>3, TellsAnnounced
  <2>5. Granted(Announcement(r, taskLimit, taskLimit'))
    BY <1>1, <2>1, <2>3, <2>4 DEF Granted
  <2> QED BY <2>5
<1>4. CASE ResourceRecovers(r)
  <2>1. peakLimit' = peakLimit /\ burstHold' = burstHold /\ newsOvertaken' = newsOvertaken /\ nodeLimit' = nodeLimit
    BY <1>4 DEF ResourceRecovers
  <2>2. \/ news' = news /\ taskLimit' = taskLimit
        \/ taskLimit' = Greater(taskLimit, BaseLimit) /\ Announce(Announcement(r, taskLimit, taskLimit'))
    BY <1>4 DEF ResourceRecovers
  <2>3. CASE news' = news /\ taskLimit' = taskLimit
    BY <2>1, <2>3
  <2>4. CASE taskLimit' = Greater(taskLimit, BaseLimit) /\ Announce(Announcement(r, taskLimit, taskLimit'))
    <3>1. /\ taskLimit' \in Int /\ taskLimit' >= Minimum /\ taskLimit' <= Ceiling /\ taskLimit' <= peakLimit
          /\ taskLimit' > RestoreCeiling => taskLimit > RestoreCeiling
      BY <1>1, <2>4 DEF Greater
    <3>2. taskLimit' \in Capacities /\ taskLimit' <= peakLimit' /\ peakLimit <= peakLimit'
          /\ (taskLimit' > RestoreCeiling => burstHold' # "none")
      BY <1>1, <2>1, <3>1, Limits
    <3>3. Tells(Announcement(r, taskLimit, taskLimit'), taskLimit, taskLimit')
      BY <3>2, TellsAnnounced
    <3>4. Granted(Announcement(r, taskLimit, taskLimit'))
      BY <1>1, <2>1, <2>4, <3>2, <3>3 DEF Granted
    <3> QED BY <3>4
  <2> QED BY <2>2, <2>3, <2>4
<1> QED BY <1>2, <1>3, <1>4

-------------------------------------------------------------------------------
(* The door.                                                               *)

\* The stages partition a finite set of tasks, so their counts are numbers.
LEMMA Counted ==
  ASSUME NEW s PROVE IsFiniteSet(TasksAt(s)) /\ Cardinality(TasksAt(s)) \in Nat
<1>1. TasksAt(s) \subseteq GateTasks
  BY DEF TasksAt
<1>2. IsFiniteSet(TasksAt(s))
  BY <1>1, GateThresholdsAssumption, FS_Subset
<1> QED BY <1>2, FS_CardinalityType

\* A task that moves on leaves one stage, joins another and disturbs no third.
LEMMA Moves ==
  ASSUME gateStage \in [GateTasks -> GateStages], NEW t \in GateTasks,
         NEW from, gateStage[t] = from, NEW to \in GateStages, from # to,
         gateStage' = [gateStage EXCEPT ![t] = to]
  PROVE  /\ gateStage' \in [GateTasks -> GateStages]
         /\ Cardinality(TasksAt(from)) >= 1
         /\ Cardinality(TasksAt(from)') = Cardinality(TasksAt(from)) - 1
         /\ Cardinality(TasksAt(to)') = Cardinality(TasksAt(to)) + 1
         /\ \A s : s # from /\ s # to => TasksAt(s)' = TasksAt(s)
<1>1. \A u \in GateTasks : gateStage'[u] = IF u = t THEN to ELSE gateStage[u]
  OBVIOUS
<1>2. TasksAt(from)' = TasksAt(from) \ {t} /\ t \in TasksAt(from)
  <2>1. {u \in GateTasks : gateStage'[u] = from} = TasksAt(from) \ {t}
    BY <1>1 DEF TasksAt
  <2> QED BY <2>1 DEF TasksAt
<1>3. TasksAt(to)' = TasksAt(to) \cup {t} /\ t \notin TasksAt(to)
  BY <1>1 DEF TasksAt
<1>4. ASSUME NEW s, s # from, s # to PROVE TasksAt(s)' = TasksAt(s)
  BY <1>1, <1>4 DEF TasksAt
<1>5. Cardinality(TasksAt(from) \ {t}) = Cardinality(TasksAt(from)) - 1
  BY <1>2, Counted, FS_RemoveElement
<1>6. Cardinality(TasksAt(to) \cup {t}) = Cardinality(TasksAt(to)) + 1
  BY <1>3, Counted, FS_AddElement
<1>7. Cardinality(TasksAt(from)) >= 1
  <2>1. TasksAt(from) # {} /\ IsFiniteSet(TasksAt(from)) /\ Cardinality(TasksAt(from)) \in Nat
    BY <1>2, Counted
  <2>2. Cardinality(TasksAt(from)) # 0
    BY <2>1, FS_EmptySet
  <2> QED BY <2>1, <2>2
<1> QED BY <1>2, <1>3, <1>4, <1>5, <1>6, <1>7

LEMMA DoorStays ==
  ASSUME Door, NeverOverfull, UNCHANGED doorVars, Capacity, Capacity', peakLimit <= peakLimit'
  PROVE  Door' /\ NeverOverfull'
<1>1. \A s : TasksAt(s)' = TasksAt(s)
  BY DEF doorVars, TasksAt
<1>2. Door'
  BY <1>1 DEF Door, DoorCounts, doorVars
<1>3. /\ Cardinality(TasksAt("inside")) \in Nat /\ peakLimit \in Int /\ peakLimit' \in Int
      /\ Cardinality(TasksAt("inside")) <= peakLimit
  BY Counted, Limits DEF Capacity, NeverOverfull
<1>4. Cardinality(TasksAt("inside")) <= peakLimit'
  BY <1>3
<1> QED BY <1>1, <1>2, <1>4 DEF NeverOverfull

\* What the counters are, as numbers.
LEMMA DoorNumbers ==
  ASSUME Door, NeverOverfull, Capacity
  PROVE  /\ activeTasks \in Nat /\ waitingTasks \in Nat /\ pendingTasks \in Nat /\ peakLimit \in Int
         /\ Cardinality(TasksAt("inside")) \in Nat /\ Cardinality(TasksAt("waiting")) \in Nat
         /\ Cardinality(TasksAt("queued")) \in Nat
         /\ activeTasks = Cardinality(TasksAt("inside"))
         /\ waitingTasks = Cardinality(TasksAt("waiting"))
         /\ pendingTasks = Cardinality(TasksAt("queued")) + waitingTasks
         /\ activeTasks <= peakLimit /\ gateStage \in [GateTasks -> GateStages]
  BY Counted, Limits DEF Door, DoorCounts, NeverOverfull, Capacity

\* The counters after the step, from the counts of the stages after it.
LEMMA DoorHolds ==
  ASSUME gateStage' \in [GateTasks -> GateStages],
         activeTasks' = Cardinality(TasksAt("inside")'),
         waitingTasks' = Cardinality(TasksAt("waiting")'),
         pendingTasks' = Cardinality(TasksAt("queued")') + waitingTasks',
         activeTasks' <= peakLimit'
  PROVE  Door' /\ NeverOverfull'
  BY DEF Door, DoorCounts, NeverOverfull

LEMMA ArrivesAtDoor ==
  ASSUME Door, NeverOverfull, Capacity, NEW t \in GateTasks, ArriveAtGate(t)
  PROVE  Door' /\ NeverOverfull'
<1>1. /\ gateStage[t] = "queued" /\ gateStage' = [gateStage EXCEPT ![t] = "waiting"]
      /\ waitingTasks' = waitingTasks + 1 /\ pendingTasks' = pendingTasks
      /\ activeTasks' = activeTasks /\ peakLimit' = peakLimit
  BY DEF ArriveAtGate, capacityVars
<1>2. /\ gateStage' \in [GateTasks -> GateStages]
      /\ Cardinality(TasksAt("queued")') = Cardinality(TasksAt("queued")) - 1
      /\ Cardinality(TasksAt("waiting")') = Cardinality(TasksAt("waiting")) + 1
      /\ TasksAt("inside")' = TasksAt("inside")
  BY <1>1, DoorNumbers, Moves DEF GateStages
<1>3. /\ activeTasks' = Cardinality(TasksAt("inside")')
      /\ waitingTasks' = Cardinality(TasksAt("waiting")')
      /\ pendingTasks' = Cardinality(TasksAt("queued")') + waitingTasks'
      /\ activeTasks' <= peakLimit'
  BY <1>1, <1>2, DoorNumbers
<1> QED BY <1>2, <1>3, DoorHolds

LEMMA DiscardedAtDoor ==
  ASSUME Door, NeverOverfull, Capacity, NEW t \in GateTasks, DiscardPending(t)
  PROVE  Door' /\ NeverOverfull'
<1>1. /\ gateStage[t] = "queued" /\ gateStage' = [gateStage EXCEPT ![t] = "left"]
      /\ waitingTasks' = waitingTasks /\ pendingTasks' = OneLess(pendingTasks)
      /\ activeTasks' = activeTasks /\ peakLimit' = peakLimit
  BY DEF DiscardPending, capacityVars
<1>2. /\ gateStage' \in [GateTasks -> GateStages]
      /\ Cardinality(TasksAt("queued")) >= 1
      /\ Cardinality(TasksAt("queued")') = Cardinality(TasksAt("queued")) - 1
      /\ TasksAt("waiting")' = TasksAt("waiting") /\ TasksAt("inside")' = TasksAt("inside")
  BY <1>1, DoorNumbers, Moves DEF GateStages
<1>3. /\ activeTasks' = Cardinality(TasksAt("inside")')
      /\ waitingTasks' = Cardinality(TasksAt("waiting")')
      /\ pendingTasks' = Cardinality(TasksAt("queued")') + waitingTasks'
      /\ activeTasks' <= peakLimit'
  BY <1>1, <1>2, DoorNumbers DEF OneLess, Greater
<1> QED BY <1>2, <1>3, DoorHolds

LEMMA LeavesDoor ==
  ASSUME Door, NeverOverfull, Capacity, NEW t \in GateTasks, LeaveGate(t)
  PROVE  Door' /\ NeverOverfull'
<1>1. /\ gateStage[t] = "inside" /\ gateStage' = [gateStage EXCEPT ![t] = "left"]
      /\ waitingTasks' = waitingTasks /\ pendingTasks' = pendingTasks
      /\ activeTasks' = OneLess(activeTasks) /\ peakLimit' = peakLimit
  BY DEF LeaveGate, capacityVars
<1>2. /\ gateStage' \in [GateTasks -> GateStages]
      /\ Cardinality(TasksAt("inside")) >= 1
      /\ Cardinality(TasksAt("inside")') = Cardinality(TasksAt("inside")) - 1
      /\ TasksAt("waiting")' = TasksAt("waiting") /\ TasksAt("queued")' = TasksAt("queued")
  BY <1>1, DoorNumbers, Moves DEF GateStages
<1>3. /\ activeTasks' = Cardinality(TasksAt("inside")')
      /\ waitingTasks' = Cardinality(TasksAt("waiting")')
      /\ pendingTasks' = Cardinality(TasksAt("queued")') + waitingTasks'
      /\ activeTasks' <= peakLimit'
  BY <1>1, <1>2, DoorNumbers DEF OneLess, Greater
<1> QED BY <1>2, <1>3, DoorHolds

LEMMA PollsDoor ==
  ASSUME Door, NeverOverfull, Capacity, NEW t \in GateTasks, PollGate(t), Capacity'
  PROVE  Door' /\ NeverOverfull'
<1>1. gateStage[t] = "waiting" /\ peakLimit' = peakLimit
  BY DEF PollGate
<1>2. CASE /\ gateStage' = [gateStage EXCEPT ![t] = "left"]
           /\ waitingTasks' = OneLess(waitingTasks) /\ pendingTasks' = OneLess(pendingTasks)
           /\ activeTasks' = activeTasks
  <2>1. /\ gateStage' \in [GateTasks -> GateStages]
        /\ Cardinality(TasksAt("waiting")) >= 1
        /\ Cardinality(TasksAt("waiting")') = Cardinality(TasksAt("waiting")) - 1
        /\ TasksAt("inside")' = TasksAt("inside") /\ TasksAt("queued")' = TasksAt("queued")
    BY <1>1, <1>2, DoorNumbers, Moves DEF GateStages
  <2>2. /\ activeTasks' = Cardinality(TasksAt("inside")')
        /\ waitingTasks' = Cardinality(TasksAt("waiting")')
        /\ pendingTasks' = Cardinality(TasksAt("queued")') + waitingTasks'
        /\ activeTasks' <= peakLimit'
    BY <1>1, <1>2, <2>1, DoorNumbers DEF OneLess, Greater
  <2> QED BY <2>1, <2>2, DoorHolds
<1>3. CASE /\ HasRoom /\ gateStage' = [gateStage EXCEPT ![t] = "inside"]
           /\ waitingTasks' = OneLess(waitingTasks) /\ pendingTasks' = OneLess(pendingTasks)
           /\ activeTasks' = activeTasks + 1
  <2>1. /\ gateStage' \in [GateTasks -> GateStages]
        /\ Cardinality(TasksAt("waiting")) >= 1
        /\ Cardinality(TasksAt("waiting")') = Cardinality(TasksAt("waiting")) - 1
        /\ Cardinality(TasksAt("inside")') = Cardinality(TasksAt("inside")) + 1
        /\ TasksAt("queued")' = TasksAt("queued")
    BY <1>1, <1>3, DoorNumbers, Moves DEF GateStages
  <2>2. activeTasks < LimitNow /\ LimitNow <= peakLimit /\ LimitNow \in Int
    BY <1>3, Expired, Limits DEF HasRoom
  <2>3. /\ activeTasks' = Cardinality(TasksAt("inside")')
        /\ waitingTasks' = Cardinality(TasksAt("waiting")')
        /\ pendingTasks' = Cardinality(TasksAt("queued")') + waitingTasks'
        /\ activeTasks' <= peakLimit'
    BY <1>1, <1>3, <2>1, <2>2, DoorNumbers DEF OneLess, Greater
  <2> QED BY <2>1, <2>3, DoorHolds
<1>4. CASE UNCHANGED doorVars
  <2>1. peakLimit <= peakLimit'
    BY <1>1, DoorNumbers
  <2> QED BY <1>4, <2>1, DoorStays
<1> QED BY <1>2, <1>3, <1>4 DEF PollGate

-------------------------------------------------------------------------------
(* The invariant.                                                          *)

\* A step that leaves the capacity and what is told of it alone.
LEMMA Settled ==
  ASSUME Capacity, Informed, UNCHANGED <<taskLimit, peakLimit, news, newsOvertaken, nodeLimit>>,
         burstHold' = burstHold \/ (burstHold = "held" /\ burstHold' = "due")
  PROVE  Capacity' /\ Informed' /\ peakLimit <= peakLimit'
<1>1. Informed'
  BY StaysInformed
<1>2. peakLimit <= peakLimit'
  BY Limits DEF Capacity
<1>3. Capacity'
  BY DEF Capacity, BurstIsTemporary
<1> QED BY <1>1, <1>2, <1>3

\* A handler that grants a capacity and lets nobody through the door.
LEMMA GrantAlone ==
  ASSUME GateInv, UNCHANGED doorVars, NEW fresh, Granted(fresh) PROVE GateInv'
<1>1. Capacity' /\ Informed' /\ peakLimit <= peakLimit'
  BY GrantedKeeps DEF GateInv
<1>2. Door' /\ NeverOverfull'
  BY <1>1, DoorStays DEF GateInv
<1> QED BY <1>1, <1>2 DEF GateInv

LEMMA SettledAlone ==
  ASSUME GateInv, UNCHANGED <<doorVars, taskLimit, peakLimit, news, newsOvertaken, nodeLimit>>,
         burstHold' = burstHold \/ (burstHold = "held" /\ burstHold' = "due")
  PROVE  GateInv'
<1>1. Capacity' /\ Informed' /\ peakLimit <= peakLimit'
  BY Settled DEF GateInv
<1>2. Door' /\ NeverOverfull'
  BY <1>1, DoorStays DEF GateInv
<1> QED BY <1>1, <1>2 DEF GateInv

LEMMA GateTaskStepKeeps ==
  ASSUME GateInv, NEW t \in GateTasks, GateTaskStep(t) PROVE GateInv'
<1>0. Door /\ Capacity /\ Informed /\ NeverOverfull /\ t \in Reporters
  BY DEF GateInv, Reporters
<1>1. CASE ArriveAtGate(t)
  <2>1. Capacity' /\ Informed'
    BY <1>0, <1>1, Settled DEF ArriveAtGate, capacityVars, newsVars
  <2> QED BY <1>0, <1>1, <2>1, ArrivesAtDoor DEF GateInv
<1>2. CASE PollGate(t)
  <2>1. Granted(ExpiryNews(t))
    BY <1>0, <1>2, ExpiryGrants DEF PollGate
  <2>2. Capacity' /\ Informed'
    BY <1>0, <2>1, GrantedKeeps
  <2> QED BY <1>0, <1>2, <2>2, PollsDoor DEF GateInv
<1>3. CASE DiscardPending(t)
  <2>1. Capacity' /\ Informed'
    BY <1>0, <1>3, Settled DEF DiscardPending, capacityVars, newsVars
  <2> QED BY <1>0, <1>3, <2>1, DiscardedAtDoor DEF GateInv
<1>4. CASE LeaveGate(t)
  <2>1. Capacity' /\ Informed'
    BY <1>0, <1>4, Settled DEF LeaveGate, capacityVars, newsVars
  <2> QED BY <1>0, <1>4, <2>1, LeavesDoor DEF GateInv
<1>5. CASE ReportRepeated(t)
  <2>1. Granted(ExpiryNews(t)) /\ UNCHANGED doorVars
    BY <1>0, <1>5, ExpiryGrants DEF ReportRepeated
  <2> QED BY <2>1, GrantAlone
<1>6. CASE ReportSuccess(t)
  <2>1. UNCHANGED doorVars
    BY <1>6 DEF ReportSuccess
  <2>2. PICK fresh : Granted(fresh)
    BY <1>0, <1>6, SuccessGrants
  <2> QED BY <2>1, <2>2, GrantAlone
<1>7. CASE ReportFailure(t)
  <2>1. Granted(ExpiryNews(t)) /\ UNCHANGED doorVars
    BY <1>0, <1>7, ExpiryGrants DEF ReportFailure
  <2> QED BY <2>1, GrantAlone
<1>8. CASE ReportBanned(t)
  <2>1. UNCHANGED doorVars
    BY <1>8 DEF ReportBanned
  <2>2. PICK fresh : Granted(fresh)
    BY <1>0, <1>8, BannedGrants
  <2> QED BY <2>1, <2>2, GrantAlone
<1>9. ASSUME NEW n \in PressureNodes, NEW immediate \in BOOLEAN, ReportPressure(t, n, immediate)
      PROVE  GateInv'
  <2>1. UNCHANGED doorVars
    BY <1>9 DEF ReportPressure
  <2>2. PICK fresh : Granted(fresh)
    BY <1>0, <1>9, PressureGrants
  <2> QED BY <2>1, <2>2, GrantAlone
<1> QED BY <1>1, <1>2, <1>3, <1>4, <1>5, <1>6, <1>7, <1>8, <1>9 DEF GateTaskStep

LEMMA ResourceKeeps ==
  ASSUME GateInv, NEW r \in Reporters, ResourceExhausted(r) \/ ResourceGuarded(r) \/ ResourceRecovers(r)
  PROVE  GateInv'
<1>1. UNCHANGED doorVars
  BY DEF ResourceExhausted, ResourceGuarded, ResourceRecovers
<1>2. \/ \E fresh : Granted(fresh)
      \/ UNCHANGED <<news, newsOvertaken, nodeLimit, taskLimit, peakLimit, burstHold>>
  BY ResourceGrants DEF GateInv
<1> QED BY <1>1, <1>2, GrantAlone, SettledAlone

LEMMA AdaptKeepsGate == GateInv /\ [AdaptNext]_adaptVars => GateInv'
<1> SUFFICES ASSUME GateInv, [AdaptNext]_adaptVars PROVE GateInv'
  OBVIOUS
<1>1. ASSUME NEW t \in GateTasks, GateTaskStep(t) PROVE GateInv'
  BY <1>1, GateTaskStepKeeps
<1>2. ASSUME NEW r \in Reporters, ResourceExhausted(r) \/ ResourceGuarded(r) \/ ResourceRecovers(r)
      PROVE  GateInv'
  BY <1>2, ResourceKeeps
<1>3. ASSUME NEW i \in 1..Len(news), DeliverNews(i) PROVE GateInv'
  <2>1. UNCHANGED <<doorVars, capacityVars>>
    BY <1>3 DEF DeliverNews
  <2>2. Informed'
    BY <1>3, DeliverInforms DEF GateInv
  <2>3. Capacity' /\ peakLimit <= peakLimit'
    <3>1. peakLimit <= peakLimit'
      BY <2>1, Limits DEF GateInv, Capacity, capacityVars
    <3>2. Capacity'
      BY <2>1 DEF GateInv, Capacity, capacityVars, BurstIsTemporary
    <3> QED BY <3>1, <3>2
  <2>4. Door' /\ NeverOverfull'
    BY <2>1, <2>3, DoorStays DEF GateInv
  <2> QED BY <2>2, <2>3, <2>4 DEF GateInv
<1>4. CASE StopBatch
  BY <1>4, SettledAlone DEF StopBatch, capacityVars, newsVars
<1>5. CASE PauseOver
  BY <1>5, SettledAlone DEF PauseOver, newsVars
<1>6. CASE BurstFallsDue
  BY <1>6, SettledAlone DEF BurstFallsDue, newsVars
<1>7. CASE WindowsSlide
  BY <1>7, SettledAlone DEF WindowsSlide, capacityVars, newsVars
<1>8. CASE QuietElapses
  BY <1>8, SettledAlone DEF QuietElapses, capacityVars, newsVars
<1>9. CASE UNCHANGED adaptVars
  BY <1>9, SettledAlone DEF adaptVars, capacityVars, newsVars
<1> QED BY <1>1, <1>2, <1>3, <1>4, <1>5, <1>6, <1>7, <1>8, <1>9 DEF AdaptNext

LEMMA AdaptStartsGate == AdaptInit => GateInv
<1> SUFFICES ASSUME AdaptInit PROVE GateInv
  OBVIOUS
<1>1. Door
  <2>1. gateStage \in [GateTasks -> GateStages] /\ TasksAt("queued") = GateTasks
        /\ TasksAt("inside") = {} /\ TasksAt("waiting") = {}
    BY DEF AdaptInit, GateStages, TasksAt
  <2>2. Cardinality(GateTasks) \in Nat /\ Cardinality({}) = 0
    BY GateThresholdsAssumption, FS_CardinalityType, FS_EmptySet
  <2>3. activeTasks = 0 /\ waitingTasks = 0 /\ pendingTasks = Cardinality(GateTasks)
    BY DEF AdaptInit
  <2>4. pendingTasks = Cardinality(GateTasks) + waitingTasks
    BY <2>2, <2>3
  <2> QED BY <2>1, <2>2, <2>3, <2>4 DEF Door, DoorCounts
<1>2. Capacity
  <2>1. BaseLimit \in Capacities /\ BaseLimit <= BaseLimit /\ ~(BaseLimit > RestoreCeiling)
    BY GateLimitsAssumption DEF Capacities
  <2>2. taskLimit = BaseLimit /\ peakLimit = BaseLimit /\ burstHold = "none"
    BY DEF AdaptInit
  <2> QED BY <2>1, <2>2 DEF Capacity, BurstIsTemporary
<1>3. Informed
  <2>1. news = <<>> /\ newsOvertaken = FALSE /\ nodeLimit = BaseLimit /\ taskLimit = BaseLimit
    BY DEF AdaptInit
  <2>2. BaseLimit = Lesser(RestoreCeiling, BaseLimit)
    BY GateLimitsAssumption DEF Lesser
  <2>3. news \in Seq(Item)
    BY <2>1, EmptySeq
  <2>4. newsOvertaken \in BOOLEAN
    BY <2>1, Zenon
  <2>5. nodeLimit = Lesser(RestoreCeiling, taskLimit)
    BY <2>1, <2>2, Zenon
  <2> QED BY <2>1, <2>3, <2>4, <2>5, Zenon DEF Informed
<1>4. NeverOverfull
  <2>1. TasksAt("inside") = {} /\ peakLimit = BaseLimit
    BY DEF AdaptInit, TasksAt
  <2>2. Cardinality({}) = 0 /\ BaseLimit \in Nat
    BY FS_EmptySet, GateLimitsAssumption
  <2> QED BY <2>1, <2>2 DEF NeverOverfull
<1> QED BY <1>1, <1>2, <1>3, <1>4 DEF GateInv

THEOREM GateAlways == AdaptSpec => []GateInv
<1>1. AdaptInit => GateInv
  BY AdaptStartsGate
<1>2. GateInv /\ [AdaptNext]_adaptVars => GateInv'
  BY AdaptKeepsGate
<1> QED BY <1>1, <1>2, PTL DEF AdaptSpec

\* Who is counted is who is there, and no more than were ever allowed
\* (acquire, discard_pending, the floors of the counters).
THEOREM AdmissionExact == AdaptSpec => []AdmissionIsExact
<1>1. GateInv => AdmissionIsExact
  BY DEF GateInv, Door, AdmissionIsExact
<1> QED BY <1>1, GateAlways, PTL

\* Capacity above the restore ceiling is only lent, and once told in order the
\* node gate has the task gate's capacity (log_task_limit_change).
THEOREM CapacityLent == AdaptSpec => []CapacityIsLent
<1>1. GateInv => CapacityIsLent
  BY DEF GateInv, Capacity, Informed, CapacityIsLent, NodeFollowsGate
<1> QED BY <1>1, GateAlways, PTL

-------------------------------------------------------------------------------
(* The browser pool.                                                       *)

\* The calls with a reservation on s, and those with a place in it: a reservation or a window.
Reserved(s) == {t \in PoolCalls : call[t].on = s /\ call[t].at \in Reserving}
Placed(s) == Sessions(s) \cup Reserved(s)

SlotRec == [browser : {"live", "dead", "none"}, gen : Nat, draining : BOOLEAN, failed : BOOLEAN,
            active : Nat, holds : Nat, done : Nat]
CallRec == [at : {"out", "scan", "recover", "picked", "over"} \cup Permitted,
            on : PoolSlots \cup {NoSlot}, gen : Nat, seen : Nat, spoilt : BOOLEAN,
            safe : BOOLEAN, again : BOOLEAN, tried : BOOLEAN, kept : BOOLEAN]
CrewRec == [at : {"free", "discard", "drain", "closing"}, gone : Nat, by : Drivers \cup {"nobody"}]
CloserRec == [at : {"idle", "closing", "recycling"}, todo : SUBSET PoolCalls,
              worn : SUBSET PoolSlots, on : PoolSlots \cup {NoSlot}]
PoolRequests == [slot : PoolSlots, gen : Nat, by : Drivers]
PoolStates == [closed : BOOLEAN, deaths : 0 .. MaxDeaths]
Slots == [PoolSlots -> SlotRec]
Calls == [PoolCalls -> CallRec]
Crews == [PoolSlots -> CrewRec]

\* The types, with the bounds on what a slot counts left to SlotCounts.
BrowserTypes ==
    /\ slot \in Slots /\ call \in Calls /\ crew \in Crews /\ waiting \subseteq PoolRequests
    /\ closer \in CloserRec /\ session \subseteq PoolCalls /\ pool \in PoolStates

\* Where a call at a slot is, and that only one that will be replayed forgets its slot.
CallSound(t) ==
    /\ call[t].at \in {"picked"} \cup Permitted => call[t].on \in PoolSlots
    /\ call[t].at \in {"flow", "capture"} => ~call[t].safe

\* A window is of a call that is over, or about to be without a recycle.
WindowSound(t) ==
    /\ call[t].at \in {"leaving", "over"} /\ call[t].on \in PoolSlots /\ ~call[t].safe
    /\ call[t].gen = slot[call[t].on].gen
    /\ call[t].at = "leaving" => call[t].kept /\ ~call[t].spoilt

\* What a slot counts.
SlotCounts(s) ==
    /\ slot[s].active = Cardinality(Reserved(s))
    /\ slot[s].holds = Cardinality(Sessions(s)) + crew[s].gone
    /\ Cardinality(Placed(s)) <= MaxContexts

\* Where a recycler is: only the discard of a dead browser's windows has holds to give up.
CrewSound(s) ==
    /\ crew[s].at = "free" => crew[s].by = "nobody"
    /\ crew[s].at # "free" => crew[s].by \in Drivers
    /\ crew[s].at # "discard" => crew[s].gone = 0
    /\ crew[s].at = "discard" => /\ slot[s].browser # "live" /\ Sessions(s) = {}
                                 /\ crew[s].gone <= MaxContexts
    /\ crew[s].at = "closing" => slot[s].browser = "none"
    /\ crew[s].at = "free" /\ slot[s].draining => slot[s].browser # "live"

\* A call that is being recycled for waits at its own slot; one that recovers, and the
\* listener of a death, find no live browser.
Blind(w) == w = "event" \/ (w \in PoolCalls /\ call[w].at = "recover")
CrewDriven(s) ==
    /\ crew[s].by \in PoolCalls => call[crew[s].by].at \in {"recycle", "recover"}
    /\ crew[s].by \in PoolCalls /\ call[crew[s].by].at = "recycle"
          => /\ call[crew[s].by].on = s
             /\ crew[s].at \in {"discard", "drain"} => call[crew[s].by].gen = slot[s].gen
    /\ Blind(crew[s].by) => slot[s].browser # "live"
RequestDriven(r) ==
    /\ r.by \in PoolCalls => call[r.by].at \in {"recycle", "recover"}
    /\ r.by \in PoolCalls /\ call[r.by].at = "recycle"
          => r.slot = call[r.by].on /\ r.gen = call[r.by].gen
    /\ r.gen <= slot[r.slot].gen
    /\ Blind(r.by) /\ r.gen = slot[r.slot].gen
          => slot[r.slot].browser # "live" /\ crew[r.slot].at # "closing"

\* A call drives one recycler or waits for one.
DrivesOnce ==
    /\ \A r1, r2 \in waiting : r1.by = r2.by /\ r1.by \in PoolCalls => r1 = r2
    /\ \A s1, s2 \in PoolSlots : crew[s1].by = crew[s2].by /\ crew[s1].by \in PoolCalls => s1 = s2
    /\ \A r \in waiting, s \in PoolSlots : r.by \in PoolCalls => crew[s].by # r.by

\* What the operator is closing is there, in a browser that lives.
ClosingSound == \A t \in closer.todo : t \in session /\ slot[call[t].on].browser = "live"

BrowserInv ==
    /\ BrowserTypes
    /\ \A t \in PoolCalls : CallSound(t)
    /\ \A t \in session : WindowSound(t)
    /\ \A s \in PoolSlots : SlotCounts(s) /\ CrewSound(s) /\ CrewDriven(s)
    /\ \A r \in waiting : RequestDriven(r)
    /\ DrivesOnce
    /\ ClosingSound

-------------------------------------------------------------------------------
(* Types.                                                                  *)

LEMMA Counting ==
  ASSUME NEW n \in Nat
  PROVE  /\ OneLess(n) \in Nat
         /\ n > 0 => OneLess(n) = n - 1
         /\ \A m \in Nat : Greater(0, n - m) \in Nat /\ (n >= m => Greater(0, n - m) = n - m)
  BY DEF OneLess, Greater

LEMMA LeftPermitsType == ASSUME NEW c \in CallRec
                         PROVE  LeftPermits(c) \in CallRec
  BY DEF LeftPermits, CallRec, Unasked, Permitted, Reserving

LEMMA ReturnedType == ASSUME NEW c \in CallRec
                      PROVE  Returned(c) \in CallRec
  BY LeftPermitsType DEF Returned, CallRec, Permitted, Reserving

LEMMA CallSetters ==
  ASSUME NEW f \in Calls, NEW t \in PoolCalls
  PROVE  /\ \A v \in {"out", "scan", "recover", "picked", "over"} \cup Permitted : [f EXCEPT ![t].at = v] \in Calls
         /\ \A v \in PoolSlots \cup {NoSlot} : [f EXCEPT ![t].on = v] \in Calls
         /\ \A v \in Nat : [f EXCEPT ![t].gen = v] \in Calls /\ [f EXCEPT ![t].seen = v] \in Calls
         /\ \A v \in BOOLEAN : /\ [f EXCEPT ![t].spoilt = v] \in Calls
                               /\ [f EXCEPT ![t].safe = v] \in Calls
                               /\ [f EXCEPT ![t].tried = v] \in Calls
                               /\ [f EXCEPT ![t].kept = v] \in Calls
         /\ \A v \in CallRec : [f EXCEPT ![t] = v] \in Calls
<1>1. \A v \in {"out", "scan", "recover", "picked", "over"} \cup Permitted : [f EXCEPT ![t].at = v] \in Calls
  BY DEF Calls, CallRec
<1>2. \A v \in PoolSlots \cup {NoSlot} : [f EXCEPT ![t].on = v] \in Calls
  BY DEF Calls, CallRec
<1>3. \A v \in Nat : [f EXCEPT ![t].gen = v] \in Calls /\ [f EXCEPT ![t].seen = v] \in Calls
  BY DEF Calls, CallRec
<1>4. \A v \in BOOLEAN : [f EXCEPT ![t].spoilt = v] \in Calls
  BY DEF Calls, CallRec
<1>5. \A v \in BOOLEAN : [f EXCEPT ![t].safe = v] \in Calls
  BY DEF Calls, CallRec
<1>6. \A v \in BOOLEAN : [f EXCEPT ![t].tried = v] \in Calls
  BY DEF Calls, CallRec
<1>7. \A v \in BOOLEAN : [f EXCEPT ![t].kept = v] \in Calls
  BY DEF Calls, CallRec
<1>8. \A v \in CallRec : [f EXCEPT ![t] = v] \in Calls
  BY DEF Calls
<1> QED BY <1>1, <1>2, <1>3, <1>4, <1>5, <1>6, <1>7, <1>8


LEMMA SlotSetters ==
  ASSUME NEW x \in SlotRec
  PROVE  /\ \A v \in {"live", "dead", "none"} : [x EXCEPT !.browser = v] \in SlotRec
         /\ \A v \in Nat : /\ [x EXCEPT !.gen = v] \in SlotRec /\ [x EXCEPT !.active = v] \in SlotRec
                           /\ [x EXCEPT !.holds = v] \in SlotRec /\ [x EXCEPT !.done = v] \in SlotRec
         /\ \A v \in BOOLEAN : [x EXCEPT !.draining = v] \in SlotRec /\ [x EXCEPT !.failed = v] \in SlotRec
<1>1. \A v \in {"live", "dead", "none"} : [x EXCEPT !.browser = v] \in SlotRec
  BY DEF SlotRec
<1>2. \A v \in Nat : [x EXCEPT !.gen = v] \in SlotRec /\ [x EXCEPT !.active = v] \in SlotRec
  BY DEF SlotRec
<1>3. \A v \in Nat : [x EXCEPT !.holds = v] \in SlotRec /\ [x EXCEPT !.done = v] \in SlotRec
  BY DEF SlotRec
<1>4. \A v \in BOOLEAN : [x EXCEPT !.draining = v] \in SlotRec /\ [x EXCEPT !.failed = v] \in SlotRec
  BY DEF SlotRec
<1> QED BY <1>1, <1>2, <1>3, <1>4

LEMMA SlotForms ==
  ASSUME NEW x \in SlotRec
  PROVE  Spared(x) \in SlotRec /\ Detached(x) \in SlotRec
         /\ \A at : Stopped(x, at) \in SlotRec
<1>1. Spared(x) \in SlotRec
  <2> DEFINE y == [x EXCEPT !.draining = FALSE]
  <2>1. y \in SlotRec
    BY SlotSetters
  <2>2. Spared(x) = [y EXCEPT !.failed = FALSE]
    BY DEF Spared, SlotRec
  <2> HIDE DEF y
  <2> QED BY <2>1, <2>2, SlotSetters
<1>2. Detached(x) \in SlotRec
  <2> DEFINE y == [x EXCEPT !.browser = "none"]
             z == [y EXCEPT !.gen = y.gen + 1]
             u == [z EXCEPT !.done = 0]
  <2>1. y \in SlotRec
    BY SlotSetters
  <2>2. Detached(x) = [u EXCEPT !.draining = TRUE]
    BY DEF Detached, SlotRec
  <2> HIDE DEF y
  <2>3. y.gen + 1 \in Nat
    BY <2>1 DEF SlotRec
  <2>4. z \in SlotRec
    BY <2>1, <2>3, SlotSetters
  <2> HIDE DEF z
  <2>5. u \in SlotRec
    BY <2>4, SlotSetters
  <2> HIDE DEF u
  <2> QED BY <2>2, <2>5, SlotSetters
<1>3. ASSUME NEW at PROVE Stopped(x, at) \in SlotRec
  <2> DEFINE y == [x EXCEPT !.draining = TRUE]
  <2>1. y \in SlotRec /\ [x EXCEPT !.draining = FALSE] \in SlotRec
    BY SlotSetters
  <2>2. Stopped(x, at) = [y EXCEPT !.failed = TRUE] \/ Stopped(x, at) = [x EXCEPT !.draining = FALSE]
    BY DEF Stopped, SlotRec
  <2> HIDE DEF y
  <2> QED BY <2>1, <2>2, SlotSetters
<1> QED BY <1>1, <1>2, <1>3

\* What the forms of a slot leave alone and what they set.
LEMMA SlotFormFields ==
  ASSUME NEW x \in SlotRec
  PROVE  /\ LET y == Spared(x) IN /\ y.browser = x.browser /\ y.gen = x.gen /\ y.draining = FALSE
                                  /\ y.active = x.active /\ y.holds = x.holds
         /\ LET y == Detached(x) IN /\ y.browser = "none" /\ y.gen = x.gen + 1 /\ y.draining = TRUE
                                    /\ y.active = x.active /\ y.holds = x.holds
         /\ \A at : LET y == Stopped(x, at) IN
               /\ y.browser = x.browser /\ y.gen = x.gen
               /\ y.active = x.active /\ y.holds = x.holds
               /\ at = "drain" => y.draining = FALSE
  BY DEF SlotRec, Spared, Detached, Stopped

LEMMA DriverReturnsTypes ==
  ASSUME BrowserTypes, NEW w \in Drivers, DriverReturns(w)
  PROVE  call' \in Calls /\ closer' \in CloserRec
<1>1. ASSUME w \in PoolCalls PROVE [call EXCEPT ![w] = Returned(@)] \in Calls
  BY <1>1, ReturnedType DEF BrowserTypes, Calls
<1>2. call' \in Calls
  BY <1>1 DEF BrowserTypes, DriverReturns
<1>3. closer' \in CloserRec
  <2> DEFINE y == [closer EXCEPT !.at = "closing"]
  <2>1. y \in CloserRec
    BY DEF BrowserTypes, CloserRec
  <2>2. closer' = closer \/ closer' = [y EXCEPT !.on = NoSlot]
    BY DEF DriverReturns, BrowserTypes, CloserRec
  <2> HIDE DEF y
  <2>3. [y EXCEPT !.on = NoSlot] \in CloserRec
    BY <2>1 DEF CloserRec
  <2> QED BY <2>1, <2>2, <2>3 DEF BrowserTypes
<1> QED BY <1>2, <1>3

LEMMA GoOnTypes ==
  ASSUME BrowserTypes, NEW s \in PoolSlots, NEW w \in Drivers, NEW x \in SlotRec, GoOn(s, w, x)
  PROVE  slot' \in Slots /\ crew' \in Crews /\ call' \in Calls /\ closer' \in CloserRec
<1>1. slot \in Slots /\ crew \in Crews /\ call \in Calls /\ closer \in CloserRec
  BY DEF BrowserTypes
<1>2. slot' = [slot EXCEPT ![s] = Spared(x)] \/ slot' = [slot EXCEPT ![s] = x]
      \/ slot' = [slot EXCEPT ![s] = Detached(x)]
  BY DEF GoOn, Detach
<1>3. slot' \in Slots
  BY <1>1, <1>2, SlotForms DEF Slots
<1>4. \E c \in CrewRec : crew' = [crew EXCEPT ![s] = c]
  <2>1. NoCrew \in CrewRec /\ \A at \in {"drain", "closing"} : [at |-> at, gone |-> 0, by |-> w] \in CrewRec
    BY DEF NoCrew, CrewRec
  <2> QED BY <2>1 DEF GoOn, Detach
<1>5. crew' \in Crews
  BY <1>1, <1>4 DEF Crews
<1>6. call' \in Calls /\ closer' \in CloserRec
  BY <1>1, DriverReturnsTypes DEF GoOn, Detach
<1> QED BY <1>3, <1>5, <1>6

LEMMA AskTypes == ASSUME BrowserTypes, NEW t \in PoolCalls, Ask(t) PROVE BrowserTypes'
<1>1. call' \in Calls
  BY CallSetters DEF BrowserTypes, Ask
<1> QED BY <1>1 DEF BrowserTypes, Ask

LEMMA PickTypes == ASSUME BrowserTypes, NEW t \in PoolCalls, NEW s \in PoolSlots, Pick(t, s)
                   PROVE  BrowserTypes'
<1> DEFINE c == [call EXCEPT ![t].at = "picked"]
<1>1. c \in Calls
  BY CallSetters DEF BrowserTypes
<1>2. call' = [c EXCEPT ![t].on = s]
  BY DEF Pick, BrowserTypes, Calls, CallRec
<1> HIDE DEF c
<1>3. call' \in Calls
  BY <1>1, <1>2, CallSetters
<1> QED BY <1>3 DEF BrowserTypes, Pick

LEMMA RecoverSlotTypes == ASSUME BrowserTypes, NEW t \in PoolCalls, NEW s \in PoolSlots, RecoverSlot(t, s)
                          PROVE  BrowserTypes'
<1> DEFINE c == [call EXCEPT ![t].at = "recover"]
<1>1. c \in Calls
  BY CallSetters DEF BrowserTypes
<1>2. call' = [c EXCEPT ![t].tried = TRUE]
  BY DEF RecoverSlot, BrowserTypes, Calls, CallRec
<1> HIDE DEF c
<1>3. call' \in Calls
  BY <1>1, <1>2, CallSetters
<1>4. [slot |-> s, gen |-> slot[s].gen, by |-> t] \in PoolRequests
  BY DEF BrowserTypes, PoolRequests, Slots, SlotRec, Drivers
<1> QED BY <1>3, <1>4 DEF BrowserTypes, RecoverSlot

LEMMA GiveUpTypes == ASSUME BrowserTypes, NEW t \in PoolCalls, GiveUp(t) PROVE BrowserTypes'
<1>1. [call[t] EXCEPT !.safe = TRUE] \in CallRec
  BY DEF BrowserTypes, Calls, CallRec
<1>2. call' = [call EXCEPT ![t] = LeftPermits([call[t] EXCEPT !.safe = TRUE])]
  BY DEF GiveUp
<1>3. call' \in Calls
  BY <1>1, <1>2, LeftPermitsType, CallSetters DEF BrowserTypes
<1> QED BY <1>3 DEF BrowserTypes, GiveUp

LEMMA ReserveSlotTypes ==
  ASSUME BrowserTypes, NEW t \in PoolCalls, ReserveSlot(t), CallSound(t)
  PROVE  BrowserTypes'
<1> DEFINE s == call[t].on
           lost == slot[s].browser # "live"
           c1 == [call EXCEPT ![t].at = IF lost THEN "leaving" ELSE "flow"]
           c2 == [c1 EXCEPT ![t].gen = slot[s].gen]
           c3 == [c2 EXCEPT ![t].spoilt = lost]
           c4 == [c3 EXCEPT ![t].safe = lost]
           d1 == [call EXCEPT ![t].at = "scan"]
           d2 == [d1 EXCEPT ![t].on = NoSlot]
<1>1. call \in Calls /\ slot \in Slots /\ s \in PoolSlots /\ slot[s].gen \in Nat /\ slot[s].active \in Nat
  BY DEF BrowserTypes, Calls, CallRec, Slots, SlotRec, CallSound, ReserveSlot
<1>2. call' = c4 \/ call' = d2
  BY <1>1 DEF ReserveSlot, Calls, CallRec
<1>3. c1 \in Calls /\ d1 \in Calls
  BY <1>1, CallSetters DEF Permitted, Reserving
<1>8. slot' \in Slots
  BY <1>1 DEF ReserveSlot, Slots, SlotRec
<1> HIDE DEF c1, d1
<1>4. c2 \in Calls /\ d2 \in Calls
  BY <1>1, <1>3, CallSetters
<1> HIDE DEF c2
<1>5. c3 \in Calls
  BY <1>1, <1>4, CallSetters
<1> HIDE DEF c3
<1>6. c4 \in Calls
  BY <1>1, <1>5, CallSetters
<1>7. call' \in Calls
  BY <1>2, <1>4, <1>6
<1> QED BY <1>7, <1>8 DEF BrowserTypes, ReserveSlot

LEMMA SucceedTypes ==
  ASSUME BrowserTypes, NEW t \in PoolCalls, Succeed(t), CallSound(t)
  PROVE  BrowserTypes'
<1> DEFINE s == call[t].on
           c == [call EXCEPT ![t].at = "leaving"]
<1>1. call \in Calls /\ slot \in Slots /\ s \in PoolSlots /\ slot[s].done \in Nat
  BY DEF BrowserTypes, Calls, CallRec, Slots, SlotRec, CallSound, Succeed, Permitted, Reserving
<1>2. slot' \in Slots
  BY <1>1 DEF Succeed, Slots, SlotRec
<1>3. c \in Calls
  BY <1>1, CallSetters DEF Permitted, Reserving
<1>4. PICK b \in BOOLEAN : call' = [c EXCEPT ![t].spoilt = b]
  <2>1. call' = [c EXCEPT ![t].spoilt = (slot[s].done + 1 >= MaxRegistrations)]
    BY <1>1 DEF Succeed, Calls, CallRec
  <2>2. (slot[s].done + 1 >= MaxRegistrations) \in BOOLEAN
    OBVIOUS
  <2> QED BY <2>1, <2>2, Zenon
<1> HIDE DEF c
<1>6. [c EXCEPT ![t].spoilt = b] \in Calls
  BY <1>3, CallSetters, Zenon
<1>5. call' \in Calls
  BY <1>4, <1>6
<1> QED BY <1>2, <1>5 DEF BrowserTypes, Succeed

LEMMA FailTypes ==
  ASSUME BrowserTypes, NEW t \in PoolCalls, NEW b \in BOOLEAN, FailEarly(t, b) \/ FailPlainly(t, b)
  PROVE  BrowserTypes'
<1> DEFINE c == [call EXCEPT ![t].at = "leaving"]
           d == [c EXCEPT ![t].spoilt = TRUE]
<1>1. c \in Calls
  BY CallSetters DEF BrowserTypes, Permitted, Reserving
<1>2. call' = [d EXCEPT ![t].safe = b] \/ call' = [c EXCEPT ![t].spoilt = b]
  BY DEF FailEarly, FailPlainly, BrowserTypes, Calls, CallRec
<1> HIDE DEF c
<1>3. d \in Calls
  BY <1>1, CallSetters
<1> HIDE DEF d
<1>5. [d EXCEPT ![t].safe = b] \in Calls
  BY <1>3, CallSetters, Zenon
<1>6. [c EXCEPT ![t].spoilt = b] \in Calls
  BY <1>1, CallSetters, Zenon
<1>4. call' \in Calls
  BY <1>2, <1>5, <1>6
<1> QED BY <1>4 DEF BrowserTypes, FailEarly, FailPlainly

LEMMA FailVisiblyTypes ==
  ASSUME BrowserTypes, NEW t \in PoolCalls, FailVisibly(t), CallSound(t)
  PROVE  BrowserTypes'
<1> DEFINE c == [call EXCEPT ![t].at = "capture"]
<1>1. c \in Calls
  BY CallSetters DEF BrowserTypes, Permitted, Reserving
<1>2. call' = [c EXCEPT ![t].seen = slot[call[t].on].gen] /\ slot[call[t].on].gen \in Nat
  BY DEF FailVisibly, BrowserTypes, Calls, CallRec, CallSound, Permitted, Reserving, Slots, SlotRec
<1> HIDE DEF c
<1>3. call' \in Calls
  BY <1>1, <1>2, CallSetters
<1> QED BY <1>3 DEF BrowserTypes, FailVisibly

LEMMA RetainTypes ==
  ASSUME BrowserTypes, NEW t \in PoolCalls, Retain(t), CallSound(t)
  PROVE  BrowserTypes'
<1> DEFINE s == call[t].on
           c == [call EXCEPT ![t].at = "leaving"]
           d == [c EXCEPT ![t].kept = TRUE]
           e == [d EXCEPT ![t].spoilt = FALSE]
<1>1. call \in Calls /\ slot \in Slots /\ s \in PoolSlots /\ slot[s].holds \in Nat
  BY DEF BrowserTypes, Calls, CallRec, Slots, SlotRec, CallSound, Retain, Permitted, Reserving
<1>2. c \in Calls
  BY <1>1, CallSetters DEF Permitted, Reserving
<1>3. call' = e \/ call' = c
  BY <1>1 DEF Retain, Calls, CallRec
<1>4. slot' \in Slots
  BY <1>1 DEF Retain, Slots, SlotRec
<1> HIDE DEF c
<1>5. d \in Calls
  BY <1>2, CallSetters
<1> HIDE DEF d
<1>6. e \in Calls
  BY <1>5, CallSetters
<1>7. call' \in Calls
  BY <1>2, <1>3, <1>6
<1> QED BY <1>4, <1>7 DEF BrowserTypes, Retain

LEMMA LeavePoolTypes ==
  ASSUME BrowserTypes, NEW t \in PoolCalls, NEW b \in BOOLEAN, LeavePool(t, b), CallSound(t)
  PROVE  BrowserTypes'
<1> DEFINE s == call[t].on
           c == [call EXCEPT ![t].at = "recycle"]
           d == [c EXCEPT ![t].spoilt = TRUE]
           e == [call EXCEPT ![t] = LeftPermits(@)]
           q == [slot |-> s, gen |-> call[t].gen, by |-> t]
<1>1. call \in Calls /\ slot \in Slots /\ s \in PoolSlots /\ slot[s].active \in Nat /\ call[t] \in CallRec
      /\ call[t].gen \in Nat
  BY DEF BrowserTypes, Calls, CallRec, Slots, SlotRec, CallSound, LeavePool, Permitted, Reserving
<1>2. c \in Calls
  BY <1>1, CallSetters DEF Permitted, Reserving
<1>3. (call' = d /\ waiting' = waiting \cup {q}) \/ (call' = e /\ waiting' = waiting)
  <2>1. CASE (call[t].spoilt \/ (~call[t].kept /\ ~b)) /\ call[t].gen = slot[s].gen
    BY <1>1, <2>1 DEF LeavePool, Calls, CallRec
  <2>2. CASE ~((call[t].spoilt \/ (~call[t].kept /\ ~b)) /\ call[t].gen = slot[s].gen)
    BY <1>1, <2>2 DEF LeavePool, Calls, CallRec
  <2> QED BY <2>1, <2>2
<1>4. slot' \in Slots
  <2>1. OneLess(slot[s].active) \in Nat
    BY <1>1, Counting
  <2> QED BY <1>1, <2>1 DEF LeavePool, Slots, SlotRec
<1>5. e \in Calls
  BY <1>1, LeftPermitsType DEF Calls
<1>6. q \in PoolRequests
  BY <1>1 DEF PoolRequests, Drivers
<1> HIDE DEF c, q
<1>7. d \in Calls
  BY <1>2, CallSetters
<1>8. call' \in Calls /\ waiting' \subseteq PoolRequests
  BY <1>3, <1>5, <1>6, <1>7 DEF BrowserTypes
<1> QED BY <1>4, <1>8 DEF BrowserTypes, LeavePool

LEMMA ExpireTypes ==
  ASSUME BrowserTypes, NEW t \in PoolCalls, Expire(t)
  PROVE  BrowserTypes'
<1> DEFINE over == [call EXCEPT ![t].at = "over"]
           c == [call EXCEPT ![t].at = "leaving"]
           d == [c EXCEPT ![t].spoilt = TRUE]
<1>1. over \in Calls /\ c \in Calls
  BY CallSetters DEF BrowserTypes, Permitted, Reserving
<1>2. call' = over \/ call' = d
  BY DEF Expire, BrowserTypes, Calls, CallRec
<1>3. slot' \in Slots
  <2>1. \A s \in PoolSlots : slot[s] \in SlotRec /\ Stopped(slot[s], crew[s].at) \in SlotRec
    BY SlotForms DEF BrowserTypes, Slots
  <2> QED BY <2>1 DEF Expire, BrowserTypes, Slots
<1>4. crew' \in Crews
  <2>1. NoCrew \in CrewRec /\ \A s \in PoolSlots : crew[s] \in CrewRec
    BY DEF BrowserTypes, Crews, CrewRec, NoCrew
  <2> QED BY <2>1 DEF Expire, BrowserTypes, Crews
<1>5. waiting' \subseteq PoolRequests
  BY DEF Expire, BrowserTypes
<1> HIDE DEF over, c
<1>6. d \in Calls
  BY <1>1, CallSetters
<1>7. call' \in Calls
  BY <1>1, <1>2, <1>6
<1> QED BY <1>3, <1>4, <1>5, <1>7 DEF BrowserTypes, Expire

LEMMA BeginTypes ==
  ASSUME BrowserTypes, NEW r \in waiting, Begin(r)
  PROVE  BrowserTypes'
<1> DEFINE s == r.slot
           x == [slot[s] EXCEPT !.draining = TRUE]
<1>1. r.by \in Drivers /\ s \in PoolSlots /\ slot[s] \in SlotRec
  BY DEF BrowserTypes, PoolRequests, Slots
<1>2. x \in SlotRec
  BY <1>1, SlotSetters
<1>3. slot \in Slots /\ crew \in Crews /\ call \in Calls /\ closer \in CloserRec /\ session \subseteq PoolCalls
  BY DEF BrowserTypes
<1>4. waiting' \subseteq PoolRequests /\ session' \subseteq PoolCalls /\ pool' \in PoolStates
  BY DEF BrowserTypes, Begin
<1>5. slot' \in Slots /\ crew' \in Crews /\ call' \in Calls /\ closer' \in CloserRec
  <2>1. CASE DriverReturns(r.by) /\ UNCHANGED <<slot, crew>>
    BY <1>1, <1>3, <2>1, DriverReturnsTypes
  <2>2. CASE GoOn(s, r.by, x)
    BY <1>1, <1>2, <2>2, GoOnTypes
  <2>3. CASE /\ slot' = [slot EXCEPT ![s] = x]
             /\ crew' = [crew EXCEPT ![s] = [at |-> "discard", gone |-> Cardinality(Sessions(s)), by |-> r.by]]
             /\ UNCHANGED <<call, closer>>
    <3>1. Cardinality(Sessions(s)) \in Nat
      BY <1>3, PoolAssumption, FS_Subset, FS_CardinalityType DEF Sessions
    <3>2. [at |-> "discard", gone |-> Cardinality(Sessions(s)), by |-> r.by] \in CrewRec
      BY <1>1, <3>1 DEF CrewRec
    <3> QED BY <1>1, <1>2, <1>3, <2>3, <3>2 DEF Slots, Crews
  <2> QED BY <2>1, <2>2, <2>3 DEF Begin
<1> QED BY <1>4, <1>5 DEF BrowserTypes

LEMMA RecyclerTypes ==
  ASSUME BrowserTypes, NEW s \in PoolSlots, crew[s].at # "free" => crew[s].by \in Drivers,
         Discarded(s) \/ Drained(s) \/ Relaunch(s, TRUE) \/ Relaunch(s, FALSE)
  PROVE  BrowserTypes'
<1>1. slot \in Slots /\ crew \in Crews /\ call \in Calls /\ closer \in CloserRec
      /\ slot[s] \in SlotRec /\ crew[s] \in CrewRec
  BY DEF BrowserTypes, Slots, Crews
<1>2. crew[s].by \in Drivers
  BY DEF Discarded, Drained, Relaunch
<1>3. NoCrew \in CrewRec /\ \A at \in {"drain", "closing"} : [at |-> at, gone |-> 0, by |-> crew[s].by] \in CrewRec
  BY <1>2 DEF NoCrew, CrewRec
<1>4. slot' \in Slots /\ crew' \in Crews /\ call' \in Calls /\ closer' \in CloserRec
  <2>1. CASE Discarded(s)
    <3>1. slot[s].holds \in Nat /\ crew[s].gone \in Nat
      BY <1>1 DEF SlotRec, CrewRec
    <3>2. [slot[s] EXCEPT !.holds = GivenUp(s)] \in SlotRec
      BY <1>1, <3>1, Counting, SlotSetters DEF GivenUp
    <3> QED BY <1>2, <2>1, <3>2, GoOnTypes DEF Discarded
  <2>2. CASE Drained(s)
    <3>1. Spared(slot[s]) \in SlotRec /\ Detached(slot[s]) \in SlotRec
      BY <1>1, SlotForms
    <3>2. slot' = [slot EXCEPT ![s] = Spared(slot[s])] \/ slot' = [slot EXCEPT ![s] = Detached(slot[s])]
      BY <2>2 DEF Drained, Detach
    <3>3. slot' \in Slots
      BY <1>1, <3>1, <3>2 DEF Slots
    <3>4. crew' \in Crews
      BY <1>1, <1>3, <2>2 DEF Drained, Detach, Crews
    <3>5. call' \in Calls /\ closer' \in CloserRec
      BY <1>1, <1>2, <2>2, DriverReturnsTypes DEF Drained, Detach
    <3> QED BY <3>3, <3>4, <3>5
  <2>3. ASSUME NEW ok \in BOOLEAN, Relaunch(s, ok)
        PROVE  slot' \in Slots /\ crew' \in Crews /\ call' \in Calls /\ closer' \in CloserRec
    <3> DEFINE x == [slot[s] EXCEPT !.browser = IF ok THEN "live" ELSE "none"]
               y == [x EXCEPT !.draining = ~ok]
               z == [y EXCEPT !.failed = ~ok]
    <3>1. x \in SlotRec
      BY <1>1, SlotSetters
    <3>2. slot' = [slot EXCEPT ![s] = z]
      BY <1>1, <2>3 DEF Relaunch, Slots, SlotRec
    <3> HIDE DEF x
    <3>3. y \in SlotRec
      <4>1. CASE ok
        BY <3>1, <4>1, SlotSetters
      <4>2. CASE ~ok
        BY <3>1, <4>2, SlotSetters
      <4> QED BY <4>1, <4>2
    <3> HIDE DEF y
    <3>4. z \in SlotRec
      <4>1. CASE ok
        BY <3>3, <4>1, SlotSetters
      <4>2. CASE ~ok
        BY <3>3, <4>2, SlotSetters
      <4> QED BY <4>1, <4>2
    <3> HIDE DEF z
    <3>5. slot' \in Slots
      BY <1>1, <3>2, <3>4 DEF Slots
    <3>6. crew' \in Crews
      BY <1>1, <1>3, <2>3 DEF Relaunch, Crews
    <3> QED BY <1>1, <1>2, <2>3, <3>5, <3>6, DriverReturnsTypes DEF Relaunch
  <2> QED BY <2>1, <2>2, <2>3
<1>5. waiting' = waiting /\ session' = session /\ pool' = pool
  BY DEF Discarded, Drained, Relaunch
<1> QED BY <1>4, <1>5 DEF BrowserTypes

LEMMA DieTypes == ASSUME BrowserTypes, NEW s \in PoolSlots, Die(s) PROVE BrowserTypes'
<1>1. slot' \in Slots
  BY DEF BrowserTypes, Die, Slots, SlotRec
<1>2. [slot |-> s, gen |-> slot[s].gen, by |-> "event"] \in PoolRequests
  BY DEF BrowserTypes, PoolRequests, Slots, SlotRec, Drivers
<1>3. pool' \in PoolStates
  BY PoolAssumption DEF BrowserTypes, Die, PoolStates
<1> QED BY <1>1, <1>2, <1>3 DEF BrowserTypes, Die

LEMMA OperatorTypes ==
  ASSUME BrowserTypes,
         \/ \E ts \in SUBSET session : AskClose(ts)
         \/ \E s \in PoolSlots : CloseRecycles(s)
         \/ CloseEnds \/ ShutDown
  PROVE  BrowserTypes'
<1>1. ASSUME NEW ts \in SUBSET session, AskClose(ts) PROVE BrowserTypes'
  <2>1. closer' \in CloserRec
    BY <1>1 DEF BrowserTypes, AskClose, CloserRec, NoClose
  <2> QED BY <1>1, <2>1 DEF BrowserTypes, AskClose
<1>2. ASSUME NEW s \in PoolSlots, CloseRecycles(s) PROVE BrowserTypes'
  <2>1. [slot |-> s, gen |-> slot[s].gen, by |-> "operator"] \in PoolRequests
    BY DEF BrowserTypes, PoolRequests, Slots, SlotRec, Drivers
  <2> DEFINE x == [closer EXCEPT !.at = "recycling"]
             y == [x EXCEPT !.worn = closer.worn \ {s}]
  <2>2. x \in CloserRec /\ closer.worn \ {s} \subseteq PoolSlots
    BY DEF BrowserTypes, CloserRec
  <2>3. closer' = [y EXCEPT !.on = s]
    BY <1>2 DEF CloseRecycles, BrowserTypes, CloserRec
  <2> HIDE DEF x
  <2>4. y \in CloserRec
    BY <2>2 DEF CloserRec
  <2> HIDE DEF y
  <2>5. closer' \in CloserRec
    BY <2>3, <2>4 DEF CloserRec
  <2> QED BY <1>2, <2>1, <2>5 DEF BrowserTypes, CloseRecycles
<1>3. ASSUME CloseEnds PROVE BrowserTypes'
  BY <1>3 DEF BrowserTypes, CloseEnds, CloserRec, NoClose
<1>4. ASSUME ShutDown PROVE BrowserTypes'
  <2>1. \A t \in PoolCalls : call[t] \in CallRec /\ [call[t] EXCEPT !.at = "over"] \in CallRec
    BY DEF BrowserTypes, Calls, CallRec
  <2>2. call' \in Calls
    BY <1>4, <2>1 DEF ShutDown, Calls
  <2>3. ASSUME NEW s \in PoolSlots PROVE [slot[s] EXCEPT !.browser = "none", !.holds = 0] \in SlotRec
    <3> DEFINE x == [slot[s] EXCEPT !.browser = "none"]
    <3>1. x \in SlotRec
      BY SlotSetters DEF BrowserTypes, Slots
    <3>2. [slot[s] EXCEPT !.browser = "none", !.holds = 0] = [x EXCEPT !.holds = 0]
      BY DEF BrowserTypes, Slots, SlotRec
    <3> HIDE DEF x
    <3> QED BY <3>1, <3>2, SlotSetters
  <2>4. slot' \in Slots
    BY <1>4, <2>3 DEF ShutDown, Slots
  <2>5. crew' \in Crews
    BY <1>4 DEF ShutDown, Crews, CrewRec, NoCrew
  <2>6. closer' \in CloserRec /\ pool' \in PoolStates
    BY <1>4 DEF ShutDown, BrowserTypes, CloserRec, NoClose, PoolStates
  <2> QED BY <1>4, <2>2, <2>4, <2>5, <2>6 DEF BrowserTypes, ShutDown
<1> QED BY <1>1, <1>2, <1>3, <1>4

LEMMA CloseOneTypes ==
  ASSUME BrowserTypes, NEW t \in PoolCalls, NEW ok \in BOOLEAN, CloseOne(t, ok), call[t].on \in PoolSlots
  PROVE  BrowserTypes'
<1> DEFINE s == call[t].on
           h == IF ok THEN OneLess(slot[s].holds) ELSE slot[s].holds
           x == [slot[s] EXCEPT !.holds = h]
<1>1. slot[s] \in SlotRec /\ slot[s].holds \in Nat
  BY DEF BrowserTypes, Slots, SlotRec
<1>2. h \in Nat
  BY <1>1, Counting
<1>3. x \in SlotRec
  BY <1>1, <1>2, SlotSetters
<1>4. slot' = [slot EXCEPT ![s] = x]
  BY DEF CloseOne
<1>5. slot' \in Slots
  BY <1>3, <1>4 DEF BrowserTypes, Slots
<1> DEFINE c == [closer EXCEPT !.todo = closer.todo \ {t}]
<1>6. c \in CloserRec
  BY DEF BrowserTypes, CloserRec
<1>7. closer' \in {[c EXCEPT !.worn = closer.worn], [c EXCEPT !.worn = closer.worn \cup {s}]}
  BY DEF CloseOne, BrowserTypes, CloserRec
<1>8. closer.worn \subseteq PoolSlots /\ closer.worn \cup {s} \subseteq PoolSlots
  BY DEF BrowserTypes, CloserRec
<1> HIDE DEF c, s
<1>9. closer' \in CloserRec
  BY <1>6, <1>7, <1>8 DEF CloserRec
<1> QED BY <1>5, <1>9 DEF BrowserTypes, CloseOne

-------------------------------------------------------------------------------
(* The invariant.                                                          *)

\* The steps a proof distinguishes: a call moves on, and its place with it or not.
OthersStay(t) == \A u \in PoolCalls : u # t => call'[u] = call[u]
SlotsStay == \A s \in PoolSlots :
    /\ slot'[s].browser = slot[s].browser /\ slot'[s].gen = slot[s].gen
    /\ slot'[s].draining = slot[s].draining
    /\ slot'[s].active = slot[s].active /\ slot'[s].holds = slot[s].holds

LEMMA Places ==
  ASSUME BrowserTypes, NEW s
  PROVE  /\ IsFiniteSet(Sessions(s)) /\ IsFiniteSet(Reserved(s)) /\ IsFiniteSet(Placed(s))
         /\ Sessions(s) \subseteq PoolCalls /\ Reserved(s) \subseteq PoolCalls
         /\ Cardinality(Sessions(s)) \in Nat /\ Cardinality(Reserved(s)) \in Nat
         /\ Cardinality(Placed(s)) \in Nat
<1>1. IsFiniteSet(PoolCalls)
  BY PoolAssumption
<1>2. Sessions(s) \subseteq PoolCalls /\ Reserved(s) \subseteq PoolCalls /\ Placed(s) \subseteq PoolCalls
  BY DEF BrowserTypes, Sessions, Reserved, Placed
<1>3. IsFiniteSet(Sessions(s)) /\ IsFiniteSet(Reserved(s)) /\ IsFiniteSet(Placed(s))
  BY <1>1, <1>2, FS_Subset
<1> QED BY <1>2, <1>3, FS_CardinalityType

\* Nobody's place changes.
LEMMA SamePlaces ==
  ASSUME BrowserTypes, session' = session,
         \A t \in session : call'[t].on = call[t].on,
         \A t \in PoolCalls : /\ call'[t].at \in Reserving <=> call[t].at \in Reserving
                              /\ call[t].at \in Reserving => call'[t].on = call[t].on
  PROVE  \A s \in PoolSlots : /\ Sessions(s)' = Sessions(s) /\ Reserved(s)' = Reserved(s)
                              /\ Placed(s)' = Placed(s)
<1> TAKE s \in PoolSlots
<1>1. Sessions(s)' = Sessions(s)
  BY DEF Sessions
<1>2. Reserved(s)' = Reserved(s)
  BY DEF Reserved
<1> QED BY <1>1, <1>2 DEF Placed

LEMMA SameCounts ==
  ASSUME NEW s \in PoolSlots, SlotCounts(s), slot'[s].active = slot[s].active, slot'[s].holds = slot[s].holds,
         crew'[s].gone = crew[s].gone,
         Sessions(s)' = Sessions(s), Reserved(s)' = Reserved(s), Placed(s)' = Placed(s)
  PROVE  SlotCounts(s)'
<1>1. /\ slot'[s].active = Cardinality(Reserved(s)')
      /\ slot'[s].holds = Cardinality(Sessions(s)') + crew'[s].gone
      /\ Cardinality(Placed(s)') <= MaxContexts
  BY DEF SlotCounts
<1> QED BY <1>1 DEF SlotCounts

LEMMA SameCrew ==
  ASSUME NEW s \in PoolSlots, CrewSound(s), crew'[s] = crew[s], slot'[s].browser = slot[s].browser,
         slot'[s].draining = slot[s].draining, Sessions(s)' = Sessions(s)
  PROVE  CrewSound(s)'
<1>1. Sessions(s)' = {} <=> Sessions(s) = {}
  OBVIOUS
<1> QED BY <1>1 DEF CrewSound

\* A call nobody recycles for moves on, and keeps its place if it has one.
LEMMA CallMoves ==
  ASSUME BrowserInv, BrowserTypes', NEW t \in PoolCalls, SlotsStay,
         UNCHANGED <<session, crew, waiting, closer>>, OthersStay(t), t \notin session,
         call[t].at \notin {"recycle", "recover"}, call'[t].at \notin {"recycle", "recover"},
         call'[t].at \in Reserving <=> call[t].at \in Reserving,
         call[t].at \in Reserving => call'[t].on = call[t].on,
         CallSound(t)'
  PROVE  BrowserInv'
<1>1. \A u \in session : u \in PoolCalls /\ call'[u] = call[u]
  BY DEF BrowserInv, BrowserTypes, OthersStay
<1>2. \A s \in PoolSlots : /\ Sessions(s)' = Sessions(s) /\ Reserved(s)' = Reserved(s)
                           /\ Placed(s)' = Placed(s)
  <2>1. \A u \in PoolCalls : /\ call'[u].at \in Reserving <=> call[u].at \in Reserving
                             /\ call[u].at \in Reserving => call'[u].on = call[u].on
    BY DEF OthersStay
  <2> QED BY <1>1, <2>1, SamePlaces DEF BrowserInv
<1>3. \A s \in PoolSlots : SlotCounts(s)' /\ CrewSound(s)'
  BY <1>2, SameCounts, SameCrew DEF BrowserInv, SlotsStay
<1>4. \A u \in PoolCalls : CallSound(u)'
  BY DEF BrowserInv, CallSound, OthersStay
<1>5. \A u \in session' : WindowSound(u)'
  BY <1>1 DEF BrowserInv, WindowSound, SlotsStay
<1>6. \A u \in PoolCalls : call[u].at \in {"recycle", "recover"} => call'[u] = call[u]
  BY DEF OthersStay
<1>7. \A s \in PoolSlots : CrewDriven(s)'
  <2> TAKE s \in PoolSlots
  <2>1. CrewDriven(s) /\ slot'[s].browser = slot[s].browser /\ slot'[s].gen = slot[s].gen /\ crew'[s] = crew[s]
    BY DEF BrowserInv, SlotsStay
  <2>2. crew[s].by \in PoolCalls => call'[crew[s].by] = call[crew[s].by]
    BY <1>6, <2>1 DEF CrewDriven
  <2> QED BY <2>1, <2>2 DEF CrewDriven, Blind
<1>8. \A r \in waiting' : RequestDriven(r)'
  <2> TAKE r \in waiting'
  <2>1. r \in waiting /\ RequestDriven(r) /\ r.slot \in PoolSlots
    BY DEF BrowserInv, BrowserTypes, PoolRequests
  <2>2. r.by \in PoolCalls => call'[r.by] = call[r.by]
    BY <1>6, <2>1 DEF RequestDriven
  <2> QED BY <2>1, <2>2 DEF RequestDriven, Blind, SlotsStay
<1>9. DrivesOnce' /\ ClosingSound'
  BY <1>1 DEF BrowserInv, DrivesOnce, ClosingSound, SlotsStay, WindowSound
<1> QED BY <1>3, <1>4, <1>5, <1>7, <1>8, <1>9 DEF BrowserInv

\* The calls with a window are at none of the places where a call moves on.
LEMMA Windowless == ASSUME BrowserInv, NEW t \in PoolCalls, call[t].at \notin {"leaving", "over"}
                    PROVE  t \notin session
  BY DEF BrowserInv, WindowSound

LEMMA InvTypes == ASSUME BrowserInv PROVE BrowserTypes /\ \A t \in PoolCalls : CallSound(t)
  BY DEF BrowserInv

LEMMA AskSafe == ASSUME BrowserInv, NEW t \in PoolCalls, Ask(t) PROVE BrowserInv'
<1>1. BrowserTypes' /\ t \notin session
  BY InvTypes, AskTypes, Windowless DEF Ask
<1>2. call'[t].at = "scan" /\ CallSound(t)'
  BY <1>1 DEF Ask, BrowserInv, BrowserTypes, Calls, CallRec, CallSound, Permitted, Reserving
<1>5. UNCHANGED <<session, crew, waiting, closer>> /\ OthersStay(t) /\ SlotsStay /\ call[t].at \notin {"recycle", "recover", "flow", "capture", "leaving"}
  BY DEF Ask, OthersStay, SlotsStay, BrowserInv, BrowserTypes, Calls
<1> QED BY <1>1, <1>2, <1>5, CallMoves DEF Reserving

LEMMA PickSafe == ASSUME BrowserInv, NEW t \in PoolCalls, NEW s \in PoolSlots, Pick(t, s) PROVE BrowserInv'
<1>1. BrowserTypes' /\ t \notin session
  BY InvTypes, PickTypes, Windowless DEF Pick
<1>2. call'[t].at = "picked" /\ call'[t].on = s
  BY DEF Pick, BrowserInv, BrowserTypes, Calls, CallRec
<1>3. CallSound(t)'
  BY <1>2 DEF CallSound
<1>5. UNCHANGED <<session, crew, waiting, closer>> /\ OthersStay(t) /\ SlotsStay /\ call[t].at \notin {"recycle", "recover", "flow", "capture", "leaving"}
  BY DEF Pick, OthersStay, SlotsStay, BrowserInv, BrowserTypes, Calls
<1> QED BY <1>1, <1>2, <1>3, <1>5, CallMoves DEF Reserving

LEMMA LeftPermitsAt ==
  ASSUME NEW c \in CallRec
  PROVE  /\ LeftPermits(c).at \in {"scan", "over"}
         /\ ~c.safe => LeftPermits(c) = [c EXCEPT !.at = "over"]
  BY DEF LeftPermits, Unasked, CallRec

LEMMA GiveUpSafe == ASSUME BrowserInv, NEW t \in PoolCalls, GiveUp(t) PROVE BrowserInv'
<1>1. BrowserTypes' /\ t \notin session
  BY InvTypes, GiveUpTypes, Windowless DEF GiveUp, NobodyHome
<1>2. call'[t].at \in {"scan", "over"}
  BY LeftPermitsAt DEF GiveUp, BrowserInv, BrowserTypes, Calls, CallRec
<1>3. CallSound(t)'
  BY <1>2 DEF CallSound, Permitted, Reserving
<1>5. UNCHANGED <<session, crew, waiting, closer>> /\ OthersStay(t) /\ SlotsStay /\ call[t].at \notin {"recycle", "recover", "flow", "capture", "leaving"}
  BY DEF GiveUp, NobodyHome, OthersStay, SlotsStay, BrowserInv, BrowserTypes, Calls
<1> QED BY <1>1, <1>2, <1>3, <1>5, CallMoves DEF Reserving

LEMMA FailSafe == ASSUME BrowserInv, NEW t \in PoolCalls, NEW b \in BOOLEAN, FailEarly(t, b) \/ FailPlainly(t, b)
                  PROVE  BrowserInv'
<1>1. BrowserTypes' /\ t \notin session
  BY InvTypes, FailTypes, Windowless DEF FailEarly, FailPlainly
<1>2. call[t].at = "flow" /\ call'[t].at = "leaving" /\ call'[t].on = call[t].on
  BY DEF FailEarly, FailPlainly, BrowserInv, BrowserTypes, Calls, CallRec
<1>3. CallSound(t)'
  BY <1>2 DEF BrowserInv, CallSound, Permitted, Reserving
<1>5. UNCHANGED <<session, crew, waiting, closer>> /\ OthersStay(t) /\ SlotsStay
  BY DEF FailEarly, FailPlainly, OthersStay, SlotsStay, BrowserInv, BrowserTypes, Calls
<1> QED BY <1>1, <1>2, <1>3, <1>5, CallMoves DEF Reserving

LEMMA FailVisiblySafe == ASSUME BrowserInv, NEW t \in PoolCalls, FailVisibly(t) PROVE BrowserInv'
<1>1. BrowserTypes' /\ t \notin session
  BY InvTypes, FailVisiblyTypes, Windowless DEF FailVisibly
<1>2. /\ call[t].at = "flow" /\ call'[t].at = "capture" /\ call'[t].on = call[t].on
      /\ call'[t].safe = call[t].safe
  BY DEF FailVisibly, BrowserInv, BrowserTypes, Calls, CallRec
<1>3. CallSound(t)'
  BY <1>2 DEF BrowserInv, CallSound, Permitted, Reserving
<1>5. UNCHANGED <<session, crew, waiting, closer>> /\ OthersStay(t) /\ SlotsStay
  BY DEF FailVisibly, OthersStay, SlotsStay, BrowserInv, BrowserTypes, Calls
<1> QED BY <1>1, <1>2, <1>3, <1>5, CallMoves DEF Reserving

LEMMA SucceedSafe == ASSUME BrowserInv, NEW t \in PoolCalls, Succeed(t) PROVE BrowserInv'
<1>1. BrowserTypes' /\ t \notin session
  BY InvTypes, SucceedTypes, Windowless DEF Succeed
<1>2. call[t].at = "flow" /\ call'[t].at = "leaving" /\ call'[t].on = call[t].on
  BY DEF Succeed, BrowserInv, BrowserTypes, Calls, CallRec
<1>3. CallSound(t)'
  BY <1>2 DEF BrowserInv, CallSound, Permitted, Reserving
<1>4. SlotsStay
  BY DEF Succeed, SlotsStay, BrowserInv, BrowserTypes, Slots, SlotRec
<1>5. UNCHANGED <<session, crew, waiting, closer>> /\ OthersStay(t)
  BY DEF Succeed, OthersStay, BrowserInv, BrowserTypes, Calls
<1> QED BY <1>1, <1>2, <1>3, <1>4, <1>5, CallMoves DEF Reserving

\* A place is taken: the slot had room for it, windows and reservations together.
LEMMA ReserveSlotSafe == ASSUME BrowserInv, NEW t \in PoolCalls, ReserveSlot(t) PROVE BrowserInv'
<1>1. BrowserTypes' /\ t \notin session
  BY InvTypes, ReserveSlotTypes, Windowless DEF ReserveSlot
<1>0. call[t].on \in PoolSlots /\ call[t].at = "picked"
  BY DEF BrowserInv, CallSound, ReserveSlot
<1> SUFFICES ASSUME NEW s \in PoolSlots, s = call[t].on PROVE BrowserInv'
  BY <1>0
<1>2. BrowserTypes /\ s \in PoolSlots /\ s = call[t].on /\ call[t].at = "picked"
  BY <1>0 DEF BrowserInv
<1>3. CASE ~Admittable(s)
  <2>1. call'[t].at = "scan" /\ UNCHANGED slot
    BY <1>2, <1>3 DEF ReserveSlot, BrowserTypes, Calls, CallRec
  <2>2. CallSound(t)'
    BY <2>1 DEF CallSound, Permitted, Reserving
  <2>3. UNCHANGED <<session, crew, waiting, closer>> /\ OthersStay(t) /\ SlotsStay
    BY <1>2, <1>3, <2>1 DEF ReserveSlot, OthersStay, SlotsStay, BrowserTypes, Calls
  <2> QED BY <1>1, <1>2, <2>1, <2>2, <2>3, CallMoves DEF Reserving
<1>4. CASE Admittable(s)
  <2>1. /\ slot' = [slot EXCEPT ![s].active = slot[s].active + 1]
        /\ call'[t].at \in {"leaving", "flow"} /\ call'[t].on = s
        /\ call'[t].at = "flow" => ~call'[t].safe
        /\ UNCHANGED <<session, crew, waiting, closer>>
    <3>1. CASE slot[s].browser = "live"
      BY <1>2, <1>4, <3>1 DEF ReserveSlot, BrowserTypes, Calls, CallRec
    <3>2. CASE slot[s].browser # "live"
      BY <1>2, <1>4, <3>2 DEF ReserveSlot, BrowserTypes, Calls, CallRec
    <3> QED BY <3>1, <3>2
  <2>2. OthersStay(t)
    BY <1>2, <1>4 DEF ReserveSlot, OthersStay, BrowserTypes, Calls
  <2>3. /\ \A r \in PoolSlots : /\ slot'[r].browser = slot[r].browser /\ slot'[r].gen = slot[r].gen
                                /\ slot'[r].draining = slot[r].draining /\ slot'[r].holds = slot[r].holds
        /\ \A r \in PoolSlots \ {s} : slot'[r].active = slot[r].active
        /\ slot'[s].active = slot[s].active + 1
    BY <1>2, <2>1 DEF BrowserTypes, Slots, SlotRec
  <2>4. \A u \in session : u \in PoolCalls /\ call'[u] = call[u]
    BY <1>1, <1>2, <2>2 DEF BrowserTypes, OthersStay
  <2>5. \A r \in PoolSlots : Sessions(r)' = Sessions(r)
    BY <2>1, <2>4 DEF Sessions
  <2>6. \A r \in PoolSlots \ {s} : Reserved(r)' = Reserved(r)
    BY <1>2, <2>1, <2>2 DEF Reserved, OthersStay, Reserving
  <2>7. Reserved(s)' = Reserved(s) \cup {t} /\ t \notin Reserved(s)
    BY <1>2, <2>1, <2>2 DEF Reserved, OthersStay, Reserving
  <2>8. \A r \in PoolSlots : SlotCounts(r)'
    <3>1. ASSUME NEW r \in PoolSlots \ {s} PROVE SlotCounts(r)'
      <4>1. Placed(r)' = Placed(r)
        BY <2>5, <2>6 DEF Placed
      <4> QED BY <2>1, <2>3, <2>5, <2>6, <4>1, SameCounts DEF BrowserInv
    <3>2. SlotCounts(s)'
      <4>1. Placed(s)' = Placed(s) \cup {t}
        BY <2>5, <2>7 DEF Placed
      <4>2. /\ Cardinality(Reserved(s)') = Cardinality(Reserved(s)) + 1
            /\ Cardinality(Placed(s)') <= Cardinality(Placed(s)) + 1
        <5>1. Cardinality(Reserved(s) \cup {t}) = Cardinality(Reserved(s)) + 1
          BY <1>2, <2>7, Places, FS_AddElement
        <5>2. Cardinality(Placed(s) \cup {t}) <= Cardinality(Placed(s)) + 1
          <6>1. IsFiniteSet(Placed(s)) /\ Cardinality(Placed(s)) \in Nat
            BY <1>2, Places
          <6>2. Cardinality(Placed(s) \cup {t}) = IF t \in Placed(s) THEN Cardinality(Placed(s))
                                                   ELSE Cardinality(Placed(s)) + 1
            BY <6>1, FS_AddElement
          <6> QED BY <6>1, <6>2
        <5> QED BY <2>7, <4>1, <5>1, <5>2
      <4>3. Cardinality(Placed(s)) <= Cardinality(Sessions(s)) + Cardinality(Reserved(s))
        <5>1. Cardinality(Placed(s)) = Cardinality(Sessions(s)) + Cardinality(Reserved(s))
                                       - Cardinality(Sessions(s) \cap Reserved(s))
          BY <1>2, Places, FS_Union DEF Placed
        <5>2. Cardinality(Sessions(s) \cap Reserved(s)) \in Nat
          BY <1>2, Places, FS_Intersection, FS_CardinalityType
        <5> QED BY <1>2, <5>1, <5>2, Places
      <4>4. /\ slot[s].active = Cardinality(Reserved(s)) /\ crew[s].gone \in Nat
            /\ slot[s].holds = Cardinality(Sessions(s)) + crew[s].gone
            /\ Load(s) < MaxContexts
        BY <1>2, <1>4 DEF BrowserInv, SlotCounts, Admittable, BrowserTypes, Crews, CrewRec
      <4>5. Cardinality(Placed(s)') <= MaxContexts
        <5>1. Cardinality(Placed(s)') \in Nat
          BY <1>2, <4>1, Places, FS_AddElement, FS_CardinalityType
        <5> QED BY <1>2, <4>2, <4>3, <4>4, <5>1, Places, PoolAssumption DEF Load
      <4>6. slot'[s].active = Cardinality(Reserved(s)')
        BY <2>3, <4>2, <4>4
      <4>7. slot'[s].holds = Cardinality(Sessions(s)') + crew'[s].gone
        BY <1>2, <2>1, <2>3, <2>5, <4>4
      <4> QED BY <4>5, <4>6, <4>7 DEF SlotCounts
    <3> QED BY <3>1, <3>2
  <2>9. \A r \in PoolSlots : CrewSound(r)'
    BY <2>1, <2>3, <2>5, SameCrew DEF BrowserInv
  <2>10. \A u \in PoolCalls : CallSound(u)'
    BY <1>2, <2>1, <2>2 DEF BrowserInv, CallSound, OthersStay
  <2>11. \A u \in session' : WindowSound(u)'
    BY <2>1, <2>3, <2>4 DEF BrowserInv, WindowSound
  <2>12. \A u \in PoolCalls : call[u].at \in {"recycle", "recover"} => call'[u] = call[u]
    BY <1>2, <2>2 DEF OthersStay
  <2>13. \A r \in PoolSlots : CrewDriven(r)'
    <3> TAKE r \in PoolSlots
    <3>1. CrewDriven(r) /\ crew'[r] = crew[r]
      BY <2>1 DEF BrowserInv
    <3>2. crew[r].by \in PoolCalls => call'[crew[r].by] = call[crew[r].by]
      BY <2>12, <3>1 DEF CrewDriven
    <3> QED BY <2>3, <3>1, <3>2 DEF CrewDriven, Blind
  <2>14. \A r \in waiting' : RequestDriven(r)'
    <3> TAKE r \in waiting'
    <3>1. r \in waiting /\ RequestDriven(r) /\ r.slot \in PoolSlots
      BY <2>1 DEF BrowserInv, BrowserTypes, PoolRequests
    <3>2. r.by \in PoolCalls => call'[r.by] = call[r.by]
      BY <2>12, <3>1 DEF RequestDriven
    <3> QED BY <2>1, <2>3, <3>1, <3>2 DEF RequestDriven, Blind
  <2>15. DrivesOnce' /\ ClosingSound'
    BY <2>1, <2>3, <2>4 DEF BrowserInv, DrivesOnce, ClosingSound, WindowSound
  <2> QED BY <1>1, <2>8, <2>9, <2>10, <2>11, <2>13, <2>14, <2>15 DEF BrowserInv
<1> QED BY <1>3, <1>4

\* A window is kept: the slot is the browser the call ran in, and alive.
LEMMA RetainSafe == ASSUME BrowserInv, NEW t \in PoolCalls, Retain(t) PROVE BrowserInv'
<1>1. BrowserTypes' /\ t \notin session /\ BrowserTypes
  BY InvTypes, RetainTypes, Windowless DEF Retain
<1>0. call[t].on \in PoolSlots /\ call[t].at = "capture" /\ ~call[t].safe
  BY DEF BrowserInv, CallSound, Retain, Permitted, Reserving
<1> SUFFICES ASSUME NEW s \in PoolSlots, s = call[t].on PROVE BrowserInv'
  BY <1>0
<1>2. OthersStay(t) /\ UNCHANGED <<crew, waiting, closer>>
  BY <1>1 DEF Retain, OthersStay, BrowserTypes, Calls
<1>3. call'[t].at = "leaving" /\ call'[t].on = s /\ call'[t].safe = call[t].safe /\ call'[t].gen = call[t].gen
  BY <1>1 DEF Retain, BrowserTypes, Calls, CallRec
<1>4. CallSound(t)'
  BY <1>3 DEF CallSound
<1>5. CASE UNCHANGED <<slot, session>>
  BY <1>0, <1>1, <1>2, <1>3, <1>4, <1>5, CallMoves DEF SlotsStay, Reserving
<1>6. CASE /\ Keepable(t) /\ session' = session \cup {t}
           /\ slot' = [slot EXCEPT ![s].holds = slot[s].holds + 1]
           /\ call' = [call EXCEPT ![t].at = "leaving", ![t].kept = TRUE, ![t].spoilt = FALSE]
  <2>1. call'[t].kept /\ ~call'[t].spoilt
    BY <1>1, <1>6 DEF BrowserTypes, Calls, CallRec
  <2>2. slot[s].browser = "live" /\ slot[s].gen = call[t].gen /\ ~slot[s].draining
    BY <1>1, <1>6 DEF Keepable, MayBeOpen, BrowserInv, CrewSound
  <2>3. /\ \A r \in PoolSlots : /\ slot'[r].browser = slot[r].browser /\ slot'[r].gen = slot[r].gen
                                /\ slot'[r].draining = slot[r].draining /\ slot'[r].active = slot[r].active
        /\ \A r \in PoolSlots \ {s} : slot'[r].holds = slot[r].holds
        /\ slot'[s].holds = slot[s].holds + 1
    BY <1>1, <1>6 DEF BrowserTypes, Slots, SlotRec
  <2>4. \A u \in session : u \in PoolCalls /\ u # t /\ call'[u] = call[u]
    BY <1>1, <1>2 DEF BrowserTypes, OthersStay
  <2>5. \A r \in PoolSlots \ {s} : Sessions(r)' = Sessions(r)
    BY <1>3, <1>6, <2>4 DEF Sessions
  <2>6. Sessions(s)' = Sessions(s) \cup {t} /\ t \notin Sessions(s)
    BY <1>1, <1>3, <1>6, <2>4 DEF Sessions
  <2>7. \A r \in PoolSlots : Reserved(r)' = Reserved(r)
    BY <1>0, <1>2, <1>3 DEF Reserved, OthersStay, Reserving
  <2>8. t \in Reserved(s)
    BY <1>0 DEF Reserved, Reserving
  <2>9. \A r \in PoolSlots : Placed(r)' = Placed(r)
    BY <2>5, <2>6, <2>7, <2>8 DEF Placed
  <2>10. ASSUME NEW r \in PoolSlots PROVE SlotCounts(r)' /\ CrewSound(r)'
    <3>1. CASE r # s
      BY <1>2, <2>3, <2>5, <2>7, <2>9, <3>1, SameCounts, SameCrew DEF BrowserInv
    <3>2. CASE r = s
      <4>1. Cardinality(Sessions(s) \cup {t}) = Cardinality(Sessions(s)) + 1
        BY <1>1, <2>6, Places, FS_AddElement
      <4>2. SlotCounts(s) /\ CrewSound(s) /\ crew[s].gone \in Nat
        BY <1>1 DEF BrowserInv, BrowserTypes, Crews, CrewRec
      <4>3. slot'[s].holds = Cardinality(Sessions(s)') + crew'[s].gone
        BY <1>1, <1>2, <2>3, <2>6, <4>1, <4>2, Places DEF SlotCounts
      <4>4. slot'[s].active = Cardinality(Reserved(s)') /\ Cardinality(Placed(s)') <= MaxContexts
        BY <2>3, <2>7, <2>9, <4>2 DEF SlotCounts
      <4>5. SlotCounts(s)'
        BY <4>3, <4>4 DEF SlotCounts
      <4>6. CrewSound(s)'
        BY <1>2, <2>2, <2>3, <4>2 DEF CrewSound
      <4> QED BY <3>2, <4>5, <4>6
    <3> QED BY <3>1, <3>2
  <2>11. \A u \in PoolCalls : CallSound(u)'
    BY <1>2, <1>4 DEF BrowserInv, CallSound, OthersStay
  <2>12. \A u \in session' : WindowSound(u)'
    <3>1. \A u \in session : WindowSound(u)'
      BY <2>3, <2>4 DEF BrowserInv, WindowSound
    <3>2. WindowSound(t)'
      BY <1>0, <1>3, <2>1, <2>2, <2>3 DEF WindowSound
    <3> QED BY <1>6, <3>1, <3>2
  <2>13. \A u \in PoolCalls : call[u].at \in {"recycle", "recover"} => call'[u] = call[u]
    BY <1>0, <1>2 DEF OthersStay
  <2>14. \A r \in PoolSlots : CrewDriven(r)'
    <3> TAKE r \in PoolSlots
    <3>1. CrewDriven(r) /\ crew'[r] = crew[r]
      BY <1>2 DEF BrowserInv
    <3>2. crew[r].by \in PoolCalls => call'[crew[r].by] = call[crew[r].by]
      BY <2>13, <3>1 DEF CrewDriven
    <3> QED BY <2>3, <3>1, <3>2 DEF CrewDriven, Blind
  <2>15. \A r \in waiting' : RequestDriven(r)'
    <3> TAKE r \in waiting'
    <3>1. r \in waiting /\ RequestDriven(r) /\ r.slot \in PoolSlots
      BY <1>1, <1>2 DEF BrowserInv, BrowserTypes, PoolRequests
    <3>2. r.by \in PoolCalls => call'[r.by] = call[r.by]
      BY <2>13, <3>1 DEF RequestDriven
    <3> QED BY <1>2, <2>3, <3>1, <3>2 DEF RequestDriven, Blind
  <2>16. DrivesOnce' /\ ClosingSound'
    <3>1. DrivesOnce'
      BY <1>2 DEF BrowserInv, DrivesOnce
    <3>2. \A u \in closer.todo : /\ u \in session /\ call[u].on \in PoolSlots
                                 /\ slot[call[u].on].browser = "live"
      BY DEF BrowserInv, ClosingSound, WindowSound
    <3>3. ClosingSound'
      <4>1. closer' = closer /\ \A u \in session : u \in session'
        BY <1>2, <1>6
      <4>2. \A u \in closer.todo : slot'[call'[u].on].browser = "live"
        BY <2>3, <2>4, <3>2
      <4> QED BY <3>2, <4>1, <4>2 DEF ClosingSound
    <3> QED BY <3>1, <3>3
  <2> QED BY <1>1, <2>10, <2>11, <2>12, <2>14, <2>15, <2>16 DEF BrowserInv
<1> QED BY <1>5, <1>6 DEF Retain

LEMMA LeavePoolSafe == ASSUME BrowserInv, NEW t \in PoolCalls, NEW b \in BOOLEAN, LeavePool(t, b)
                       PROVE  BrowserInv'
<1>1. BrowserTypes' /\ BrowserTypes
  BY InvTypes, LeavePoolTypes
<1>0. call[t].on \in PoolSlots /\ call[t].at = "leaving" /\ call[t] \in CallRec
  BY <1>1 DEF BrowserInv, CallSound, LeavePool, Permitted, Reserving, BrowserTypes, Calls
<1> SUFFICES ASSUME NEW s \in PoolSlots, s = call[t].on,
                    NEW q, q = [slot |-> s, gen |-> call[t].gen, by |-> t]
             PROVE  BrowserInv'
  BY <1>0
<1> DEFINE spoilt == call[t].spoilt \/ (~call[t].kept /\ ~b)
<1>2. OthersStay(t) /\ UNCHANGED <<crew, session, closer>>
  BY <1>1 DEF LeavePool, OthersStay, BrowserTypes, Calls
<1>3. \/ /\ t \notin session /\ call'[t].at = "recycle" /\ call'[t].on = s /\ call'[t].gen = call[t].gen
         /\ call[t].gen = slot[s].gen /\ waiting' = waiting \cup {q}
      \/ /\ t \notin session /\ call'[t].at \in {"scan", "over"} /\ waiting' = waiting
      \/ /\ t \in session /\ call'[t] = [call[t] EXCEPT !.at = "over"] /\ waiting' = waiting
  <2>1. CASE spoilt /\ call[t].gen = slot[s].gen
    <3>1. t \notin session
      BY <1>0, <2>1 DEF BrowserInv, WindowSound
    <3>2. /\ call' = [call EXCEPT ![t].at = "recycle", ![t].spoilt = TRUE]
          /\ waiting' = waiting \cup {q}
      BY <2>1 DEF LeavePool
    <3>3. call'[t].at = "recycle" /\ call'[t].on = s /\ call'[t].gen = call[t].gen
      BY <1>1, <3>2 DEF BrowserTypes, Calls, CallRec
    <3> QED BY <2>1, <3>1, <3>2, <3>3
  <2>2. CASE ~(spoilt /\ call[t].gen = slot[s].gen)
    <3>1. call'[t] = LeftPermits(call[t]) /\ waiting' = waiting
      BY <1>1, <2>2 DEF LeavePool, BrowserTypes, Calls
    <3>2. t \in session => ~call[t].safe
      BY DEF BrowserInv, WindowSound
    <3> QED BY <1>0, <3>1, <3>2, LeftPermitsAt
  <2> QED BY <2>1, <2>2
<1>4. call'[t].at \in {"recycle", "scan", "over"} /\ (call'[t].at = "recycle" => call'[t].on = s)
  BY <1>0, <1>3 DEF CallRec
<1>5. /\ \A r \in PoolSlots : /\ slot'[r].browser = slot[r].browser /\ slot'[r].gen = slot[r].gen
                              /\ slot'[r].draining = slot[r].draining /\ slot'[r].holds = slot[r].holds
      /\ \A r \in PoolSlots \ {s} : slot'[r].active = slot[r].active
      /\ slot'[s].active = OneLess(slot[s].active)
  BY <1>1 DEF LeavePool, BrowserTypes, Slots, SlotRec
<1>6. \A u \in session : /\ u \in PoolCalls /\ call'[u].on = call[u].on /\ call'[u].gen = call[u].gen
                         /\ call'[u].safe = call[u].safe
                         /\ call'[u] = call[u] \/ call'[u].at = "over"
  BY <1>0, <1>1, <1>2, <1>3 DEF BrowserTypes, OthersStay, CallRec
<1>7. \A r \in PoolSlots : Sessions(r)' = Sessions(r)
  BY <1>2, <1>6 DEF Sessions
<1>8. \A r \in PoolSlots \ {s} : Reserved(r)' = Reserved(r)
  BY <1>0, <1>2, <1>4 DEF Reserved, OthersStay, Reserving
<1>9. Reserved(s)' = Reserved(s) \ {t} /\ t \in Reserved(s)
  BY <1>0, <1>2, <1>4 DEF Reserved, OthersStay, Reserving
<1>10. ASSUME NEW r \in PoolSlots PROVE SlotCounts(r)' /\ CrewSound(r)'
  <2>1. CrewSound(r)'
    BY <1>2, <1>5, <1>7, SameCrew DEF BrowserInv
  <2>2. CASE r # s
    <3>1. Placed(r)' = Placed(r)
      BY <1>7, <1>8, <2>2 DEF Placed
    <3> QED BY <1>2, <1>5, <1>7, <1>8, <2>1, <2>2, <3>1, SameCounts DEF BrowserInv
  <2>3. CASE r = s
    <3>1. SlotCounts(s)
      BY DEF BrowserInv
    <3>2. Cardinality(Reserved(s) \ {t}) = Cardinality(Reserved(s)) - 1 /\ Cardinality(Reserved(s)) # 0
      BY <1>1, <1>9, Places, FS_RemoveElement, FS_EmptySet
    <3>3. slot'[s].active = Cardinality(Reserved(s)')
      BY <1>1, <1>5, <1>9, <3>1, <3>2, Places, Counting DEF SlotCounts
    <3>4. Placed(s)' \subseteq Placed(s)
      BY <1>7, <1>9 DEF Placed
    <3>5. Cardinality(Placed(s)') <= Cardinality(Placed(s)) /\ Cardinality(Placed(s)') \in Nat
      BY <1>1, <3>4, Places, FS_Subset, FS_CardinalityType
    <3>6. slot'[s].holds = Cardinality(Sessions(s)') + crew'[s].gone
      BY <1>2, <1>5, <1>7, <3>1 DEF SlotCounts
    <3>7. Cardinality(Placed(s)') <= MaxContexts
      BY <1>1, <3>1, <3>5, Places, PoolAssumption DEF SlotCounts
    <3> QED BY <2>1, <2>3, <3>3, <3>6, <3>7 DEF SlotCounts
  <2> QED BY <2>2, <2>3
<1>11. \A u \in PoolCalls : CallSound(u)'
  BY <1>2, <1>4 DEF BrowserInv, CallSound, OthersStay, Permitted, Reserving
<1>12. \A u \in session' : WindowSound(u)'
  BY <1>2, <1>5, <1>6 DEF BrowserInv, WindowSound
<1>13. \A u \in PoolCalls : call[u].at \in {"recycle", "recover"} => call'[u] = call[u]
  BY <1>0, <1>2 DEF OthersStay
<1>14. \A r \in PoolSlots : CrewDriven(r)' /\ crew[r].by # t
  <2> TAKE r \in PoolSlots
  <2>1. CrewDriven(r) /\ crew'[r] = crew[r]
    BY <1>2 DEF BrowserInv
  <2>2. crew[r].by \in PoolCalls => call'[crew[r].by] = call[crew[r].by]
    BY <1>13, <2>1 DEF CrewDriven
  <2>3. crew[r].by # t
    BY <1>0, <2>1 DEF CrewDriven
  <2> QED BY <1>5, <2>1, <2>2, <2>3 DEF CrewDriven, Blind
<1>15. \A r \in waiting : RequestDriven(r)' /\ r.by # t
  <2> TAKE r \in waiting
  <2>1. RequestDriven(r) /\ r.slot \in PoolSlots
    BY <1>1 DEF BrowserInv, BrowserTypes, PoolRequests
  <2>2. r.by \in PoolCalls => call'[r.by] = call[r.by]
    BY <1>13, <2>1 DEF RequestDriven
  <2>3. r.by # t
    BY <1>0, <2>1 DEF RequestDriven
  <2> QED BY <1>2, <1>5, <2>1, <2>2, <2>3 DEF RequestDriven, Blind
<1>16. waiting' = waiting \cup {q} => call'[t].at = "recycle" \/ waiting' = waiting
  BY <1>3
<1>17. waiting' # waiting => RequestDriven(q)'
  <2> SUFFICES ASSUME waiting' # waiting PROVE RequestDriven(q)'
    OBVIOUS
  <2>1. call'[t].at = "recycle" /\ call'[t].on = s /\ call'[t].gen = call[t].gen /\ call[t].gen = slot[s].gen
    BY <1>3
  <2>2. q.slot = s /\ q.gen = call[t].gen /\ q.by = t
    OBVIOUS
  <2>3. t # "event" /\ slot'[s].gen = slot[s].gen /\ slot[s].gen \in Nat
    BY <1>1, <1>5, PoolAssumption DEF BrowserTypes, Slots, SlotRec
  <2> QED BY <2>1, <2>2, <2>3 DEF RequestDriven, Blind
<1>18. \A r \in waiting' : RequestDriven(r)'
  BY <1>3, <1>15, <1>17
<1>19. DrivesOnce'
  BY <1>2, <1>3, <1>14, <1>15 DEF BrowserInv, DrivesOnce
<1>20. ClosingSound'
  <2>1. \A u \in closer.todo : /\ u \in session /\ call[u].on \in PoolSlots
                               /\ slot[call[u].on].browser = "live"
    BY DEF BrowserInv, ClosingSound, WindowSound
  <2> QED BY <1>2, <1>5, <1>6, <2>1 DEF ClosingSound
<1> QED BY <1>1, <1>10, <1>11, <1>12, <1>14, <1>18, <1>19, <1>20 DEF BrowserInv

LEMMA ExpireSafe == ASSUME BrowserInv, ~LateDeadlines, NEW t \in PoolCalls, Expire(t) PROVE BrowserInv'
<1>1. BrowserTypes' /\ BrowserTypes
  BY InvTypes, ExpireTypes
<1>2. UNCHANGED <<session, closer>> /\ OthersStay(t)
  BY <1>1 DEF Expire, OthersStay, BrowserTypes, Calls
<1>3. CASE /\ Unprotected(t) /\ call' = [call EXCEPT ![t].at = "over"] /\ UNCHANGED <<slot, crew, waiting>>
  <2>1. call[t].at \in {"scan", "picked"} /\ call'[t].at = "over"
    BY <1>1, <1>3 DEF Unprotected, BrowserTypes, Calls, CallRec
  <2>2. t \notin session /\ CallSound(t)'
    BY <2>1, Windowless DEF CallSound, Permitted, Reserving
  <2> QED BY <1>1, <1>2, <1>3, <2>1, <2>2, CallMoves DEF SlotsStay, Reserving
<1>4. CASE /\ call[t].at = "flow" /\ call' = [call EXCEPT ![t].at = "leaving", ![t].spoilt = TRUE]
           /\ UNCHANGED <<slot, crew, waiting>>
  <2>1. call'[t].at = "leaving" /\ call'[t].on = call[t].on
    BY <1>1, <1>4 DEF BrowserTypes, Calls, CallRec
  <2>2. t \notin session /\ CallSound(t)'
    BY <1>4, <2>1, Windowless DEF BrowserInv, CallSound, Permitted, Reserving
  <2> QED BY <1>1, <1>2, <1>4, <2>1, <2>2, CallMoves DEF SlotsStay, Reserving
<1>5. CASE /\ call[t].at \in {"recycle", "recover"}
           /\ call' = [call EXCEPT ![t].at = "over"]
           /\ waiting' = {r \in waiting : r.by # t}
           /\ LET own == {s \in PoolSlots : crew[s].by = t} IN
              /\ \A s \in own : crew[s].at # "discard"
              /\ slot' = [s \in PoolSlots |-> IF s \in own THEN Stopped(slot[s], crew[s].at) ELSE slot[s]]
              /\ crew' = [s \in PoolSlots |-> IF s \in own THEN NoCrew ELSE crew[s]]
  <2>1. call'[t].at = "over" /\ t \notin session
    BY <1>1, <1>5, Windowless DEF BrowserTypes, Calls, CallRec
  <2>2. \A s \in PoolSlots : /\ slot'[s].browser = slot[s].browser /\ slot'[s].gen = slot[s].gen
                             /\ slot'[s].active = slot[s].active /\ slot'[s].holds = slot[s].holds
    <3> TAKE s \in PoolSlots
    <3>1. slot[s] \in SlotRec
      BY <1>1 DEF BrowserTypes, Slots
    <3>2. slot'[s] = slot[s] \/ slot'[s] = Stopped(slot[s], crew[s].at)
      BY <1>5
    <3> QED BY <3>1, <3>2 DEF Stopped, SlotRec
  <2>3. \A s \in PoolSlots : crew[s].by # t => crew'[s] = crew[s] /\ slot'[s] = slot[s]
    BY <1>5
  <2>4. \A s \in PoolSlots : crew[s].by = t => /\ crew[s].at \in {"drain", "closing"} /\ crew'[s] = NoCrew
                                               /\ slot'[s] = Stopped(slot[s], crew[s].at)
    <3> SUFFICES ASSUME NEW s \in PoolSlots, crew[s].by = t
                 PROVE  /\ crew[s].at \in {"drain", "closing"} /\ crew'[s] = NoCrew
                        /\ slot'[s] = Stopped(slot[s], crew[s].at)
      OBVIOUS
    <3>1. crew[s].at # "discard" /\ crew'[s] = NoCrew /\ slot'[s] = Stopped(slot[s], crew[s].at)
      BY <1>5
    <3>2. crew[s].at # "free"
      BY PoolAssumption DEF BrowserInv, CrewSound
    <3>3. crew[s].at \in {"free", "discard", "drain", "closing"}
      BY <1>1 DEF BrowserTypes, Crews, CrewRec
    <3> QED BY <3>1, <3>2, <3>3
  <2>5. \A u \in session : u \in PoolCalls /\ call'[u] = call[u]
    BY <1>1, <1>2, <2>1 DEF BrowserTypes, OthersStay
  <2>6. \A s \in PoolSlots : /\ Sessions(s)' = Sessions(s) /\ Reserved(s)' = Reserved(s)
                             /\ Placed(s)' = Placed(s)
    <3>1. \A u \in PoolCalls : /\ call'[u].at \in Reserving <=> call[u].at \in Reserving
                               /\ call[u].at \in Reserving => call'[u].on = call[u].on
      BY <1>2, <1>5, <2>1 DEF OthersStay, Reserving
    <3> QED BY <1>1, <1>2, <2>5, <3>1, SamePlaces
  <2>7. ASSUME NEW s \in PoolSlots PROVE SlotCounts(s)' /\ CrewSound(s)' /\ CrewDriven(s)'
    <3>1. CASE crew[s].by # t
      <4>1. SlotCounts(s)' /\ CrewSound(s)'
        BY <2>2, <2>3, <2>6, <3>1, SameCounts, SameCrew DEF BrowserInv
      <4>2. crew'[s] = crew[s] /\ slot'[s] = slot[s] /\ CrewDriven(s)
        BY <2>3, <3>1 DEF BrowserInv
      <4>3. crew[s].by \in PoolCalls => call'[crew[s].by] = call[crew[s].by]
        BY <1>2, <3>1 DEF OthersStay
      <4> QED BY <4>1, <4>2, <4>3 DEF CrewDriven, Blind
    <3>2. CASE crew[s].by = t
      <4>1. crew[s].gone = 0 /\ crew'[s].gone = 0 /\ crew'[s].at = "free" /\ crew'[s].by = "nobody"
        BY <2>4, <3>2 DEF BrowserInv, CrewSound, NoCrew
      <4>2. SlotCounts(s)'
        BY <2>2, <2>6, <4>1, SameCounts DEF BrowserInv
      <4>3. slot'[s].draining => slot'[s].browser # "live"
        <5>1. CASE crew[s].at = "drain"
          <6>1. slot[s] \in SlotRec /\ slot'[s] = Stopped(slot[s], "drain")
            BY <1>1, <2>4, <3>2, <5>1 DEF BrowserTypes, Slots
          <6> QED BY <6>1 DEF Stopped, SlotRec
        <5>2. CASE crew[s].at = "closing"
          BY <2>2, <5>2 DEF BrowserInv, CrewSound
        <5> QED BY <2>4, <3>2, <5>1, <5>2
      <4>4. CrewSound(s)'
        BY <4>1, <4>3 DEF CrewSound
      <4>5. CrewDriven(s)'
        BY <4>1, PoolAssumption DEF CrewDriven, Blind
      <4> QED BY <4>2, <4>4, <4>5
    <3> QED BY <3>1, <3>2
  <2>8. \A u \in PoolCalls : CallSound(u)'
    BY <1>2, <2>1 DEF BrowserInv, CallSound, OthersStay, Permitted, Reserving
  <2>9. \A u \in session' : WindowSound(u)'
    BY <1>2, <2>2, <2>5 DEF BrowserInv, WindowSound
  <2>10. \A r \in waiting' : RequestDriven(r)'
    <3> TAKE r \in waiting'
    <3>1. r \in waiting /\ r.by # t /\ RequestDriven(r) /\ r.slot \in PoolSlots
      BY <1>1, <1>5 DEF BrowserInv, BrowserTypes, PoolRequests
    <3>2. r.by \in PoolCalls => call'[r.by] = call[r.by]
      BY <1>2, <3>1 DEF OthersStay
    <3>3. crew'[r.slot].at = crew[r.slot].at \/ crew'[r.slot].at = "free"
      BY <2>3, <2>4, <3>1 DEF NoCrew
    <3> QED BY <2>2, <3>1, <3>2, <3>3 DEF RequestDriven, Blind
  <2>11. DrivesOnce'
    <3>1. \A s \in PoolSlots : crew'[s].by = crew[s].by \/ crew'[s].by = "nobody"
      BY <2>3, <2>4 DEF NoCrew
    <3>2. waiting' \subseteq waiting
      BY <1>5
    <3> QED BY <3>1, <3>2, PoolAssumption DEF BrowserInv, DrivesOnce
  <2>12. ClosingSound'
    <3>1. \A u \in closer.todo : /\ u \in session /\ call[u].on \in PoolSlots
                                 /\ slot[call[u].on].browser = "live"
      BY DEF BrowserInv, ClosingSound, WindowSound
    <3> QED BY <1>2, <2>2, <2>5, <3>1 DEF ClosingSound
  <2> QED BY <1>1, <2>7, <2>8, <2>9, <2>10, <2>11, <2>12 DEF BrowserInv
<1> QED BY <1>3, <1>4, <1>5 DEF Expire

\* A call that recovers finds nothing alive and nobody at work.
LEMMA RecoverSlotSafe ==
  ASSUME BrowserInv, NEW t \in PoolCalls, NEW s \in PoolSlots, RecoverSlot(t, s)
  PROVE  BrowserInv'
<1>1. BrowserTypes' /\ BrowserTypes /\ t \notin session /\ call[t].at = "scan"
  BY InvTypes, RecoverSlotTypes, Windowless DEF RecoverSlot, NobodyHome
<1>2. OthersStay(t) /\ UNCHANGED <<slot, crew, session, closer>>
  BY <1>1 DEF RecoverSlot, OthersStay, BrowserTypes, Calls
<1>3. call'[t].at = "recover"
  BY <1>1 DEF RecoverSlot, BrowserTypes, Calls, CallRec
<1>4. \A q \in PoolSlots : crew[q].at = "free" /\ slot[q].browser # "live" /\ crew[q].by = "nobody"
  BY DEF RecoverSlot, NobodyHome, HealthySlot, Locked, BrowserInv, CrewSound
<1>5. \A u \in session : u \in PoolCalls /\ call'[u] = call[u]
  BY <1>1, <1>2 DEF BrowserTypes, OthersStay
<1>6. \A q \in PoolSlots : /\ Sessions(q)' = Sessions(q) /\ Reserved(q)' = Reserved(q)
                           /\ Placed(q)' = Placed(q)
  <2>1. \A u \in PoolCalls : /\ call'[u].at \in Reserving <=> call[u].at \in Reserving
                             /\ call[u].at \in Reserving => call'[u].on = call[u].on
    BY <1>1, <1>2, <1>3 DEF OthersStay, Reserving
  <2> QED BY <1>1, <1>2, <1>5, <2>1, SamePlaces
<1>7. \A q \in PoolSlots : SlotCounts(q)' /\ CrewSound(q)'
  BY <1>2, <1>6, SameCounts, SameCrew DEF BrowserInv
<1>8. \A u \in PoolCalls : CallSound(u)'
  BY <1>2, <1>3 DEF BrowserInv, CallSound, OthersStay, Permitted, Reserving
<1>9. \A u \in session' : WindowSound(u)'
  BY <1>2, <1>5 DEF BrowserInv, WindowSound
<1>10. \A q \in PoolSlots : CrewDriven(q)'
  BY <1>2, <1>4, PoolAssumption DEF CrewDriven, Blind
<1>11. \A r \in waiting : r.by # t /\ r.slot \in PoolSlots
  BY <1>1, PoolAssumption DEF BrowserInv, RequestDriven, BrowserTypes, PoolRequests
<1>12. waiting' = waiting \cup {[slot |-> s, gen |-> slot[s].gen, by |-> t]}
  BY DEF RecoverSlot
<1>13. \A r \in waiting' : RequestDriven(r)'
  <2>1. ASSUME NEW r \in waiting PROVE RequestDriven(r)'
    <3>1. RequestDriven(r) /\ (r.by \in PoolCalls => call'[r.by] = call[r.by])
      BY <1>2, <1>11 DEF BrowserInv, OthersStay
    <3> QED BY <1>2, <3>1 DEF RequestDriven, Blind
  <2>2. ASSUME NEW r, r = [slot |-> s, gen |-> slot[s].gen, by |-> t] PROVE RequestDriven(r)'
    <3>1. r.slot = s /\ r.gen = slot[s].gen /\ r.by = t /\ slot[s].gen \in Nat
      BY <1>1, <2>2 DEF BrowserTypes, Slots, SlotRec
    <3> QED BY <1>2, <1>3, <1>4, <3>1 DEF RequestDriven
  <2> QED BY <1>12, <2>1, <2>2
<1>14. DrivesOnce'
  BY <1>2, <1>4, <1>11, <1>12, PoolAssumption DEF BrowserInv, DrivesOnce
<1>15. ClosingSound'
  BY <1>2, <1>5 DEF BrowserInv, ClosingSound
<1> QED BY <1>1, <1>7, <1>8, <1>9, <1>10, <1>13, <1>14, <1>15 DEF BrowserInv

\* A recycler moves on at s, on behalf of w: it goes on, or w returns.
Advances(s, w) ==
    /\ \A q \in PoolSlots \ {s} : slot'[q] = slot[q] /\ crew'[q] = crew[q]
    /\ \/ crew[s].by = w /\ waiting' = waiting
       \/ crew[s].by = "nobody" /\ \E r \in waiting : r.by = w /\ waiting' = waiting \ {r}
    /\ \/ DriverReturns(w) /\ crew'[s].by = "nobody"
       \/ UNCHANGED <<call, closer>> /\ crew'[s].by = w

LEMMA DriverFree ==
  ASSUME BrowserInv, NEW s \in PoolSlots, NEW w \in PoolCalls, Advances(s, w)
  PROVE  /\ call[w].at \in {"recycle", "recover"}
         /\ \A r \in waiting' : r.by # w
         /\ \A q \in PoolSlots \ {s} : crew[q].by # w
<1>1. CASE crew[s].by = w /\ waiting' = waiting
  BY <1>1 DEF BrowserInv, CrewDriven, DrivesOnce
<1>2. CASE \E r \in waiting : r.by = w /\ waiting' = waiting \ {r}
  BY <1>2 DEF BrowserInv, RequestDriven, DrivesOnce
<1> QED BY <1>1, <1>2 DEF Advances

LEMMA DriverMoves ==
  ASSUME BrowserInv, NEW s \in PoolSlots, NEW w \in Drivers, Advances(s, w)
  PROVE  /\ \A t \in PoolCalls : t # w => call'[t] = call[t]
         /\ \A t \in session : t \in PoolCalls /\ call'[t] = call[t]
         /\ \A q \in PoolSlots : Reserved(q)' = Reserved(q)
         /\ \A t \in PoolCalls : CallSound(t)'
         /\ closer'.todo = closer.todo
<1>0. BrowserTypes
  BY DEF BrowserInv
<1>1. \A t \in PoolCalls : t # w => call'[t] = call[t]
  BY <1>0 DEF Advances, DriverReturns, BrowserTypes, Calls
<1>2. w \in PoolCalls => /\ call[w].at \in {"recycle", "recover"}
                         /\ call'[w].at \in {"recycle", "recover", "scan", "over"}
                         /\ CallSound(w)'
  <2> SUFFICES ASSUME w \in PoolCalls
               PROVE  /\ call[w].at \in {"recycle", "recover"} /\ CallSound(w)'
                      /\ call'[w].at \in {"recycle", "recover", "scan", "over"}
    OBVIOUS
  <2>1. call[w].at \in {"recycle", "recover"} /\ CallSound(w)
    BY DriverFree DEF BrowserInv
  <2>2. CASE call' = call
    BY <2>1, <2>2 DEF CallSound
  <2>3. CASE DriverReturns(w)
    <3>1. call'[w] = Returned(call[w]) /\ call[w] \in CallRec
      BY <1>0, <2>3 DEF DriverReturns, BrowserTypes, Calls
    <3>2. call'[w].at \in {"scan", "over"}
      <4>1. CASE call[w].at = "recover"
        BY <3>1, <4>1 DEF Returned, CallRec
      <4>2. CASE call[w].at # "recover"
        BY <3>1, <4>2, LeftPermitsAt DEF Returned
      <4> QED BY <4>1, <4>2
    <3> QED BY <2>1, <3>2 DEF CallSound, Permitted, Reserving
  <2> QED BY <2>2, <2>3 DEF Advances
<1>3. \A t \in session : t \in PoolCalls /\ call'[t] = call[t]
  <2> TAKE t \in session
  <2>1. t \in PoolCalls /\ call[t].at \in {"leaving", "over"}
    BY <1>0 DEF BrowserInv, BrowserTypes, WindowSound
  <2> QED BY <1>1, <1>2, <2>1
<1>4. \A q \in PoolSlots : Reserved(q)' = Reserved(q)
  BY <1>1, <1>2 DEF Reserved, Reserving
<1>5. \A t \in PoolCalls : CallSound(t)'
  BY <1>1, <1>2 DEF BrowserInv, CallSound
<1>6. closer'.todo = closer.todo
  BY <1>0 DEF Advances, DriverReturns, BrowserTypes, CloserRec
<1> QED BY <1>1, <1>3, <1>4, <1>5, <1>6

\* What is left to see is the slot the recycler is at.
LEMMA RecyclerMoves ==
  ASSUME BrowserInv, BrowserTypes', NEW s \in PoolSlots, NEW w \in Drivers, Advances(s, w),
         session' \subseteq session, \A t \in session \ session' : call[t].on = s,
         SlotCounts(s)', CrewSound(s)', CrewDriven(s)',
         slot'[s].gen = slot[s].gen \/ (slot'[s].gen = slot[s].gen + 1 /\ Sessions(s) = {}),
         \A r \in waiting : r.slot = s /\ Blind(r.by) /\ r.gen = slot'[s].gen =>
                                slot'[s].browser # "live" /\ crew'[s].at # "closing",
         \A t \in closer.todo : t \in session' /\ (call[t].on = s => slot'[s].browser = "live")
  PROVE  BrowserInv'
<1>0. BrowserTypes /\ waiting' \subseteq waiting
  BY DEF BrowserInv, Advances
<1>1. \A q \in PoolSlots \ {s} : slot'[q] = slot[q] /\ crew'[q] = crew[q]
  BY DEF Advances
<1>2. \A t \in session : t \in PoolCalls /\ call'[t] = call[t]
  BY DriverMoves
<1>3. \A q \in PoolSlots : SlotCounts(q)' /\ CrewSound(q)'
  <2> SUFFICES ASSUME NEW q \in PoolSlots \ {s} PROVE SlotCounts(q)' /\ CrewSound(q)'
    OBVIOUS
  <2>1. Sessions(q)' = Sessions(q)
    BY <1>2 DEF Sessions
  <2>2. Reserved(q)' = Reserved(q) /\ Placed(q)' = Placed(q)
    BY <2>1, DriverMoves DEF Placed
  <2> QED BY <1>1, <2>1, <2>2, SameCounts, SameCrew DEF BrowserInv
<1>4. \A t \in session' : WindowSound(t)'
  <2> TAKE t \in session'
  <2>1. t \in session /\ WindowSound(t) /\ call'[t] = call[t]
    BY <1>2 DEF BrowserInv
  <2>2. slot'[call[t].on].gen = slot[call[t].on].gen
    BY <1>1, <2>1 DEF WindowSound, Sessions
  <2> QED BY <2>1, <2>2 DEF WindowSound
<1>5. \A q \in PoolSlots : CrewDriven(q)'
  <2> SUFFICES ASSUME NEW q \in PoolSlots \ {s} PROVE CrewDriven(q)'
    OBVIOUS
  <2>1. slot'[q] = slot[q] /\ crew'[q] = crew[q] /\ CrewDriven(q)
    BY <1>1 DEF BrowserInv
  <2>2. crew[q].by \in PoolCalls => call'[crew[q].by] = call[crew[q].by]
    BY DriverFree, DriverMoves
  <2> QED BY <2>1, <2>2 DEF CrewDriven, Blind
<1>6. \A r \in waiting' : RequestDriven(r)'
  <2> TAKE r \in waiting'
  <2>1. r \in waiting /\ RequestDriven(r) /\ r.slot \in PoolSlots /\ r.gen \in Nat
    BY <1>0 DEF BrowserInv, BrowserTypes, PoolRequests
  <2>2. r.by \in PoolCalls => call'[r.by] = call[r.by]
    BY DriverFree, DriverMoves
  <2>3. Blind(r.by)' <=> Blind(r.by)
    BY <2>2 DEF Blind
  <2>4. slot[s].gen \in Nat
    BY <1>0 DEF BrowserTypes, Slots, SlotRec
  <2>5. r.gen <= slot'[r.slot].gen
    BY <1>1, <2>1, <2>4 DEF RequestDriven
  <2>6. Blind(r.by) /\ r.gen = slot'[r.slot].gen
            => slot'[r.slot].browser # "live" /\ crew'[r.slot].at # "closing"
    BY <1>1, <2>1 DEF RequestDriven
  <2> QED BY <2>1, <2>2, <2>3, <2>5, <2>6 DEF RequestDriven
<1>7. DrivesOnce'
  <2>1. \A r1, r2 \in waiting' : r1.by = r2.by /\ r1.by \in PoolCalls => r1 = r2
    BY <1>0 DEF BrowserInv, DrivesOnce
  <2>2. \A q \in PoolSlots : crew'[q].by \in PoolCalls => crew'[q].by = crew[q].by \/ (q = s /\ crew'[q].by = w)
    BY <1>1, PoolAssumption DEF Advances
  <2>3. \A s1, s2 \in PoolSlots : crew'[s1].by = crew'[s2].by /\ crew'[s1].by \in PoolCalls => s1 = s2
    BY <1>1, <2>2, DriverFree DEF BrowserInv, DrivesOnce
  <2>4. \A r \in waiting', q \in PoolSlots : r.by \in PoolCalls => crew'[q].by # r.by
    BY <1>0, <2>2, DriverFree DEF BrowserInv, DrivesOnce
  <2> QED BY <2>1, <2>3, <2>4 DEF DrivesOnce
<1>8. ClosingSound'
  BY <1>1, <1>2, DriverMoves DEF BrowserInv, ClosingSound, WindowSound
<1> QED BY <1>3, <1>4, <1>5, <1>6, <1>7, <1>8, DriverMoves DEF BrowserInv

\* Where the driver of the recycler at s stands.
Driven(s, w) ==
    /\ w \in PoolCalls /\ call[w].at = "recycle" => call[w].on = s /\ call[w].gen = slot[s].gen
    /\ w \in PoolCalls => call[w].at \in {"recycle", "recover"}
    /\ Blind(w) => slot[s].browser # "live"

\* A recycler that holds no windows of its own goes on, or leaves the slot to its windows.
LEMMA GoesOnSafe ==
  ASSUME BrowserInv, BrowserTypes', NEW s \in PoolSlots, NEW w \in Drivers, Advances(s, w), Driven(s, w),
         NEW x \in SlotRec, x.browser = slot[s].browser, x.gen = slot[s].gen, x.active = slot[s].active,
         x.holds = Cardinality(Sessions(s)), session' = session, crew[s].at # "closing",
         \/ Held(x) /\ slot' = [slot EXCEPT ![s] = Spared(x)] /\ crew' = [crew EXCEPT ![s] = NoCrew]
         \/ /\ slot' = [slot EXCEPT ![s] = x]
            /\ crew' = [crew EXCEPT ![s] = [at |-> "drain", gone |-> 0, by |-> w]]
            /\ call' = call
         \/ ~Held(x) /\ Detach(s, w, x)
  PROVE  BrowserInv'
<1>0. BrowserTypes /\ slot \in Slots /\ crew \in Crews /\ slot[s] \in SlotRec
  BY DEF BrowserInv, BrowserTypes, Slots
<1>1. /\ \A t \in session : t \in PoolCalls /\ call'[t] = call[t]
      /\ Reserved(s)' = Reserved(s)
  BY DriverMoves
<1>2. Sessions(s)' = Sessions(s) /\ Placed(s)' = Placed(s)
  BY <1>1 DEF Sessions, Placed
<1>3. SlotCounts(s) /\ CrewSound(s) /\ CrewDriven(s)
  BY DEF BrowserInv
<1>4. \A t \in closer.todo : t \in session /\ slot[call[t].on].browser = "live"
  BY DEF BrowserInv, ClosingSound
<1>5. ASSUME slot'[s].active = x.active, slot'[s].holds = x.holds, crew'[s].gone = 0
      PROVE  SlotCounts(s)'
  <2>1. /\ slot'[s].active = Cardinality(Reserved(s)') /\ Cardinality(Placed(s)') <= MaxContexts
        /\ slot'[s].holds = Cardinality(Sessions(s)') + crew'[s].gone
    BY <1>0, <1>1, <1>2, <1>3, <1>5, Places DEF SlotCounts
  <2> QED BY <2>1 DEF SlotCounts
<1>6. \A r \in waiting : r.slot = s => RequestDriven(r)
  BY DEF BrowserInv
<1>7. CASE Held(x) /\ slot' = [slot EXCEPT ![s] = Spared(x)] /\ crew' = [crew EXCEPT ![s] = NoCrew]
  <2>1. slot'[s] = Spared(x) /\ crew'[s] = NoCrew
    BY <1>0, <1>7 DEF Slots, Crews
  <2>2. /\ slot'[s].browser = slot[s].browser /\ slot'[s].gen = slot[s].gen /\ ~slot'[s].draining
        /\ slot'[s].active = x.active /\ slot'[s].holds = x.holds
    BY <2>1, SlotFormFields
  <2>3. crew'[s].at = "free" /\ crew'[s].gone = 0 /\ crew'[s].by = "nobody"
    BY <2>1 DEF NoCrew
  <2>4. SlotCounts(s)'
    BY <1>5, <2>2, <2>3
  <2>5. CrewSound(s)' /\ CrewDriven(s)'
    BY <2>2, <2>3, PoolAssumption DEF CrewSound, CrewDriven, Blind
  <2>6. \A r \in waiting : r.slot = s /\ Blind(r.by) /\ r.gen = slot'[s].gen =>
                               slot'[s].browser # "live" /\ crew'[s].at # "closing"
    BY <1>6, <2>2, <2>3 DEF RequestDriven
  <2> QED BY <1>4, <2>2, <2>4, <2>5, <2>6, RecyclerMoves
<1>8. CASE /\ slot' = [slot EXCEPT ![s] = x]
           /\ crew' = [crew EXCEPT ![s] = [at |-> "drain", gone |-> 0, by |-> w]]
           /\ call' = call
  <2>1. slot'[s] = x /\ crew'[s].at = "drain" /\ crew'[s].gone = 0 /\ crew'[s].by = w
    BY <1>0, <1>8 DEF Slots, Crews
  <2>2. SlotCounts(s)'
    BY <1>5, <2>1
  <2>3. CrewSound(s)'
    BY <2>1 DEF CrewSound
  <2>4. CrewDriven(s)'
    BY <1>8, <2>1 DEF CrewDriven, Driven, Blind
  <2>6. \A r \in waiting : r.slot = s /\ Blind(r.by) /\ r.gen = slot'[s].gen =>
                               slot'[s].browser # "live" /\ crew'[s].at # "closing"
    BY <1>6, <2>1 DEF RequestDriven
  <2> QED BY <1>4, <2>1, <2>2, <2>3, <2>4, <2>6, RecyclerMoves
<1>9. CASE ~Held(x) /\ Detach(s, w, x)
  <2>1. /\ slot'[s] = Detached(x) /\ crew'[s].at = "closing" /\ crew'[s].gone = 0 /\ crew'[s].by = w
        /\ call' = call
    BY <1>0, <1>9 DEF Slots, Crews, Detach
  <2>2. /\ slot'[s].browser = "none" /\ slot'[s].gen = slot[s].gen + 1
        /\ slot'[s].active = x.active /\ slot'[s].holds = x.holds
    BY <2>1, SlotFormFields
  <2>3. Sessions(s) = {}
    <3>1. Cardinality(Sessions(s)) = 0
      BY <1>0, <1>9, Places DEF Held
    <3> QED BY <1>0, <3>1, Places, FS_EmptySet
  <2>4. SlotCounts(s)'
    BY <1>5, <2>1, <2>2
  <2>5. CrewSound(s)'
    BY <2>1, <2>2 DEF CrewSound
  <2>6. CrewDriven(s)'
    BY <2>1, <2>2 DEF CrewDriven, Driven, Blind
  <2>7. \A r \in waiting : r.slot = s => r.gen # slot'[s].gen
    <3> SUFFICES ASSUME NEW r \in waiting, r.slot = s PROVE r.gen # slot'[s].gen
      OBVIOUS
    <3>1. r.gen <= slot[s].gen /\ r.gen \in Nat /\ slot[s].gen \in Nat
      BY <1>0, <1>6 DEF RequestDriven, BrowserTypes, PoolRequests, SlotRec
    <3> QED BY <2>2, <3>1
  <2>8. \A t \in closer.todo : call[t].on # s
    BY <1>4, <2>3 DEF Sessions
  <2> QED BY <1>4, <2>2, <2>3, <2>4, <2>5, <2>6, <2>7, <2>8, RecyclerMoves
<1> QED BY <1>7, <1>8, <1>9

LEMMA GoOnSafe ==
  ASSUME BrowserInv, BrowserTypes', NEW s \in PoolSlots, NEW w \in Drivers, Advances(s, w), Driven(s, w),
         NEW x \in SlotRec, x.browser = slot[s].browser, x.gen = slot[s].gen, x.active = slot[s].active,
         x.holds = Cardinality(Sessions(s)), session' = session, crew[s].at # "closing", GoOn(s, w, x)
  PROVE  BrowserInv'
<1>1. \/ Held(x) /\ slot' = [slot EXCEPT ![s] = Spared(x)] /\ crew' = [crew EXCEPT ![s] = NoCrew]
      \/ /\ slot' = [slot EXCEPT ![s] = x]
         /\ crew' = [crew EXCEPT ![s] = [at |-> "drain", gone |-> 0, by |-> w]]
         /\ call' = call
      \/ ~Held(x) /\ Detach(s, w, x)
  BY DEF GoOn
<1> QED BY <1>1, GoesOnSafe

\* The steps of a recycler are of one slot and one driver.
LEMMA GoOnMoves ==
  ASSUME BrowserTypes, NEW s \in PoolSlots, NEW w \in Drivers, NEW x \in SlotRec, GoOn(s, w, x)
  PROVE  /\ \A q \in PoolSlots \ {s} : slot'[q] = slot[q] /\ crew'[q] = crew[q]
         /\ \/ DriverReturns(w) /\ crew'[s].by = "nobody"
            \/ UNCHANGED <<call, closer>> /\ crew'[s].by = w
<1>1. slot \in Slots /\ crew \in Crews
  BY DEF BrowserTypes
<1>2. CASE /\ slot' = [slot EXCEPT ![s] = Spared(x)] /\ crew' = [crew EXCEPT ![s] = NoCrew]
           /\ DriverReturns(w)
  BY <1>1, <1>2 DEF Slots, Crews, NoCrew
<1>3. CASE /\ slot' = [slot EXCEPT ![s] = x] /\ UNCHANGED <<call, closer>>
           /\ crew' = [crew EXCEPT ![s] = [at |-> "drain", gone |-> 0, by |-> w]]
  BY <1>1, <1>3 DEF Slots, Crews
<1>4. CASE Detach(s, w, x)
  BY <1>1, <1>4 DEF Slots, Crews, Detach
<1> QED BY <1>2, <1>3, <1>4 DEF GoOn

\* A recycler begins: its request was dropped, or the slot is its own.
LEMMA BeginSafe == ASSUME BrowserInv, NEW r \in waiting, Begin(r) PROVE BrowserInv'
<1>0. /\ BrowserTypes /\ BrowserTypes' /\ r.slot \in PoolSlots /\ r.by \in Drivers /\ r.gen \in Nat
      /\ slot \in Slots /\ crew \in Crews
  BY BeginTypes DEF BrowserInv, BrowserTypes, PoolRequests
<1> SUFFICES ASSUME NEW s \in PoolSlots, s = r.slot, NEW w \in Drivers, w = r.by PROVE BrowserInv'
  BY <1>0
<1>1. /\ crew[s].at = "free" /\ crew[s].by = "nobody" /\ crew[s].gone = 0
      /\ waiting' = waiting \ {r} /\ slot[s] \in SlotRec
      /\ SlotCounts(s) /\ CrewSound(s) /\ CrewDriven(s) /\ RequestDriven(r)
  BY <1>0 DEF Begin, BrowserInv, CrewSound, Slots
<1>2. /\ crew[s].by = "nobody" /\ \E q \in waiting : q.by = w /\ waiting' = waiting \ {q}
  BY <1>1
<1>3. [slot[s] EXCEPT !.draining = TRUE] \in SlotRec
  BY <1>1, SlotSetters
<1> DEFINE x == [slot[s] EXCEPT !.draining = TRUE]
<1>4. /\ x.browser = slot[s].browser /\ x.gen = slot[s].gen /\ x.active = slot[s].active
      /\ x.holds = slot[s].holds
  BY <1>1 DEF SlotRec
<1>5. slot[s].gen = r.gen => Driven(s, w)
  BY <1>1 DEF RequestDriven, Driven
<1>6. \A t \in closer.todo : t \in session /\ slot[call[t].on].browser = "live"
  BY DEF BrowserInv, ClosingSound
<1>7. \A q \in waiting : q.slot = s => RequestDriven(q)
  BY DEF BrowserInv
<1>8. CASE WornOut(r) /\ DriverReturns(w) /\ UNCHANGED <<slot, session, crew>>
  <2>1. Advances(s, w)
    BY <1>1, <1>2, <1>8 DEF Advances
  <2>2. Sessions(s)' = Sessions(s) /\ Placed(s)' = Placed(s) /\ Reserved(s)' = Reserved(s)
    BY <1>8, <2>1, DriverMoves DEF Sessions, Placed
  <2>3. SlotCounts(s)' /\ CrewSound(s)'
    BY <1>1, <1>8, <2>2, SameCounts, SameCrew
  <2>4. CrewDriven(s)'
    BY <1>1, <1>8, PoolAssumption DEF CrewDriven, Blind
  <2>5. \A q \in waiting : q.slot = s /\ Blind(q.by) /\ q.gen = slot'[s].gen =>
                               slot'[s].browser # "live" /\ crew'[s].at # "closing"
    BY <1>7, <1>8 DEF RequestDriven
  <2> QED BY <1>0, <1>6, <1>8, <2>1, <2>3, <2>4, <2>5, RecyclerMoves
<1>9. CASE ~WornOut(r) /\ GoOn(s, w, x) /\ UNCHANGED session
  <2>1. Advances(s, w)
    BY <1>0, <1>2, <1>3, <1>9, GoOnMoves DEF Advances
  <2>2. Driven(s, w)
    BY <1>5, <1>9 DEF WornOut
  <2>3. x.holds = Cardinality(Sessions(s))
    BY <1>0, <1>1, <1>4, Places DEF SlotCounts
  <2> QED BY <1>0, <1>1, <1>3, <1>4, <1>9, <2>1, <2>2, <2>3, GoOnSafe
<1>10. CASE /\ ~WornOut(r) /\ x.browser # "live"
            /\ slot' = [slot EXCEPT ![s] = x]
            /\ session' = session \ Sessions(s)
            /\ crew' = [crew EXCEPT ![s] = [at |-> "discard", gone |-> Cardinality(Sessions(s)), by |-> w]]
            /\ UNCHANGED <<call, closer>>
  <2>1. /\ slot'[s] = x /\ crew'[s].at = "discard" /\ crew'[s].by = w
        /\ crew'[s].gone = Cardinality(Sessions(s))
        /\ \A q \in PoolSlots \ {s} : slot'[q] = slot[q] /\ crew'[q] = crew[q]
    BY <1>0, <1>10 DEF Slots, Crews
  <2>2. Advances(s, w)
    BY <1>2, <1>10, <2>1 DEF Advances
  <2>3. Sessions(s)' = {} /\ Reserved(s)' = Reserved(s)
    BY <1>10 DEF Sessions, Reserved
  <2>4. Placed(s)' \subseteq Placed(s)
    BY <2>3 DEF Placed
  <2>5. SlotCounts(s)'
    <3>1. Cardinality(Placed(s)') <= Cardinality(Placed(s)) /\ Cardinality(Placed(s)') \in Nat
      BY <1>0, <2>4, Places, FS_Subset, FS_CardinalityType
    <3>2. Cardinality(Placed(s)') <= MaxContexts
      BY <1>0, <1>1, <3>1, Places, PoolAssumption DEF SlotCounts
    <3>3. Cardinality(Sessions(s)') = 0
      BY <2>3, FS_EmptySet
    <3>4. slot'[s].holds = Cardinality(Sessions(s)') + crew'[s].gone
      BY <1>0, <1>1, <1>4, <2>1, <3>3, Places DEF SlotCounts
    <3>5. slot'[s].active = Cardinality(Reserved(s)')
      BY <1>1, <1>4, <2>1, <2>3 DEF SlotCounts
    <3> QED BY <3>2, <3>4, <3>5 DEF SlotCounts
  <2>6. CrewSound(s)'
    <3>1. Cardinality(Sessions(s)) <= Cardinality(Placed(s))
      BY <1>0, Places, FS_Subset DEF Placed
    <3>2. crew'[s].gone <= MaxContexts
      BY <1>0, <1>1, <2>1, <3>1, Places, PoolAssumption DEF SlotCounts
    <3> QED BY <1>10, <2>1, <2>3, <3>2 DEF CrewSound
  <2>7. CrewDriven(s)'
    BY <1>4, <1>5, <1>10, <2>1 DEF CrewDriven, Driven, Blind, WornOut
  <2>8. \A q \in waiting : q.slot = s /\ Blind(q.by) /\ q.gen = slot'[s].gen =>
                               slot'[s].browser # "live" /\ crew'[s].at # "closing"
    BY <1>10, <2>1
  <2>9. \A t \in closer.todo : t \in session' /\ (call[t].on = s => slot'[s].browser = "live")
    BY <1>4, <1>6, <1>10 DEF Sessions
  <2>10. /\ session' \subseteq session /\ \A t \in session \ session' : call[t].on = s
    BY <1>10 DEF Sessions
  <2>11. slot'[s].gen = slot[s].gen
    BY <1>4, <2>1
  <2> QED BY <1>0, <2>2, <2>5, <2>6, <2>7, <2>8, <2>9, <2>10, <2>11, RecyclerMoves
<1> QED BY <1>8, <1>9, <1>10 DEF Begin

\* The driver of a recycler at work.
LEMMA CrewDriver ==
  ASSUME BrowserInv, NEW s \in PoolSlots, crew[s].at # "free"
  PROVE  /\ crew[s].by \in Drivers
         /\ crew[s].at # "closing" => Driven(s, crew[s].by)
<1>1. CrewSound(s) /\ CrewDriven(s) /\ crew[s].at \in {"free", "discard", "drain", "closing"}
  BY DEF BrowserInv, BrowserTypes, Crews, CrewRec
<1> QED BY <1>1 DEF CrewSound, CrewDriven, Driven

LEMMA DiscardedSafe == ASSUME BrowserInv, NEW s \in PoolSlots, Discarded(s) PROVE BrowserInv'
<1>1. crew[s].at = "discard" /\ crew[s].by \in Drivers /\ Driven(s, crew[s].by)
  BY CrewDriver DEF Discarded
<1>0. /\ BrowserTypes /\ BrowserTypes' /\ slot[s] \in SlotRec /\ crew[s].gone \in Nat
      /\ SlotCounts(s) /\ CrewSound(s)
  BY <1>1, InvTypes, RecyclerTypes DEF BrowserInv, BrowserTypes, Slots, Crews, CrewRec
<1> SUFFICES ASSUME NEW w \in Drivers, w = crew[s].by PROVE BrowserInv'
  BY <1>1
<1>2. Sessions(s) = {} /\ Cardinality(Sessions(s)) = 0
  BY <1>0, <1>1, FS_EmptySet DEF CrewSound
<1>3. GivenUp(s) = 0
  BY <1>0, <1>2 DEF SlotCounts, GivenUp, Greater
<1> DEFINE x == [slot[s] EXCEPT !.holds = GivenUp(s)]
<1>4. x \in SlotRec
  <2>1. [slot[s] EXCEPT !.holds = 0] \in SlotRec
    BY <1>0 DEF SlotRec
  <2> QED BY <1>3, <2>1
<1>5. /\ x.browser = slot[s].browser /\ x.gen = slot[s].gen /\ x.active = slot[s].active
      /\ x.holds = Cardinality(Sessions(s))
  BY <1>0, <1>2, <1>3 DEF SlotRec
<1>6. GoOn(s, w, x) /\ UNCHANGED <<session, waiting, pool>>
  BY DEF Discarded
<1>7. Advances(s, w)
  BY <1>0, <1>4, <1>6, GoOnMoves DEF Advances
<1> HIDE DEF x
<1> QED BY <1>0, <1>1, <1>4, <1>5, <1>6, <1>7, GoOnSafe

LEMMA DrainedSafe == ASSUME BrowserInv, NEW s \in PoolSlots, Drained(s) PROVE BrowserInv'
<1>1. crew[s].at = "drain" /\ crew[s].by \in Drivers /\ Driven(s, crew[s].by)
  BY CrewDriver DEF Drained
<1>0. /\ BrowserTypes /\ BrowserTypes' /\ slot[s] \in SlotRec /\ crew[s].gone = 0
      /\ SlotCounts(s) /\ CrewSound(s) /\ slot \in Slots /\ crew \in Crews
  BY <1>1, InvTypes, RecyclerTypes DEF BrowserInv, BrowserTypes, Slots, CrewSound
<1> SUFFICES ASSUME NEW w \in Drivers, w = crew[s].by PROVE BrowserInv'
  BY <1>1
<1>2. slot[s].holds = Cardinality(Sessions(s))
  BY <1>0, Places DEF SlotCounts
<1>3. CASE /\ Held(slot[s]) /\ slot' = [slot EXCEPT ![s] = Spared(slot[s])]
           /\ crew' = [crew EXCEPT ![s] = NoCrew] /\ DriverReturns(w)
           /\ UNCHANGED <<session, waiting, pool>>
  <2>1. Advances(s, w)
    BY <1>0, <1>3 DEF Advances, NoCrew, Slots, Crews
  <2> QED BY <1>0, <1>1, <1>2, <1>3, <2>1, GoesOnSafe
<1>4. CASE ~Held(slot[s]) /\ Detach(s, w, slot[s]) /\ UNCHANGED <<session, waiting, pool>>
  <2>1. Advances(s, w)
    BY <1>0, <1>4 DEF Advances, Detach, Slots, Crews
  <2> QED BY <1>0, <1>1, <1>2, <1>4, <2>1, GoesOnSafe
<1> QED BY <1>3, <1>4 DEF Drained

LEMMA RelaunchSafe == ASSUME BrowserInv, NEW s \in PoolSlots, NEW ok \in BOOLEAN, Relaunch(s, ok)
                      PROVE  BrowserInv'
<1>1. crew[s].at = "closing" /\ crew[s].by \in Drivers
  BY CrewDriver DEF Relaunch
<1>0. /\ BrowserTypes /\ BrowserTypes' /\ slot[s] \in SlotRec /\ crew[s].gone = 0
      /\ SlotCounts(s) /\ CrewSound(s) /\ slot \in Slots /\ crew \in Crews /\ slot[s].browser = "none"
  <2>1. Relaunch(s, TRUE) \/ Relaunch(s, FALSE)
    BY Zenon
  <2> QED BY <1>1, <2>1, InvTypes, RecyclerTypes DEF BrowserInv, BrowserTypes, Slots, CrewSound
<1> SUFFICES ASSUME NEW w \in Drivers, w = crew[s].by PROVE BrowserInv'
  BY <1>1
<1>2. /\ crew' = [crew EXCEPT ![s] = NoCrew] /\ DriverReturns(w)
      /\ UNCHANGED <<session, waiting, pool>>
  BY DEF Relaunch
<1>3. /\ slot'[s].gen = slot[s].gen /\ slot'[s].active = slot[s].active /\ slot'[s].holds = slot[s].holds
      /\ slot'[s].draining => slot'[s].browser # "live"
      /\ \A q \in PoolSlots \ {s} : slot'[q] = slot[q] /\ crew'[q] = crew[q]
  <2>1. CASE ok = TRUE
    BY <1>0, <1>2, <2>1 DEF Relaunch, Slots, SlotRec, Crews
  <2>2. CASE ok = FALSE
    BY <1>0, <1>2, <2>2 DEF Relaunch, Slots, SlotRec, Crews
  <2> QED BY <2>1, <2>2
<1>4. crew'[s].at = "free" /\ crew'[s].gone = 0 /\ crew'[s].by = "nobody"
  BY <1>0, <1>2 DEF NoCrew, Crews
<1>5. Advances(s, w)
  BY <1>2, <1>3, <1>4 DEF Advances
<1>6. Sessions(s)' = Sessions(s) /\ Placed(s)' = Placed(s) /\ Reserved(s)' = Reserved(s)
  BY <1>2, <1>5, DriverMoves DEF Sessions, Placed
<1>7. SlotCounts(s)' /\ CrewSound(s)' /\ CrewDriven(s)'
  <2>1. SlotCounts(s)'
    BY <1>0, <1>3, <1>4, <1>6, SameCounts
  <2>2. CrewSound(s)' /\ CrewDriven(s)'
    BY <1>3, <1>4, PoolAssumption DEF CrewSound, CrewDriven, Blind
  <2> QED BY <2>1, <2>2
<1>8. \A r \in waiting : r.slot = s /\ Blind(r.by) /\ r.gen = slot'[s].gen =>
                             slot'[s].browser # "live" /\ crew'[s].at # "closing"
  BY <1>1, <1>3 DEF BrowserInv, RequestDriven
<1>9. \A t \in closer.todo : t \in session' /\ (call[t].on = s => slot'[s].browser = "live")
  BY <1>0, <1>2 DEF BrowserInv, ClosingSound
<1> QED BY <1>0, <1>2, <1>3, <1>5, <1>7, <1>8, <1>9, RecyclerMoves

\* A dead browser's recycle is asked for by its listener, who finds it dead.
LEMMA DieSafe ==
  ASSUME BrowserInv, ~ClosesMeetDeaths, NEW s \in PoolSlots, Die(s)
  PROVE  BrowserInv'
<1>0. BrowserTypes /\ BrowserTypes' /\ slot[s].browser = "live"
  BY InvTypes, DieTypes DEF Die
<1>1. /\ UNCHANGED <<call, session, crew, closer>>
      /\ waiting' = waiting \cup {[slot |-> s, gen |-> slot[s].gen, by |-> "event"]}
  BY DEF Die
<1>2. /\ \A q \in PoolSlots : /\ slot'[q].gen = slot[q].gen /\ slot'[q].draining = slot[q].draining
                              /\ slot'[q].active = slot[q].active /\ slot'[q].holds = slot[q].holds
                              /\ slot[q].browser # "live" => slot'[q].browser = slot[q].browser
                              /\ q # s => slot'[q].browser = slot[q].browser
      /\ slot'[s].browser = "dead"
  BY <1>0 DEF Die, BrowserTypes, Slots, SlotRec
<1>3. \A q \in PoolSlots : /\ Sessions(q)' = Sessions(q) /\ Reserved(q)' = Reserved(q)
                           /\ Placed(q)' = Placed(q)
  BY <1>1 DEF Sessions, Reserved, Placed
<1>4. \A q \in PoolSlots : SlotCounts(q)'
  BY <1>1, <1>2, <1>3, SameCounts DEF BrowserInv
<1>5. \A q \in PoolSlots : CrewSound(q)' /\ CrewDriven(q)'
  <2> TAKE q \in PoolSlots
  <2>1. CrewSound(q) /\ CrewDriven(q) /\ crew'[q] = crew[q] /\ Sessions(q)' = Sessions(q)
    BY <1>1, <1>3 DEF BrowserInv
  <2>2. CASE q # s
    BY <1>1, <1>2, <2>1, <2>2 DEF CrewSound, CrewDriven, Blind
  <2>3. CASE q = s
    <3>1. CrewSound(q)'
      BY <1>0, <1>1, <1>2, <2>1, <2>3 DEF CrewSound
    <3>2. CrewDriven(q)'
      BY <1>0, <1>1, <1>2, <2>1, <2>3 DEF CrewDriven, Blind
    <3> QED BY <3>1, <3>2
  <2> QED BY <2>2, <2>3
<1>6. \A r \in waiting' : RequestDriven(r)'
  <2>1. ASSUME NEW r \in waiting PROVE RequestDriven(r)'
    <3>1. RequestDriven(r) /\ r.slot \in PoolSlots
      BY <1>0 DEF BrowserInv, BrowserTypes, PoolRequests
    <3> QED BY <1>1, <1>2, <3>1 DEF RequestDriven, Blind
  <2>2. ASSUME NEW r, r = [slot |-> s, gen |-> slot[s].gen, by |-> "event"] PROVE RequestDriven(r)'
    <3>1. r.slot = s /\ r.gen = slot[s].gen /\ r.by \notin PoolCalls /\ slot[s].gen \in Nat
      BY <1>0, <2>2, PoolAssumption DEF BrowserTypes, Slots, SlotRec
    <3>2. crew[s].at # "closing"
      BY <1>0 DEF BrowserInv, CrewSound
    <3> QED BY <1>1, <1>2, <3>1, <3>2 DEF RequestDriven
  <2> QED BY <1>1, <2>1, <2>2
<1>7. DrivesOnce'
  BY <1>1, PoolAssumption DEF BrowserInv, DrivesOnce
<1>8. ClosingSound'
  <2>1. \A t \in closer.todo : call[t].on # s
    BY DEF Die, BrowserInv, ClosingSound, Sessions
  <2> QED BY <1>1, <1>2, <2>1 DEF BrowserInv, ClosingSound, WindowSound
<1>9. (\A t \in PoolCalls : CallSound(t)') /\ (\A t \in session' : WindowSound(t)')
  BY <1>1, <1>2 DEF BrowserInv, CallSound, WindowSound
<1> QED BY <1>0, <1>4, <1>5, <1>6, <1>7, <1>8, <1>9 DEF BrowserInv

\* What the operator asks for moves no window and no browser.
LEMMA OperatorAsks ==
  ASSUME BrowserInv, BrowserTypes', UNCHANGED <<slot, call, session, crew>>, ClosingSound',
         \/ waiting' = waiting
         \/ \E s \in PoolSlots : waiting' = waiting \cup {[slot |-> s, gen |-> slot[s].gen, by |-> "operator"]}
  PROVE  BrowserInv'
<1>0. BrowserTypes
  BY DEF BrowserInv
<1>1. /\ \A t \in PoolCalls : CallSound(t)'
      /\ \A t \in session' : WindowSound(t)'
  BY DEF BrowserInv, CallSound, WindowSound
<1>2. \A s \in PoolSlots : SlotCounts(s)' /\ CrewSound(s)' /\ CrewDriven(s)'
  <2> TAKE s \in PoolSlots
  <2>1. SlotCounts(s) /\ CrewSound(s) /\ CrewDriven(s)
    BY DEF BrowserInv
  <2>2. Sessions(s)' = Sessions(s) /\ Reserved(s)' = Reserved(s) /\ Placed(s)' = Placed(s)
    BY DEF Sessions, Reserved, Placed
  <2>3. SlotCounts(s)' /\ CrewSound(s)'
    BY <2>1, <2>2, SameCounts, SameCrew
  <2>4. CrewDriven(s)'
    BY <2>1 DEF CrewDriven, Blind
  <2> QED BY <2>3, <2>4
<1>3. \A r \in waiting : RequestDriven(r)'
  BY DEF BrowserInv, RequestDriven, Blind
<1>4. CASE waiting' = waiting
  BY <1>1, <1>2, <1>3, <1>4 DEF BrowserInv, DrivesOnce
<1>5. ASSUME NEW s \in PoolSlots, waiting' = waiting \cup {[slot |-> s, gen |-> slot[s].gen, by |-> "operator"]}
      PROVE  BrowserInv'
  <2>1. ASSUME NEW r, r = [slot |-> s, gen |-> slot[s].gen, by |-> "operator"] PROVE RequestDriven(r)'
    <3>1. /\ r.slot = s /\ r.gen = slot[s].gen /\ r.by \notin PoolCalls /\ r.by # "event"
          /\ slot[s].gen \in Nat
      BY <1>0, <2>1, PoolAssumption DEF BrowserTypes, Slots, SlotRec
    <3> QED BY <3>1 DEF RequestDriven, Blind
  <2>2. \A r \in waiting' : RequestDriven(r)'
    BY <1>3, <1>5, <2>1
  <2>3. DrivesOnce'
    BY <1>5, PoolAssumption DEF BrowserInv, DrivesOnce
  <2> QED BY <1>1, <1>2, <2>2, <2>3 DEF BrowserInv
<1> QED BY <1>4, <1>5

LEMMA AskCloseSafe ==
  ASSUME BrowserInv, ~ClosesMeetDeaths, NEW ts \in SUBSET session, AskClose(ts)
  PROVE  BrowserInv'
<1>1. BrowserTypes'
  BY InvTypes, OperatorTypes
<1>2. closer'.todo = ts /\ UNCHANGED <<slot, call, session, crew, waiting>>
  BY DEF AskClose, NoClose
<1>3. ClosingSound'
  BY <1>2 DEF AskClose, ClosingSound
<1> QED BY <1>1, <1>2, <1>3, OperatorAsks

LEMMA CloseRecyclesSafe == ASSUME BrowserInv, NEW s \in PoolSlots, CloseRecycles(s) PROVE BrowserInv'
<1>1. BrowserTypes'
  BY InvTypes, OperatorTypes
<1>2. closer'.todo = {}
  BY DEF CloseRecycles, BrowserInv, BrowserTypes, CloserRec
<1>3. ClosingSound'
  BY <1>2 DEF ClosingSound
<1> QED BY <1>1, <1>3, OperatorAsks DEF CloseRecycles

LEMMA CloseEndsSafe == ASSUME BrowserInv, CloseEnds PROVE BrowserInv'
<1>1. BrowserTypes'
  BY InvTypes, OperatorTypes
<1>2. closer'.todo = {}
  BY DEF CloseEnds, NoClose
<1>3. ClosingSound'
  BY <1>2 DEF ClosingSound
<1> QED BY <1>1, <1>3, OperatorAsks DEF CloseEnds

\* A window is closed, and its hold given back, or it stays with its hold.
LEMMA CloseOneSafe ==
  ASSUME BrowserInv, NEW t \in PoolCalls, NEW ok \in BOOLEAN, CloseOne(t, ok)
  PROVE  BrowserInv'
<1>0. BrowserTypes /\ t \in session /\ WindowSound(t)
  BY DEF BrowserInv, CloseOne, ClosingSound
<1>1. call[t].on \in PoolSlots /\ slot[call[t].on].browser = "live" /\ BrowserTypes'
  BY <1>0, CloseOneTypes DEF WindowSound, BrowserInv, CloseOne, ClosingSound
<1> SUFFICES ASSUME NEW s \in PoolSlots, s = call[t].on PROVE BrowserInv'
  BY <1>1
<1>2. UNCHANGED <<call, crew, waiting>> /\ closer'.todo = closer.todo \ {t}
  BY <1>0 DEF CloseOne, BrowserTypes, CloserRec
<1>3. CASE ok = FALSE
  <2>1. slot' = slot /\ session' = session
    <3>1. [slot[s] EXCEPT !.holds = slot[s].holds] = slot[s]
      BY <1>0 DEF BrowserTypes, Slots, SlotRec
    <3>2. slot' = [slot EXCEPT ![s] = slot[s]] /\ session' = session
      BY <1>3, <3>1 DEF CloseOne
    <3> QED BY <1>0, <3>2 DEF BrowserTypes, Slots
  <2>2. ClosingSound'
    BY <1>2, <2>1 DEF BrowserInv, ClosingSound
  <2> QED BY <1>1, <1>2, <2>1, <2>2, OperatorAsks
<1>4. CASE ok = TRUE
  <2>0. session' = session \ {t} /\ slot' = [slot EXCEPT ![s] = [slot[s] EXCEPT !.holds = OneLess(slot[s].holds)]]
    BY <1>4 DEF CloseOne
  <2>1. /\ \A q \in PoolSlots : /\ slot'[q].browser = slot[q].browser /\ slot'[q].gen = slot[q].gen
                                /\ slot'[q].draining = slot[q].draining /\ slot'[q].active = slot[q].active
                                /\ q # s => slot'[q].holds = slot[q].holds
        /\ slot'[s].holds = OneLess(slot[s].holds)
    BY <1>0, <2>0 DEF BrowserTypes, Slots, SlotRec
  <2>2. \A q \in PoolSlots \ {s} : Sessions(q)' = Sessions(q)
    BY <1>2, <2>0 DEF Sessions
  <2>3. Sessions(s)' = Sessions(s) \ {t} /\ t \in Sessions(s)
    BY <1>0, <1>2, <2>0 DEF Sessions
  <2>4. \A q \in PoolSlots : Reserved(q)' = Reserved(q)
    BY <1>2 DEF Reserved
  <2>5. \A q \in PoolSlots : SlotCounts(q)' /\ CrewSound(q)'
    <3>1. ASSUME NEW q \in PoolSlots \ {s} PROVE SlotCounts(q)' /\ CrewSound(q)'
      <4>1. Placed(q)' = Placed(q) /\ Sessions(q)' = Sessions(q)
        BY <2>2, <2>4 DEF Placed
      <4> QED BY <1>2, <2>1, <2>4, <4>1, SameCounts, SameCrew DEF BrowserInv
    <3>2. SlotCounts(s) /\ CrewSound(s) /\ crew[s].gone \in Nat /\ slot[s].holds \in Nat
      BY <1>0 DEF BrowserInv, BrowserTypes, Slots, SlotRec, Crews, CrewRec
    <3>3. SlotCounts(s)'
      <4>1. Cardinality(Sessions(s)') = Cardinality(Sessions(s)) - 1
        BY <1>0, <2>3, Places, FS_RemoveElement
      <4>2. slot'[s].holds = Cardinality(Sessions(s)') + crew'[s].gone
        <5>1. Cardinality(Sessions(s)') \in Nat
          BY <1>0, <2>3, Places, FS_RemoveElement, FS_CardinalityType
        <5>2. slot[s].holds = Cardinality(Sessions(s)) + crew[s].gone
          BY <3>2 DEF SlotCounts
        <5>3. slot[s].holds > 0
          BY <1>0, <3>2, <4>1, <5>1, <5>2, Places
        <5> QED BY <1>0, <1>2, <2>1, <3>2, <4>1, <5>1, <5>2, <5>3, Counting, Places
      <4>3. Cardinality(Placed(s)') <= Cardinality(Placed(s)) /\ Cardinality(Placed(s)') \in Nat
        <5>1. Placed(s)' \subseteq Placed(s)
          BY <2>3, <2>4 DEF Placed
        <5> QED BY <1>0, <5>1, Places, FS_Subset, FS_CardinalityType
      <4>4. Cardinality(Placed(s)') <= MaxContexts
        BY <1>0, <3>2, <4>3, Places, PoolAssumption DEF SlotCounts
      <4>5. slot'[s].active = Cardinality(Reserved(s)')
        BY <2>1, <2>4, <3>2 DEF SlotCounts
      <4> QED BY <4>2, <4>4, <4>5 DEF SlotCounts
    <3>4. CrewSound(s)'
      <4>1. crew[s].at # "discard"
        BY <2>3, <3>2 DEF CrewSound
      <4> QED BY <1>2, <2>1, <3>2, <4>1 DEF CrewSound
    <3> QED BY <3>1, <3>3, <3>4
  <2>6. \A u \in PoolCalls : CallSound(u)'
    BY <1>2 DEF BrowserInv, CallSound
  <2>7. \A u \in session' : WindowSound(u)'
    BY <1>2, <2>0, <2>1 DEF BrowserInv, WindowSound
  <2>8. \A q \in PoolSlots : CrewDriven(q)'
    BY <1>2, <2>1 DEF BrowserInv, CrewDriven, Blind
  <2>9. \A r \in waiting' : RequestDriven(r)'
    <3> TAKE r \in waiting'
    <3>1. r \in waiting /\ RequestDriven(r) /\ r.slot \in PoolSlots
      BY <1>0, <1>2 DEF BrowserInv, BrowserTypes, PoolRequests
    <3> QED BY <1>2, <2>1, <3>1 DEF RequestDriven, Blind
  <2>10. DrivesOnce'
    BY <1>2 DEF BrowserInv, DrivesOnce
  <2>11. ClosingSound'
    BY <1>2, <2>0, <2>1 DEF BrowserInv, ClosingSound, WindowSound
  <2> QED BY <1>1, <2>5, <2>6, <2>7, <2>8, <2>9, <2>10, <2>11 DEF BrowserInv
<1> QED BY <1>3, <1>4

\* A pool that is shut is empty: nothing was in it.
LEMMA ShutDownSafe == ASSUME BrowserInv, ShutDown PROVE BrowserInv'
<1>0. BrowserTypes /\ BrowserTypes'
  BY InvTypes, OperatorTypes
<1>1. /\ session' = {} /\ waiting' = {} /\ closer' = NoClose
      /\ \A s \in PoolSlots : /\ crew'[s] = NoCrew /\ slot'[s].browser = "none"
                              /\ slot'[s].holds = 0 /\ slot'[s].active = 0
  BY <1>0 DEF ShutDown, Unused, BrowserTypes, Slots, SlotRec
<1>2. \A t \in PoolCalls : call'[t].at \in {"out", "over"}
  BY <1>0 DEF ShutDown, InsidePool, BrowserTypes, Calls, CallRec
<1>3. \A t \in PoolCalls : CallSound(t)'
  BY <1>2 DEF CallSound, Permitted, Reserving
<1>4. \A s \in PoolSlots : SlotCounts(s)' /\ CrewSound(s)' /\ CrewDriven(s)'
  <2> TAKE s \in PoolSlots
  <2>1. Sessions(s)' = {} /\ Reserved(s)' = {}
    BY <1>1, <1>2 DEF Sessions, Reserved, Reserving
  <2>2. Placed(s)' = {}
    BY <2>1 DEF Placed
  <2>3. crew'[s].at = "free" /\ crew'[s].gone = 0 /\ crew'[s].by = "nobody"
    BY <1>1 DEF NoCrew
  <2>4. SlotCounts(s)'
    <3>1. Cardinality(Reserved(s)') = 0 /\ Cardinality(Sessions(s)') = 0 /\ Cardinality(Placed(s)') = 0
      BY <2>1, <2>2, FS_EmptySet
    <3> QED BY <1>1, <2>3, <3>1, PoolAssumption DEF SlotCounts
  <2>5. CrewSound(s)' /\ CrewDriven(s)'
    BY <1>1, <2>3, PoolAssumption DEF CrewSound, CrewDriven, Blind
  <2> QED BY <2>4, <2>5
<1>5. (\A r \in waiting' : RequestDriven(r)') /\ (\A t \in session' : WindowSound(t)')
  BY <1>1
<1>6. DrivesOnce' /\ ClosingSound'
  BY <1>1, PoolAssumption DEF DrivesOnce, ClosingSound, NoCrew, NoClose
<1> QED BY <1>0, <1>3, <1>4, <1>5, <1>6 DEF BrowserInv

LEMMA BrowserInit == PoolInit => BrowserInv
<1> SUFFICES ASSUME PoolInit PROVE BrowserInv
  OBVIOUS
<1>1. /\ \A s \in PoolSlots : slot[s] = FreshBrowser /\ crew[s] = NoCrew
      /\ \A t \in PoolCalls : call[t] = Unasked
      /\ session = {} /\ waiting = {} /\ closer = NoClose
  BY DEF PoolInit
<1>2. BrowserTypes
  BY PoolAssumption DEF PoolInit, BrowserTypes, Slots, SlotRec, FreshBrowser, Calls, CallRec, Unasked,
     Permitted, Reserving, Crews, CrewRec, NoCrew, CloserRec, NoClose, PoolRequests, PoolStates
<1>3. \A s \in PoolSlots : Sessions(s) = {} /\ Reserved(s) = {} /\ Placed(s) = {}
  BY <1>1 DEF Sessions, Reserved, Placed, Unasked, Reserving
<1>4. \A s \in PoolSlots : SlotCounts(s) /\ CrewSound(s) /\ CrewDriven(s)
  <2> TAKE s \in PoolSlots
  <2>1. Cardinality(Reserved(s)) = 0 /\ Cardinality(Sessions(s)) = 0 /\ Cardinality(Placed(s)) = 0
    BY <1>3, FS_EmptySet
  <2>2. SlotCounts(s)
    BY <1>1, <2>1, PoolAssumption DEF SlotCounts, FreshBrowser, NoCrew
  <2> QED BY <1>1, <2>2, PoolAssumption DEF CrewSound, CrewDriven, Blind, FreshBrowser, NoCrew
<1>5. \A t \in PoolCalls : CallSound(t)
  BY <1>1 DEF CallSound, Unasked, Permitted, Reserving
<1>6. DrivesOnce /\ ClosingSound
  BY <1>1, PoolAssumption DEF DrivesOnce, ClosingSound, NoCrew, NoClose
<1> QED BY <1>1, <1>2, <1>4, <1>5, <1>6 DEF BrowserInv

LEMMA BrowserStep ==
  ASSUME ~LateDeadlines, ~ClosesMeetDeaths, BrowserInv, [PoolNext]_poolVars
  PROVE  BrowserInv'
<1>1. ASSUME NEW t \in PoolCalls, CallStep(t) PROVE BrowserInv'
  BY <1>1, AskSafe, GiveUpSafe, ReserveSlotSafe, SucceedSafe, FailVisiblySafe, RetainSafe, ExpireSafe,
     PickSafe, RecoverSlotSafe, FailSafe, LeavePoolSafe DEF CallStep
<1>2. CASE RecyclerStep
  BY <1>2, BeginSafe, DiscardedSafe, DrainedSafe, RelaunchSafe DEF RecyclerStep
<1>3. CASE OperatorStep
  BY <1>3, AskCloseSafe, CloseOneSafe, CloseRecyclesSafe, CloseEndsSafe, ShutDownSafe DEF OperatorStep
<1>4. ASSUME NEW s \in PoolSlots, Die(s) PROVE BrowserInv'
  BY <1>4, DieSafe
<1>5. CASE UNCHANGED poolVars
  <2>1. BrowserTypes' /\ ClosingSound' /\ waiting' = waiting
    BY <1>5 DEF poolVars, BrowserInv, BrowserTypes, ClosingSound
  <2> QED BY <1>5, <2>1, OperatorAsks DEF poolVars
<1> QED BY <1>1, <1>2, <1>3, <1>4, <1>5 DEF PoolNext

\* What the invariant says of the places and the types.
LEMMA BrowserFacts == ASSUME BrowserInv
                      PROVE  PoolTypeOK /\ PlacesAddUp /\ WindowsAreCurrent
<1>1. BrowserTypes
  BY DEF BrowserInv
<1>2. \A s \in PoolSlots : SlotCounts(s) /\ CrewSound(s)
  BY DEF BrowserInv
<1>3. \A s \in PoolSlots : slot[s].active \in 0 .. MaxContexts /\ slot[s].holds \in 0 .. MaxContexts
  <2> TAKE s \in PoolSlots
  <2>1. slot[s].active \in Nat /\ slot[s].holds \in Nat /\ crew[s].gone \in Nat
    BY <1>1 DEF BrowserTypes, Slots, SlotRec, Crews, CrewRec
  <2>2. /\ Cardinality(Sessions(s)) <= Cardinality(Placed(s))
        /\ Cardinality(Reserved(s)) <= Cardinality(Placed(s))
    BY <1>1, Places, FS_Subset DEF Placed
  <2>3. Cardinality(Sessions(s)) + crew[s].gone <= MaxContexts
    <3>1. CASE crew[s].at = "discard"
      <4>1. Cardinality(Sessions(s)) = 0
        BY <1>2, <3>1, FS_EmptySet DEF CrewSound
      <4> QED BY <1>2, <2>1, <3>1, <4>1 DEF CrewSound
    <3>2. CASE crew[s].at # "discard"
      BY <1>1, <1>2, <2>2, <3>2, Places, PoolAssumption DEF CrewSound, SlotCounts
    <3> QED BY <3>1, <3>2
  <2> QED BY <1>1, <1>2, <2>1, <2>2, <2>3, Places, PoolAssumption DEF SlotCounts
<1>4. PoolTypeOK
  <2>1. slot \in [PoolSlots -> [browser : {"live", "dead", "none"}, gen : Nat,
                               draining : BOOLEAN, failed : BOOLEAN,
                               active : 0 .. MaxContexts, holds : 0 .. MaxContexts, done : Nat]]
    BY <1>1, <1>3 DEF BrowserTypes, Slots, SlotRec
  <2> QED BY <1>1, <2>1 DEF PoolTypeOK, BrowserTypes, Calls, CallRec, Crews, CrewRec, PoolRequests,
             CloserRec, PoolStates
<1>5. ReservationsReturned /\ HoldsMatchWindows
  BY <1>2 DEF SlotCounts, Reserved, ReservationsReturned, HoldsMatchWindows
<1>6. ContextsFit
  <2> SUFFICES ASSUME NEW s \in PoolSlots, NEW here,
                      here = Sessions(s) \cup {t \in PoolCalls : /\ call[t].on = s /\ call[t].at \in Reserving
                                                                 /\ call[t].gen = slot[s].gen}
               PROVE  Cardinality(here) <= MaxContexts
    BY DEF ContextsFit
  <2>1. here \subseteq Placed(s)
    BY DEF Placed, Reserved
  <2>2. Cardinality(here) <= Cardinality(Placed(s)) /\ Cardinality(here) \in Nat
    BY <1>1, <2>1, Places, FS_Subset, FS_CardinalityType
  <2> QED BY <1>1, <1>2, <2>2, Places, PoolAssumption DEF SlotCounts
<1>7. WindowsAreCurrent
  BY DEF BrowserInv, WindowSound, WindowsAreCurrent, Sessions
<1> QED BY <1>4, <1>5, <1>6, <1>7 DEF PlacesAddUp

\* Who drives the recycler of a live browser: a call of that browser, or the operator.
LEMMA LiveDriver ==
  ASSUME NEW s \in PoolSlots, NEW w \in Drivers, Driven(s, w), slot[s].browser = "live"
  PROVE  w = "operator" \/ (w \in PoolCalls /\ call[w].on = s /\ call[w].gen = slot[s].gen)
  BY DEF Driven, Drivers, Blind

LEMMA DetachTakes ==
  ASSUME BrowserInv, NEW s \in PoolSlots, NEW w \in Drivers, Driven(s, w), NEW x \in SlotRec,
         x.holds = Cardinality(Sessions(s)), ~Held(x), Detach(s, w, x)
  PROVE  TakenAway(s) => Sessions(s) = {} /\ OnlyItsOwnRecycle(s)
<1>1. crew'[s].by = w
  BY DEF Detach, BrowserInv, BrowserTypes, Crews
<1>2. Sessions(s) = {}
  <2>1. BrowserTypes
    BY DEF BrowserInv
  <2>2. Cardinality(Sessions(s)) = 0
    BY <2>1, Places DEF Held
  <2> QED BY <2>1, <2>2, Places, FS_EmptySet
<1> QED BY <1>1, <1>2, LiveDriver DEF TakenAway, OnlyItsOwnRecycle

\* The browser of a slot is taken away by its recycler, or with the pool.
LEMMA BrowserKept ==
  ASSUME BrowserInv, [PoolNext]_poolVars, NEW s \in PoolSlots, TakenAway(s)
  PROVE  Sessions(s) = {} /\ OnlyItsOwnRecycle(s)
<1>1. BrowserTypes /\ slot \in Slots /\ slot[s] \in SlotRec
  BY DEF BrowserInv, BrowserTypes, Slots
<1>2. ASSUME NEW t \in PoolCalls, CallStep(t) PROVE slot'[s].browser = slot[s].browser
  <2>1. CASE \/ Ask(t) \/ GiveUp(t) \/ FailVisibly(t) \/ \E q \in PoolSlots : Pick(t, q) \/ RecoverSlot(t, q)
             \/ \E b \in BOOLEAN : FailEarly(t, b) \/ FailPlainly(t, b)
    BY <2>1 DEF Ask, GiveUp, FailVisibly, Pick, RecoverSlot, FailEarly, FailPlainly
  <2>2. CASE ReserveSlot(t)
    BY <1>1, <2>2 DEF ReserveSlot, Slots, SlotRec
  <2>3. CASE Succeed(t)
    BY <1>1, <2>3 DEF Succeed, Slots, SlotRec
  <2>4. CASE Retain(t)
    BY <1>1, <2>4 DEF Retain, Slots, SlotRec
  <2>5. CASE Expire(t)
    <3>1. slot'[s] = slot[s] \/ slot'[s] = Stopped(slot[s], crew[s].at)
      BY <2>5 DEF Expire
    <3> QED BY <1>1, <3>1 DEF Stopped, SlotRec
  <2>6. ASSUME NEW b \in BOOLEAN, LeavePool(t, b) PROVE slot'[s].browser = slot[s].browser
    BY <1>1, <2>6 DEF LeavePool, Slots, SlotRec
  <2> QED BY <1>2, <2>1, <2>2, <2>3, <2>4, <2>5, <2>6 DEF CallStep
<1>3. ASSUME NEW r \in waiting, Begin(r) PROVE Sessions(s) = {} /\ OnlyItsOwnRecycle(s)
  <2>1. r.slot \in PoolSlots /\ r.by \in Drivers /\ slot[r.slot] \in SlotRec /\ RequestDriven(r)
        /\ SlotCounts(r.slot) /\ CrewSound(r.slot)
    BY <1>1 DEF BrowserInv, BrowserTypes, PoolRequests, Slots
  <2> SUFFICES ASSUME NEW q \in PoolSlots, q = r.slot, NEW w \in Drivers, w = r.by
               PROVE  Sessions(s) = {} /\ OnlyItsOwnRecycle(s)
    BY <2>1
  <2> DEFINE x == [slot[q] EXCEPT !.draining = TRUE]
  <2>2. x \in SlotRec /\ x.browser = slot[q].browser /\ x.holds = slot[q].holds
    BY <2>1 DEF SlotRec
  <2>3. crew[q].gone = 0 /\ slot[q].holds = Cardinality(Sessions(q))
    BY <1>1, <1>3, <2>1, Places DEF Begin, CrewSound, SlotCounts
  <2>4. CASE ~WornOut(r) /\ GoOn(q, w, x) /\ slot[q].browser = "live"
    <3>1. \A p \in PoolSlots \ {q} : slot'[p] = slot[p]
      BY <1>1, <2>2, <2>4, GoOnMoves
    <3>2. s = q
      BY <3>1 DEF TakenAway
    <3>3. slot'[q] = Spared(x) \/ slot'[q] = x \/ (~Held(x) /\ Detach(q, w, x))
      BY <1>1, <2>4 DEF GoOn, Slots
    <3>4. Spared(x).browser = slot[q].browser
      BY <2>2, SlotFormFields
    <3>5. ~Held(x) /\ Detach(q, w, x)
      BY <2>2, <3>2, <3>3, <3>4 DEF TakenAway
    <3>6. Driven(q, w)
      BY <2>1, <2>4 DEF RequestDriven, Driven, WornOut
    <3> HIDE DEF x
    <3> QED BY <2>2, <2>3, <3>2, <3>5, <3>6, DetachTakes
  <2>5. CASE slot' = slot \/ slot' = [slot EXCEPT ![q] = x]
    <3>1. slot'[s] = slot[s] \/ (s = q /\ slot'[s] = x)
      BY <1>1, <2>5 DEF Slots
    <3> QED BY <2>2, <3>1 DEF TakenAway
  <2> QED BY <1>3, <2>2, <2>4, <2>5 DEF Begin
<1>4. ASSUME NEW q \in PoolSlots, Discarded(q) PROVE slot'[s].browser # "none" \/ slot[s].browser # "live"
  <2>1. crew[q].by \in Drivers /\ slot[q].browser # "live" /\ slot[q] \in SlotRec
    BY <1>1, <1>4, CrewDriver DEF Discarded, BrowserInv, CrewSound, Slots
  <2>2. s # q => slot'[s] = slot[s]
    BY <1>1, <1>4 DEF Discarded, GoOn, Detach, Slots
  <2> QED BY <2>1, <2>2
<1>5. ASSUME NEW q \in PoolSlots, Drained(q) PROVE Sessions(s) = {} /\ OnlyItsOwnRecycle(s)
  <2>1. /\ crew[q].by \in Drivers /\ Driven(q, crew[q].by) /\ slot[q] \in SlotRec /\ crew[q].gone = 0
        /\ slot[q].holds = Cardinality(Sessions(q)) + crew[q].gone
    BY <1>1, <1>5, CrewDriver DEF Drained, BrowserInv, CrewSound, SlotCounts, Slots
  <2>2. slot[q].holds = Cardinality(Sessions(q))
    BY <1>1, <2>1, Places
  <2>3. s # q => slot'[s] = slot[s]
    BY <1>1, <1>5 DEF Drained, Detach, Slots
  <2>4. slot'[q] = Spared(slot[q]) \/ (~Held(slot[q]) /\ Detach(q, crew[q].by, slot[q]))
    BY <1>1, <1>5 DEF Drained, Slots
  <2>5. Spared(slot[q]).browser = slot[q].browser
    BY <2>1, SlotFormFields
  <2> QED BY <2>1, <2>2, <2>3, <2>4, <2>5, DetachTakes DEF TakenAway
<1>6. ASSUME NEW q \in PoolSlots, NEW ok \in BOOLEAN, Relaunch(q, ok) PROVE slot[s].browser # "live" \/ slot'[s] = slot[s]
  BY <1>1, <1>6 DEF Relaunch, BrowserInv, CrewSound, Slots
<1>7. CASE OperatorStep
  <2>1. CASE ShutDown
    <3>1. pool'.closed /\ session = {}
      BY <2>1 DEF ShutDown, Unused, BrowserInv, BrowserTypes, PoolStates
    <3> QED BY <3>1 DEF Sessions, OnlyItsOwnRecycle
  <2>2. ASSUME NEW t \in PoolCalls, NEW ok \in BOOLEAN, CloseOne(t, ok) PROVE slot'[s].browser = slot[s].browser
    BY <1>1, <2>2 DEF CloseOne, Slots, SlotRec
  <2>3. CASE \/ \E ts \in SUBSET session : AskClose(ts)
             \/ \E q \in PoolSlots : CloseRecycles(q)
             \/ CloseEnds
    BY <2>3 DEF AskClose, CloseRecycles, CloseEnds, TakenAway
  <2> QED BY <1>7, <2>1, <2>2, <2>3 DEF OperatorStep, TakenAway
<1>8. ASSUME NEW q \in PoolSlots, Die(q) PROVE slot'[s].browser # "none" \/ slot'[s] = slot[s]
  BY <1>1, <1>8 DEF Die, Slots, SlotRec
<1>9. CASE UNCHANGED poolVars
  BY <1>9 DEF poolVars, TakenAway
<1> QED BY <1>2, <1>3, <1>4, <1>5, <1>6, <1>7, <1>8, <1>9 DEF PoolNext, RecyclerStep, TakenAway

\* The invariant holds as long as neither of the two gaps opens: a deadline during the
\* capture of a failure, a death while the operator closes windows.
LEMMA BrowserInvariant == ASSUME ~LateDeadlines, ~ClosesMeetDeaths PROVE PoolSpec => []BrowserInv
<1>1. BrowserInv /\ [PoolNext]_poolVars => BrowserInv'
  BY BrowserStep
<1> QED BY <1>1, BrowserInit, PTL DEF PoolSpec

\* A reservation taken by _acquire_slot_permit is returned exactly once whichever way the
\* registration ends, a hold belongs to a window that _retain_debug_context kept, and the two
\* together never exceed max_contexts_per_browser, for any number of slots and registrations.
THEOREM PlacesAlwaysAddUp == ASSUME ~LateDeadlines, ~ClosesMeetDeaths
                             PROVE  PoolSpec => []PlacesAddUp
<1>1. BrowserInv => PlacesAddUp
  BY BrowserFacts
<1> QED BY <1>1, BrowserInvariant, PTL

\* Slots, calls, recyclers, requests and the close keep their types; what a slot counts stays
\* within max_contexts_per_browser (_BrowserSlot, _acquire_slot_permit, _recycle_slot).
THEOREM BrowserTypeCorrect == ASSUME ~LateDeadlines, ~ClosesMeetDeaths
                              PROVE  PoolSpec => []PoolTypeOK
<1>1. BrowserInv => PoolTypeOK
  BY BrowserFacts
<1> QED BY <1>1, BrowserInvariant, PTL

\* _recycle_slot takes a live browser away only when no window is open in it, only for a
\* registration of that browser or for the operator, and no window is kept of a replaced one.
THEOREM RecyclingSparesWindows == ASSUME ~LateDeadlines, ~ClosesMeetDeaths
                                  PROVE  PoolSpec => WindowsSurviveRecycling
<1>1. BrowserInv /\ [PoolNext]_poolVars
        => [\A s \in PoolSlots : /\ TakenAway(s) => Sessions(s) = {}
                                 /\ OnlyItsOwnRecycle(s)
                                 /\ WindowsAreCurrent']_poolVars
  <2> SUFFICES ASSUME BrowserInv, [PoolNext]_poolVars, NEW s \in PoolSlots
               PROVE  /\ TakenAway(s) => Sessions(s) = {}
                      /\ OnlyItsOwnRecycle(s)
                      /\ WindowsAreCurrent'
    OBVIOUS
  <2>1. WindowsAreCurrent'
    <3>1. BrowserInv'
      BY BrowserStep
    <3> QED BY <3>1 DEF BrowserInv, WindowSound, WindowsAreCurrent, Sessions
  <2>2. ~TakenAway(s) => OnlyItsOwnRecycle(s)
    BY DEF OnlyItsOwnRecycle
  <2> QED BY <2>1, <2>2, BrowserKept
<1> QED BY <1>1, BrowserInvariant, PTL DEF PoolSpec, WindowsSurviveRecycling
===============================================================================
