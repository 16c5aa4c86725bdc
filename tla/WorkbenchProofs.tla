---------------------------- MODULE WorkbenchProofs ----------------------------
(***************************************************************************)
(* A run of the SMS workbench, for every pool of mailboxes and number of   *)
(* batches, every capacity of the outbox, every set of balance keys and    *)
(* every threshold of the stall clock: its notices, then its batches.      *)
(***************************************************************************)
EXTENDS ImporterBatch, RunNotices, FiniteSetTheorems, FunctionTheorems, SequenceTheorems, TLAPS

(***************************************************************************)
(* The notices.  No mail about a run is doubled, miscounted or left        *)
(* behind, and the stall clock is exact.  The argument: a notice is made   *)
(* of topics that were never triggered before, so it shares none with any  *)
(* notice that is reserved, queued, in the worker's hands or sent.         *)
(***************************************************************************)

\* The places of a queue that hold a notice, Queued for any sequence.
HeldIn(q) == {i \in 1..Len(q) : q[i] # Sentinel}

\* What a reserved or accepted notice is made of.
FromTriggered == /\ \A n \in inHand : n # Sentinel /\ n \subseteq triggered
                 /\ \A i \in 1..Len(outbox) : outbox[i] \subseteq triggered
                 /\ sending \subseteq triggered /\ mailed \subseteq triggered

GoneIsClosed == mailer = "gone" => outboxClosing

ClockAhead == progressAt <= instant /\ frozenAt <= instant

NoticeInv == /\ NoticeTypeOK /\ FromTriggered /\ GoneIsClosed /\ ClockAhead
             /\ StallClockExact /\ NoticesAreExact

-------------------------------------------------------------------------------
LEMMA HeldFinite == ASSUME NEW q \in Seq(SUBSET Topics)
                    PROVE  IsFiniteSet(HeldIn(q)) /\ Cardinality(HeldIn(q)) \in Nat
<1>1. IsFiniteSet(1..Len(q))
  BY FS_Interval
<1>2. HeldIn(q) \subseteq 1..Len(q)
  BY DEF HeldIn
<1> QED BY <1>1, <1>2, FS_Subset, FS_CardinalityType

LEMMA HeldAppend ==
  ASSUME NEW q \in Seq(SUBSET Topics), NEW n \in SUBSET Topics
  PROVE  /\ n = Sentinel => HeldIn(Append(q, n)) = HeldIn(q)
         /\ n # Sentinel => /\ HeldIn(Append(q, n)) = HeldIn(q) \cup {Len(q) + 1}
                            /\ Cardinality(HeldIn(Append(q, n))) = Cardinality(HeldIn(q)) + 1
         /\ Len(q) + 1 \notin HeldIn(q)
         /\ Append(q, n) \in Seq(SUBSET Topics) /\ Len(Append(q, n)) = Len(q) + 1
         /\ \A i \in 1..Len(q) : Append(q, n)[i] = q[i]
         /\ Append(q, n)[Len(q) + 1] = n
<1>1. /\ Append(q, n) \in Seq(SUBSET Topics) /\ Len(Append(q, n)) = Len(q) + 1
      /\ \A i \in 1..Len(q) : Append(q, n)[i] = q[i]
      /\ Append(q, n)[Len(q) + 1] = n /\ Len(q) \in Nat
  BY AppendProperties
<1>2. 1..(Len(q) + 1) = (1..Len(q)) \cup {Len(q) + 1} /\ Len(q) + 1 \notin 1..Len(q)
  BY <1>1
<1>3. Len(q) + 1 \notin HeldIn(q)
  BY <1>2 DEF HeldIn
<1>4. ASSUME n = Sentinel PROVE HeldIn(Append(q, n)) = HeldIn(q)
  BY <1>1, <1>2, <1>4 DEF HeldIn
<1>5. ASSUME n # Sentinel PROVE HeldIn(Append(q, n)) = HeldIn(q) \cup {Len(q) + 1}
  BY <1>1, <1>2, <1>5 DEF HeldIn
<1>6. ASSUME n # Sentinel PROVE Cardinality(HeldIn(Append(q, n))) = Cardinality(HeldIn(q)) + 1
  BY <1>3, <1>5, <1>6, HeldFinite, FS_AddElement
<1> QED BY <1>1, <1>3, <1>4, <1>5, <1>6

LEMMA HeldTail ==
  ASSUME NEW q \in Seq(SUBSET Topics), q # <<>>
  PROVE  /\ Tail(q) \in Seq(SUBSET Topics) /\ Len(Tail(q)) = Len(q) - 1
         /\ Len(q) \in Nat \ {0}
         /\ Head(q) = q[1] /\ Head(q) \in SUBSET Topics
         /\ \A i \in 1..Len(Tail(q)) : Tail(q)[i] = q[i + 1] /\ i + 1 \in 1..Len(q)
         /\ \A i \in HeldIn(Tail(q)) : i + 1 \in HeldIn(q)
         /\ Cardinality(HeldIn(q)) = Cardinality(HeldIn(Tail(q))) + AsCount(Head(q) # Sentinel)
<1>1. /\ Tail(q) \in Seq(SUBSET Topics) /\ Len(Tail(q)) = Len(q) - 1
      /\ Head(q) = q[1] /\ Head(q) \in SUBSET Topics
      /\ \A i \in 1..Len(Tail(q)) : Tail(q)[i] = q[i + 1]
      /\ Len(q) \in Nat \ {0}
  BY HeadTailProperties, EmptySeq
<1>2. \A i \in 1..Len(Tail(q)) : i + 1 \in 1..Len(q)
  BY <1>1
<1>3. \A i \in HeldIn(Tail(q)) : i + 1 \in HeldIn(q)
  BY <1>1, <1>2 DEF HeldIn
<1> DEFINE A == HeldIn(q) \ {1}
           B == HeldIn(Tail(q))
           f == [i \in A |-> i - 1]
<1>4. \A i \in A : i \in Int /\ i >= 2 /\ i <= Len(q) /\ i - 1 \in B
  BY <1>1 DEF HeldIn
<1>5. \A i \in B : i + 1 \in A /\ i \in Int
  BY <1>1, <1>3 DEF HeldIn
<1>6. f \in [A -> B]
  BY <1>4
<1>7. \A i, j \in A : f[i] = f[j] => i = j
  BY <1>4
<1>8. \A i \in B : \E j \in A : f[j] = i
  <2>1. ASSUME NEW i \in B PROVE i + 1 \in A /\ f[i + 1] = i
    BY <1>5
  <2> QED BY <2>1
<1>9. f \in Bijection(A, B)
  BY <1>6, <1>7, <1>8, Fun_IsBij
<1>10. ExistsBijection(A, B)
  BY <1>9, Fun_ExistsBij
<1>11. IsFiniteSet(A) /\ Cardinality(A) = IF 1 \in HeldIn(q) THEN Cardinality(HeldIn(q)) - 1 ELSE Cardinality(HeldIn(q))
  BY HeldFinite, FS_RemoveElement
<1> HIDE DEF A, B, f
<1>12. Cardinality(B) = Cardinality(A)
  BY <1>10, <1>11, FS_Bijection
<1>13. 1 \in HeldIn(q) <=> Head(q) # Sentinel
  BY <1>1 DEF HeldIn
<1>14. Cardinality(HeldIn(q)) \in Nat
  BY HeldFinite
<1>15. Cardinality(HeldIn(q)) = Cardinality(HeldIn(Tail(q))) + AsCount(Head(q) # Sentinel)
  BY <1>11, <1>12, <1>13, <1>14 DEF AsCount, B
<1> QED BY <1>1, <1>2, <1>3, <1>15

\* The queue's facts in the words of HeldIn.
LEMMA QueuedIsHeld == Queued = HeldIn(outbox)
  BY DEF Queued, HeldIn

\* Reserving topics: the notices are new, and of new topics.
LEMMA ReserveKeeps ==
  ASSUME NoticeInv, NEW events \in SUBSET Topics, NEW keys \in SUBSET Topics,
         events = {} \/ keys = {}, ReserveTopic(events, keys), UNCHANGED outboxVars
  PROVE  /\ triggered' \in SUBSET Topics /\ inHand' \in SUBSET (SUBSET Topics)
         /\ FromTriggered' /\ NoticesAreExact'
<1> USE DEF NoticeInv
<1>1. /\ outbox' = outbox /\ outboxClosing' = outboxClosing /\ outstanding' = outstanding
      /\ mailer' = mailer /\ sending' = sending /\ mailed' = mailed
  BY DEF outboxVars
<1>2. triggered \subseteq Topics /\ inHand \subseteq SUBSET Topics
  BY DEF NoticeTypeOK
<1>3. triggered' = triggered \cup events \cup keys
  BY DEF ReserveTopic
<1>4. \A n \in inHand' : \/ n \in inHand
                         \/ /\ n # Sentinel /\ n \subseteq triggered' /\ n \cap triggered = {}
  BY <1>3 DEF ReserveTopic, Fresh, Sentinel
<1>5. \A n, m \in inHand' : n # m /\ n \notin inHand /\ m \notin inHand => n \cap m = {}
  BY DEF ReserveTopic, Fresh, Sentinel
<1>6. triggered' \in SUBSET Topics /\ inHand' \in SUBSET (SUBSET Topics)
  BY <1>2, <1>3, <1>4
<1>7. FromTriggered'
  BY <1>1, <1>3, <1>4 DEF FromTriggered
<1>8. TopicMailedOnce'
  <2>1. TopicMailedOnce /\ FromTriggered
    BY DEF NoticesAreExact
  <2>2. ASSUME NEW n \in inHand', NEW m \in (inHand' \ {n}) \cup {sending', mailed'} PROVE n \cap m = {}
    <3>1. CASE n \in inHand /\ (m \in inHand \/ m \in {sending, mailed})
      BY <1>1, <2>1, <2>2, <3>1 DEF TopicMailedOnce
    <3>2. CASE n \in inHand /\ m \notin inHand /\ m \notin {sending, mailed}
      BY <1>1, <1>4, <2>1, <2>2, <3>2 DEF FromTriggered
    <3>3. CASE n \notin inHand /\ (m \in inHand \/ m \in {sending, mailed})
      BY <1>1, <1>4, <2>1, <2>2, <3>3 DEF FromTriggered
    <3>4. CASE n \notin inHand /\ m \notin inHand /\ m \notin {sending, mailed}
      BY <1>1, <1>5, <2>2, <3>4
    <3> QED BY <3>1, <3>2, <3>3, <3>4
  <2>3. ASSUME NEW i \in Queued, NEW m \in inHand' \cup {sending, mailed} PROVE outbox[i] \cap m = {}
    <3>1. outbox[i] \subseteq triggered
      BY <2>1 DEF FromTriggered, Queued
    <3>2. CASE m \in inHand \cup {sending, mailed}
      BY <2>1, <3>2 DEF TopicMailedOnce
    <3>3. CASE m \notin inHand \cup {sending, mailed}
      BY <1>4, <2>3, <3>1, <3>3
    <3> QED BY <3>2, <3>3
  <2>4. Queued' = Queued
    BY <1>1 DEF Queued
  <2>5. sending \cap mailed = {} /\ \A i \in Queued : \A j \in Queued \ {i} : outbox[i] \cap outbox[j] = {}
    BY <2>1 DEF TopicMailedOnce
  <2> QED BY <1>1, <2>2, <2>3, <2>4, <2>5 DEF TopicMailedOnce
<1>9. OutstandingExact' /\ LeavesNothing'
  BY <1>1 DEF NoticesAreExact, OutstandingExact, LeavesNothing, Queued
<1> QED BY <1>6, <1>7, <1>8, <1>9 DEF NoticesAreExact

\* Nothing of the queue and the notices changes.
LEMMA NoticesUntouched ==
  ASSUME NoticeInv, UNCHANGED <<triggered, inHand, outboxVars>>
  PROVE  FromTriggered' /\ NoticesAreExact' /\ GoneIsClosed'
  BY DEF NoticeInv, outboxVars, FromTriggered, NoticesAreExact, TopicMailedOnce, OutstandingExact,
         LeavesNothing, Queued, GoneIsClosed

LEMMA ClockUntouched ==
  ASSUME NoticeInv, UNCHANGED stallVars PROVE ClockAhead' /\ StallClockExact'
  BY DEF NoticeInv, stallVars, ClockAhead, StallClockExact, FrozenSince, Greater

\* The clock's integers.
LEMMA ClockTypes ==
  ASSUME NoticeInv
  PROVE  /\ instant \in Int /\ progressAt \in Int /\ frozenAt \in Int /\ quietTicks \in Int
         /\ LastInstant \in Nat /\ Never = 0 - 1
         /\ instant >= 0 /\ instant <= LastInstant /\ progressAt >= 0 /\ frozenAt >= 0 - 1
         /\ progressAt <= instant /\ frozenAt <= instant /\ quietTicks >= 0
         /\ frozenAt # Never => frozenAt >= 0
         /\ quietTicks = (IF frozenAt = Never THEN instant ELSE FrozenSince) - progressAt
  BY NoticeAssumption DEF NoticeInv, NoticeTypeOK, ClockAhead, StallClockExact, Never

\* Every mail's topic is one, and every observation's.
LEMMA ObserveKeeps ==
  ASSUME NoticeInv, NEW unfinished \in BOOLEAN, NEW progressed \in BOOLEAN, NEW exhausted \in BOOLEAN,
         ObserveRun(unfinished, progressed, exhausted)
  PROVE  NoticeInv'
<1> USE DEF NoticeInv
<1> DEFINE events == (IF exhausted THEN {"sms_exhausted"} ELSE {})
                       \cup (IF Stalled(unfinished, progressed) THEN {"stalled"} ELSE {})
<1>1. /\ ReserveTopic(events, {})
      /\ progressAt' = IF progressed THEN instant ELSE progressAt
      /\ quietTicks' = IF progressed THEN 0 ELSE quietTicks
      /\ UNCHANGED <<runFinal, manualMark, instant, frozenAt, outboxVars>>
  BY DEF ObserveRun
<1>2. events \in SUBSET Topics
  BY DEF Topics
<1> HIDE DEF events
<1>3. /\ triggered' \in SUBSET Topics /\ inHand' \in SUBSET (SUBSET Topics)
      /\ FromTriggered' /\ NoticesAreExact'
  BY <1>1, <1>2, ReserveKeeps
<1>4. ClockAhead' /\ StallClockExact' /\ progressAt' \in 0..LastInstant /\ quietTicks' \in 0..LastInstant
  <2>1. CASE progressed
    <3>1. progressAt' = instant /\ quietTicks' = 0 /\ instant' = instant /\ frozenAt' = frozenAt
      BY <1>1, <2>1
    <3> QED BY <3>1, ClockTypes DEF ClockAhead, StallClockExact, FrozenSince, Greater
  <2>2. CASE ~progressed
    <3>1. progressAt' = progressAt /\ quietTicks' = quietTicks /\ instant' = instant /\ frozenAt' = frozenAt
      BY <1>1, <2>2
    <3>2. progressAt \in 0..LastInstant /\ quietTicks \in 0..LastInstant
      BY DEF NoticeTypeOK
    <3> QED BY <3>1, <3>2 DEF ClockAhead, StallClockExact, FrozenSince
  <2> QED BY <2>1, <2>2
<1>5. GoneIsClosed'
  BY <1>1 DEF GoneIsClosed, outboxVars
<1>6. NoticeTypeOK'
  BY <1>1, <1>3, <1>4 DEF NoticeTypeOK, outboxVars
<1> QED BY <1>3, <1>4, <1>5, <1>6

\* Balances, the end of the run.
LEMMA TopicsKeep ==
  ASSUME NoticeInv, NEW events \in SUBSET Topics, NEW keys \in SUBSET Topics,
         events = {} \/ keys = {}, ReserveTopic(events, keys),
         runFinal' \in BOOLEAN, manualMark' = manualMark, UNCHANGED <<stallVars, outboxVars>>
  PROVE  NoticeInv'
<1> USE DEF NoticeInv
<1>1. /\ triggered' \in SUBSET Topics /\ inHand' \in SUBSET (SUBSET Topics)
      /\ FromTriggered' /\ NoticesAreExact'
  BY ReserveKeeps
<1>2. ClockAhead' /\ StallClockExact'
  BY ClockUntouched
<1>3. GoneIsClosed'
  BY DEF GoneIsClosed, outboxVars
<1>4. NoticeTypeOK'
  BY <1>1 DEF NoticeTypeOK, outboxVars, stallVars
<1> QED BY <1>1, <1>2, <1>3, <1>4

LEMMA ClockKeeps ==
  ASSUME NoticeInv, MarkManualStop \/ FreezeStall \/ ThawStall \/ ClockTicks PROVE NoticeInv'
<1> USE DEF NoticeInv
<1>1. UNCHANGED <<triggered, inHand, outboxVars, runFinal>> /\ manualMark' \in BOOLEAN
  BY DEF MarkManualStop, FreezeStall, ThawStall, ClockTicks, noticeRunVars, NoticeTypeOK
<1>2. FromTriggered' /\ NoticesAreExact' /\ GoneIsClosed'
  BY <1>1, NoticesUntouched
<1>3. /\ ClockAhead' /\ StallClockExact'
      /\ instant' \in 0..LastInstant /\ progressAt' \in 0..LastInstant
      /\ frozenAt' \in 0..LastInstant \cup {Never} /\ quietTicks' \in 0..LastInstant
  <2>1. CASE MarkManualStop
    <3>1. UNCHANGED stallVars
      BY <2>1 DEF MarkManualStop
    <3> QED BY <3>1, ClockUntouched DEF stallVars, NoticeTypeOK
  <2>2. CASE FreezeStall
    <3>1. /\ frozenAt = Never /\ frozenAt' = instant
          /\ instant' = instant /\ progressAt' = progressAt /\ quietTicks' = quietTicks
      BY <2>2 DEF FreezeStall
    <3>2. ClockAhead' /\ StallClockExact'
      BY <3>1, ClockTypes DEF ClockAhead, StallClockExact, FrozenSince, Greater
    <3> QED BY <3>1, <3>2 DEF NoticeTypeOK
  <2>3. CASE ThawStall
    <3>1. /\ frozenAt # Never /\ frozenAt' = Never /\ progressAt' = progressAt + (instant - FrozenSince)
          /\ instant' = instant /\ quietTicks' = quietTicks
      BY <2>3 DEF ThawStall
    <3>2. ClockAhead' /\ StallClockExact' /\ progressAt' \in 0..LastInstant
      BY <3>1, ClockTypes DEF ClockAhead, StallClockExact, FrozenSince, Greater
    <3> QED BY <3>1, <3>2 DEF NoticeTypeOK
  <2>4. CASE ClockTicks
    <3>1. /\ instant < LastInstant /\ instant' = instant + 1
          /\ quietTicks' = quietTicks + AsCount(frozenAt = Never)
          /\ progressAt' = progressAt /\ frozenAt' = frozenAt
      BY <2>4 DEF ClockTicks
    <3>2. CASE frozenAt = Never
      <4>1. quietTicks' = quietTicks + 1
        BY <3>1, <3>2 DEF AsCount
      <4>2. ClockAhead' /\ StallClockExact' /\ instant' \in 0..LastInstant /\ quietTicks' \in 0..LastInstant
        BY <3>1, <3>2, <4>1, ClockTypes DEF ClockAhead, StallClockExact
      <4> QED BY <3>1, <4>2 DEF NoticeTypeOK
    <3>3. CASE frozenAt # Never
      <4>1. quietTicks' = quietTicks
        BY <3>1, <3>3, ClockTypes DEF AsCount
      <4>2. ClockAhead' /\ StallClockExact' /\ instant' \in 0..LastInstant
        BY <3>1, <3>3, <4>1, ClockTypes DEF ClockAhead, StallClockExact, FrozenSince, Greater
      <4> QED BY <3>1, <4>1, <4>2 DEF NoticeTypeOK
    <3> QED BY <3>2, <3>3
  <2> QED BY <2>1, <2>2, <2>3, <2>4
<1>4. NoticeTypeOK'
  BY <1>1, <1>3 DEF NoticeTypeOK, outboxVars
<1> QED BY <1>2, <1>3, <1>4

\* The facts of the queue that the steps of queue and worker start from.
LEMMA QueueTypes ==
  ASSUME NoticeInv
  PROVE  /\ outbox \in Seq(SUBSET Topics) /\ Len(outbox) <= OutboxCapacity /\ Len(outbox) \in Nat
         /\ sending \in SUBSET Topics /\ mailed \in SUBSET Topics /\ inHand \subseteq SUBSET Topics
         /\ outstanding = Cardinality(HeldIn(outbox)) + AsCount(sending # Sentinel)
         /\ Cardinality(HeldIn(outbox)) \in Nat /\ outstanding \in Nat
         /\ OutboxCapacity \in Nat \ {0}
<1>1. outbox \in Seq(SUBSET Topics)
  BY DEF NoticeInv, NoticeTypeOK
<1>2. Cardinality(HeldIn(outbox)) \in Nat
  BY <1>1, HeldFinite
<1> QED BY <1>1, <1>2, QueuedIsHeld, NoticeAssumption
        DEF NoticeInv, NoticeTypeOK, NoticesAreExact, OutstandingExact

\* A step of the queue or the worker that keeps the notices apart and counted.
LEMMA QueueStep ==
  ASSUME NoticeInv, UNCHANGED <<noticeRunVars, stallVars>>,
         inHand' \subseteq inHand,
         outbox' \in Seq(SUBSET Topics), Len(outbox') <= OutboxCapacity,
         sending' \in SUBSET Topics, mailed' \in SUBSET Topics, outstanding' \in Nat,
         mailer' \in {"none", "alive", "gone"}, outboxClosing' \in BOOLEAN,
         \A i \in 1..Len(outbox') : outbox'[i] \subseteq triggered,
         sending' \subseteq triggered, mailed' \subseteq triggered,
         mailer' = "gone" => outboxClosing',
         TopicMailedOnce', OutstandingExact', LeavesNothing'
  PROVE  NoticeInv'
<1> USE DEF NoticeInv
<1>1. ClockAhead' /\ StallClockExact'
  BY ClockUntouched
<1>2. triggered' = triggered /\ runFinal' = runFinal /\ manualMark' = manualMark
  BY DEF noticeRunVars
<1>3. FromTriggered'
  BY <1>2 DEF FromTriggered
<1>4. GoneIsClosed' /\ NoticesAreExact'
  BY DEF GoneIsClosed, NoticesAreExact
<1>5. NoticeTypeOK'
  <2>1. inHand' \subseteq SUBSET Topics
    BY QueueTypes
  <2> QED BY <1>2, <2>1 DEF NoticeTypeOK, stallVars
<1> QED BY <1>1, <1>3, <1>4, <1>5

LEMMA SubmitKeeps == ASSUME NoticeInv, NEW n \in inHand, SubmitNotice(n) PROVE NoticeInv'
<1> USE DEF NoticeInv
<1>1. /\ inHand' = inHand \ {n} /\ UNCHANGED <<noticeRunVars, stallVars>>
      /\ outboxClosing' = outboxClosing /\ sending' = sending /\ mailed' = mailed
  BY DEF SubmitNotice
<1>2. n # Sentinel /\ n \subseteq triggered /\ n \in SUBSET Topics
  BY QueueTypes DEF FromTriggered
<1>3. TopicMailedOnce /\ FromTriggered /\ LeavesNothing /\ GoneIsClosed
      /\ mailer \in {"none", "alive", "gone"} /\ outboxClosing \in BOOLEAN
  BY DEF NoticesAreExact, NoticeTypeOK
<1>4. CASE outboxClosing \/ Len(outbox) >= OutboxCapacity
  <2>1. outbox' = outbox /\ outstanding' = outstanding /\ mailer' = mailer
    BY <1>4, QueueTypes DEF SubmitNotice, Accepting
  <2>2. TopicMailedOnce'
    BY <1>1, <1>3, <2>1 DEF TopicMailedOnce, Queued
  <2>3. OutstandingExact' /\ LeavesNothing'
    BY <1>1, <2>1 DEF NoticesAreExact, OutstandingExact, LeavesNothing, Queued
  <2> QED BY <1>1, <1>3, <2>1, <2>2, <2>3, QueueTypes, QueueStep DEF FromTriggered, GoneIsClosed
<1>5. CASE ~(outboxClosing \/ Len(outbox) >= OutboxCapacity)
  <2>1. /\ outbox' = Append(outbox, n) /\ outstanding' = outstanding + 1
        /\ mailer' = IF mailer = "none" THEN "alive" ELSE mailer
    BY <1>5 DEF SubmitNotice
  <2>2. /\ HeldIn(outbox') = HeldIn(outbox) \cup {Len(outbox) + 1}
        /\ Cardinality(HeldIn(outbox')) = Cardinality(HeldIn(outbox)) + 1
        /\ Len(outbox) + 1 \notin HeldIn(outbox)
        /\ outbox' \in Seq(SUBSET Topics) /\ Len(outbox') = Len(outbox) + 1
        /\ \A i \in 1..Len(outbox) : outbox'[i] = outbox[i]
        /\ outbox'[Len(outbox) + 1] = n
    BY <1>2, <2>1, QueueTypes, HeldAppend
  <2>3. Queued' = Queued \cup {Len(outbox) + 1} /\ Len(outbox) + 1 \notin Queued
    BY <2>2, QueuedIsHeld DEF Queued, HeldIn
  <2>4. \A i \in Queued : outbox'[i] = outbox[i] /\ i # Len(outbox) + 1
    BY <2>2, QueueTypes DEF Queued
  <2>5. mailer' # "gone"
    BY <1>3, <1>5, <2>1 DEF GoneIsClosed
  <2>6. TopicMailedOnce'
    <3>1. ASSUME NEW m \in inHand' \cup {sending', mailed'} PROVE n \cap m = {}
      BY <1>1, <1>3, <3>1 DEF TopicMailedOnce
    <3>2. ASSUME NEW i \in Queued, NEW m \in inHand' \cup {n, sending', mailed'} PROVE outbox'[i] \cap m = {}
      BY <1>1, <1>3, <2>4, <3>2 DEF TopicMailedOnce
    <3>3. ASSUME NEW i \in Queued', NEW m \in inHand' \cup {sending', mailed'} PROVE outbox'[i] \cap m = {}
      BY <2>2, <2>3, <3>1, <3>2
    <3>4. ASSUME NEW i \in Queued', NEW j \in Queued' \ {i} PROVE outbox'[i] \cap outbox'[j] = {}
      <4>1. CASE i \in Queued /\ j \in Queued
        BY <1>3, <2>4, <3>4, <4>1 DEF TopicMailedOnce
      <4>2. CASE i \in Queued /\ j \notin Queued
        BY <2>2, <2>3, <3>2, <3>4, <4>2
      <4>3. CASE i \notin Queued
        <5>1. i = Len(outbox) + 1 /\ j \in Queued
          BY <2>3, <3>4, <4>3
        <5> QED BY <2>2, <3>2, <5>1
      <4> QED BY <4>1, <4>2, <4>3
    <3>5. ASSUME NEW k \in inHand', NEW m \in (inHand' \ {k}) \cup {sending', mailed'} PROVE k \cap m = {}
      BY <1>1, <1>3, <3>5 DEF TopicMailedOnce
    <3>6. sending' \cap mailed' = {}
      BY <1>1, <1>3 DEF TopicMailedOnce
    <3> QED BY <3>3, <3>4, <3>5, <3>6 DEF TopicMailedOnce
  <2>7. OutstandingExact'
    <3>1. outstanding' = Cardinality(HeldIn(outbox')) + AsCount(sending' # Sentinel)
      BY <1>1, <2>1, <2>2, QueueTypes DEF AsCount
    <3> QED BY <3>1 DEF OutstandingExact, Queued, HeldIn
  <2>8. LeavesNothing'
    BY <2>5 DEF LeavesNothing
  <2>9. \A i \in 1..Len(outbox') : outbox'[i] \subseteq triggered
    <3>1. \A i \in 1..Len(outbox') : i \in 1..Len(outbox) \/ i = Len(outbox) + 1
      BY <2>2, QueueTypes
    <3> QED BY <1>2, <1>3, <2>2, <3>1 DEF FromTriggered
  <2>10. Len(outbox') <= OutboxCapacity /\ outstanding' \in Nat /\ mailer' \in {"none", "alive", "gone"}
    BY <1>3, <1>5, <2>1, <2>2, QueueTypes
  <2>11. /\ sending' \in SUBSET Topics /\ mailed' \in SUBSET Topics
         /\ sending' \subseteq triggered /\ mailed' \subseteq triggered /\ outboxClosing' \in BOOLEAN
         /\ inHand' \subseteq inHand
    BY <1>1, <1>3, QueueTypes DEF FromTriggered
  <2> QED BY <1>1, <2>2, <2>5, <2>6, <2>7, <2>8, <2>9, <2>10, <2>11, QueueStep
<1> QED BY <1>4, <1>5

LEMMA TakeKeeps == ASSUME NoticeInv, TakeNotice PROVE NoticeInv'
<1> USE DEF NoticeInv
<1>1. /\ mailer = "alive" /\ sending = Sentinel /\ outbox # <<>> /\ outbox' = Tail(outbox)
      /\ inHand' = inHand /\ UNCHANGED <<noticeRunVars, stallVars>>
      /\ outboxClosing' = outboxClosing /\ mailed' = mailed /\ outstanding' = outstanding
  BY DEF TakeNotice
<1>2. /\ outbox' \in Seq(SUBSET Topics) /\ Len(outbox') = Len(outbox) - 1
      /\ Head(outbox) = outbox[1] /\ Head(outbox) \in SUBSET Topics
      /\ \A i \in 1..Len(outbox') : outbox'[i] = outbox[i + 1] /\ i + 1 \in 1..Len(outbox)
      /\ \A i \in HeldIn(outbox') : i + 1 \in HeldIn(outbox)
      /\ Cardinality(HeldIn(outbox)) = Cardinality(HeldIn(outbox')) + AsCount(Head(outbox) # Sentinel)
      /\ Len(outbox) \in Nat \ {0}
  BY <1>1, QueueTypes, HeldTail
<1>3. TopicMailedOnce /\ FromTriggered /\ mailed \subseteq triggered /\ outboxClosing \in BOOLEAN
  BY DEF NoticesAreExact, FromTriggered, NoticeTypeOK
<1>4. /\ HeldIn(outbox') \subseteq 1..Len(outbox') /\ Queued' = HeldIn(outbox') /\ Queued = HeldIn(outbox)
  BY DEF Queued, HeldIn
<1>5. \A i \in Queued' : outbox'[i] = outbox[i + 1] /\ i + 1 \in Queued /\ i \in Int /\ i + 1 # 1
  BY <1>2, <1>4
<1>6. Cardinality(HeldIn(outbox')) \in Nat
  BY <1>2, HeldFinite
<1>7. outstanding = Cardinality(HeldIn(outbox)) /\ outstanding \in Nat
  BY <1>1, QueueTypes DEF AsCount
<1>8. \A i \in 1..Len(outbox') : outbox'[i] \subseteq triggered
  BY <1>2, <1>3 DEF FromTriggered
<1>9. ASSUME NEW i \in Queued', NEW m \in inHand \cup {Sentinel, mailed} PROVE outbox'[i] \cap m = {}
  BY <1>3, <1>5 DEF TopicMailedOnce, Sentinel
<1>10. ASSUME NEW i \in Queued', NEW j \in Queued' \ {i} PROVE outbox'[i] \cap outbox'[j] = {}
  <2>1. i + 1 # j + 1
    BY <1>5, <1>10
  <2> QED BY <1>3, <1>5, <2>1 DEF TopicMailedOnce
<1>11. CASE Head(outbox) # Sentinel
  <2>1. sending' = Head(outbox) /\ mailer' = mailer
    BY <1>11 DEF TakeNotice
  <2>2. 1 \in Queued
    BY <1>2, <1>11 DEF Queued
  <2>3. TopicMailedOnce'
    <3>1. ASSUME NEW m \in inHand \cup {mailed} PROVE sending' \cap m = {}
      BY <1>2, <1>3, <2>1, <2>2 DEF TopicMailedOnce
    <3>2. ASSUME NEW i \in Queued' PROVE outbox'[i] \cap sending' = {}
      BY <1>2, <1>3, <1>5, <2>1, <2>2 DEF TopicMailedOnce
    <3>3. ASSUME NEW n \in inHand, NEW m \in (inHand \ {n}) \cup {mailed} PROVE n \cap m = {}
      BY <1>3 DEF TopicMailedOnce
    <3>4. \A n \in inHand' : \A m \in (inHand' \ {n}) \cup {sending', mailed'} : n \cap m = {}
      BY <1>1, <3>1, <3>3
    <3>5. \A i \in Queued' : \A m \in inHand' \cup {sending', mailed'} : outbox'[i] \cap m = {}
      BY <1>1, <1>9, <3>2
    <3>6. sending' \cap mailed' = {}
      BY <1>1, <3>1
    <3> QED BY <1>10, <3>4, <3>5, <3>6 DEF TopicMailedOnce
  <2>4. OutstandingExact'
    <3>1. outstanding' = Cardinality(HeldIn(outbox')) + AsCount(sending' # Sentinel)
      BY <1>1, <1>2, <1>6, <1>7, <1>11, <2>1 DEF AsCount
    <3> QED BY <1>4, <3>1 DEF OutstandingExact
  <2>5. mailer' = "alive" /\ LeavesNothing'
    BY <1>1, <2>1 DEF LeavesNothing
  <2>6. sending' \subseteq triggered /\ sending' \in SUBSET Topics
    BY <1>2, <1>3, <2>1 DEF FromTriggered
  <2> QED BY <1>1, <1>2, <1>3, <1>7, <1>8, <2>3, <2>4, <2>5, <2>6, QueueTypes, QueueStep
<1>12. CASE Head(outbox) = Sentinel
  <2>1. sending' = sending /\ mailer' = IF MayLeave THEN "gone" ELSE mailer
    BY <1>12 DEF TakeNotice
  <2>2. TopicMailedOnce'
    <3>1. ASSUME NEW n \in inHand, NEW m \in (inHand \ {n}) \cup {sending, mailed} PROVE n \cap m = {}
      BY <1>3 DEF TopicMailedOnce
    <3>2. sending \cap mailed = {}
      BY <1>3 DEF TopicMailedOnce
    <3> QED BY <1>1, <1>9, <1>10, <2>1, <3>1, <3>2 DEF TopicMailedOnce
  <2>3. outstanding = Cardinality(HeldIn(outbox'))
    BY <1>2, <1>6, <1>7, <1>12 DEF AsCount
  <2>4. OutstandingExact'
    <3>1. outstanding' = Cardinality(HeldIn(outbox')) + AsCount(sending' # Sentinel)
      BY <1>1, <1>6, <2>1, <2>3 DEF AsCount
    <3> QED BY <1>4, <3>1 DEF OutstandingExact
  <2>5. LeavesNothing' /\ (mailer' = "gone" => outboxClosing') /\ mailer' \in {"none", "alive", "gone"}
    <3>1. CASE MayLeave
      <4>1. outboxClosing /\ outstanding = 0
        BY <3>1 DEF MayLeave
      <4>2. HeldIn(outbox') = {}
        BY <1>2, <2>3, <4>1, HeldFinite, FS_EmptySet
      <4> QED BY <1>1, <1>4, <2>1, <4>1, <4>2 DEF LeavesNothing
    <3>2. CASE ~MayLeave
      BY <1>1, <2>1, <3>2 DEF LeavesNothing
    <3> QED BY <3>1, <3>2
  <2>6. sending' \subseteq triggered /\ sending' \in SUBSET Topics
    BY <1>1, <2>1 DEF Sentinel
  <2> QED BY <1>1, <1>2, <1>3, <1>7, <1>8, <2>1, <2>2, <2>4, <2>5, <2>6, QueueTypes, QueueStep
<1> QED BY <1>11, <1>12

LEMMA SendKeeps == ASSUME NoticeInv, SendNotice PROVE NoticeInv'
<1> USE DEF NoticeInv
<1>1. /\ sending # Sentinel /\ sending' = Sentinel /\ mailed' = mailed \cup sending
      /\ outstanding' = outstanding - 1 /\ UNCHANGED <<noticeRunVars, stallVars>>
      /\ inHand' = inHand /\ outbox' = outbox /\ outboxClosing' = outboxClosing /\ mailer' = mailer
  BY DEF SendNotice, OneSent
<1>2. TopicMailedOnce /\ FromTriggered /\ LeavesNothing /\ GoneIsClosed
      /\ mailer \in {"none", "alive", "gone"} /\ outboxClosing \in BOOLEAN
  BY DEF NoticesAreExact, NoticeTypeOK
<1>3. Queued' = Queued
  BY <1>1 DEF Queued
<1>4. TopicMailedOnce'
  <2>1. ASSUME NEW n \in inHand, NEW m \in (inHand \ {n}) \cup {{}, mailed \cup sending} PROVE n \cap m = {}
    <3>1. n \cap mailed = {} /\ n \cap sending = {} /\ \A k \in inHand \ {n} : n \cap k = {}
      BY <1>2 DEF TopicMailedOnce
    <3> QED BY <2>1, <3>1
  <2>2. ASSUME NEW i \in Queued, NEW m \in inHand \cup {{}, mailed \cup sending} PROVE outbox[i] \cap m = {}
    <3>1. outbox[i] \cap mailed = {} /\ outbox[i] \cap sending = {} /\ \A k \in inHand : outbox[i] \cap k = {}
      BY <1>2 DEF TopicMailedOnce
    <3> QED BY <2>2, <3>1
  <2>3. \A i \in Queued : \A j \in Queued \ {i} : outbox[i] \cap outbox[j] = {}
    BY <1>2 DEF TopicMailedOnce
  <2> QED BY <1>1, <1>3, <2>1, <2>2, <2>3 DEF TopicMailedOnce, Sentinel
<1>5. OutstandingExact' /\ outstanding' \in Nat
  <2>1. outstanding = Cardinality(HeldIn(outbox)) + 1 /\ Cardinality(HeldIn(outbox)) \in Nat
    BY <1>1, QueueTypes DEF AsCount
  <2>2. outstanding' = Cardinality(HeldIn(outbox)) + AsCount(sending' # Sentinel)
    BY <1>1, <2>1 DEF AsCount
  <2> QED BY <1>1, <1>3, <2>1, <2>2, QueuedIsHeld DEF OutstandingExact
<1>6. mailer # "gone"
  BY <1>1, <1>2 DEF LeavesNothing
<1>7. LeavesNothing'
  BY <1>1, <1>6 DEF LeavesNothing
<1>8. /\ mailed' \subseteq triggered /\ mailed' \in SUBSET Topics
      /\ sending' \subseteq triggered /\ sending' \in SUBSET Topics
      /\ \A i \in 1..Len(outbox') : outbox'[i] \subseteq triggered
  BY <1>1, <1>2, QueueTypes DEF FromTriggered, Sentinel
<1> QED BY <1>1, <1>2, <1>4, <1>5, <1>6, <1>7, <1>8, QueueTypes, QueueStep

LEMMA CloseKeeps == ASSUME NoticeInv, CloseOutbox PROVE NoticeInv'
<1> USE DEF NoticeInv
<1>1. /\ outboxClosing' = TRUE /\ UNCHANGED <<noticeRunVars, stallVars>>
      /\ inHand' = inHand /\ outstanding' = outstanding /\ mailer' = mailer /\ sending' = sending
      /\ mailed' = mailed
      /\ outbox' = outbox \/ (Len(outbox) < OutboxCapacity /\ outbox' = Append(outbox, Sentinel))
  BY DEF CloseOutbox
<1>2. TopicMailedOnce /\ FromTriggered /\ LeavesNothing /\ mailer \in {"none", "alive", "gone"}
  BY DEF NoticesAreExact, NoticeTypeOK
<1>3. Sentinel \in SUBSET Topics
  BY DEF Sentinel
<1>4. /\ HeldIn(outbox') = HeldIn(outbox) /\ outbox' \in Seq(SUBSET Topics) /\ Len(outbox') <= OutboxCapacity
      /\ \A i \in 1..Len(outbox) : outbox'[i] = outbox[i]
      /\ \A i \in 1..Len(outbox') : outbox'[i] = Sentinel \/ (i \in 1..Len(outbox))
  <2>1. CASE outbox' = outbox
    BY <2>1, QueueTypes
  <2>2. CASE Len(outbox) < OutboxCapacity /\ outbox' = Append(outbox, Sentinel)
    <3>1. /\ HeldIn(outbox') = HeldIn(outbox) /\ outbox' \in Seq(SUBSET Topics) /\ Len(outbox') = Len(outbox) + 1
          /\ \A i \in 1..Len(outbox) : outbox'[i] = outbox[i]
          /\ outbox'[Len(outbox) + 1] = Sentinel
      BY <1>3, <2>2, QueueTypes, HeldAppend
    <3>2. \A i \in 1..Len(outbox') : i \in 1..Len(outbox) \/ i = Len(outbox) + 1
      BY <3>1, QueueTypes
    <3> QED BY <2>2, <3>1, <3>2, QueueTypes
  <2> QED BY <1>1, <2>1, <2>2
<1>5. Queued' = Queued /\ \A i \in Queued : outbox'[i] = outbox[i]
  BY <1>4, QueuedIsHeld DEF Queued, HeldIn
<1>6. TopicMailedOnce'
  BY <1>1, <1>2, <1>5 DEF TopicMailedOnce
<1>7. OutstandingExact' /\ LeavesNothing'
  BY <1>1, <1>2, <1>5 DEF NoticesAreExact, OutstandingExact, LeavesNothing
<1>8. \A i \in 1..Len(outbox') : outbox'[i] \subseteq triggered
  BY <1>2, <1>4 DEF FromTriggered, Sentinel
<1>9. sending' \subseteq triggered /\ mailed' \subseteq triggered
  BY <1>1, <1>2 DEF FromTriggered
<1> QED BY <1>1, <1>2, <1>4, <1>6, <1>7, <1>8, <1>9, QueueTypes, QueueStep

-------------------------------------------------------------------------------
LEMMA NoticeStarts == NoticeInit => NoticeInv
<1> SUFFICES ASSUME NoticeInit PROVE NoticeInv
  OBVIOUS
<1>1. /\ outbox = <<>> /\ inHand = {} /\ sending = Sentinel /\ mailed = {} /\ triggered = {}
      /\ mailer = "none" /\ outstanding = 0
      /\ instant = 0 /\ progressAt = 0 /\ quietTicks = 0 /\ frozenAt = Never
  BY DEF NoticeInit
<1>2. Queued = {}
  BY <1>1 DEF Queued
<1>3. NoticesAreExact
  BY <1>1, <1>2, FS_EmptySet DEF NoticesAreExact, TopicMailedOnce, OutstandingExact, LeavesNothing, AsCount, Sentinel
<1>4. NoticeTypeOK
  <2>1. outbox \in Seq(SUBSET Topics) /\ Len(outbox) = 0 /\ 0 <= OutboxCapacity
    BY <1>1, NoticeAssumption
  <2>2. /\ instant \in 0..LastInstant /\ progressAt \in 0..LastInstant
        /\ frozenAt \in 0..LastInstant \cup {Never} /\ quietTicks \in 0..LastInstant
    BY <1>1, NoticeAssumption
  <2>3. /\ triggered \subseteq Topics /\ mailed \subseteq Topics
        /\ inHand \subseteq SUBSET Topics /\ sending \in SUBSET Topics
    BY <1>1 DEF Sentinel
  <2>4. outstanding \in Nat /\ mailer \in {"none", "alive", "gone"}
    BY <1>1
  <2>5. runFinal \in BOOLEAN /\ manualMark \in BOOLEAN /\ outboxClosing \in BOOLEAN
    BY Zenon DEF NoticeInit
  <2> QED BY <2>1, <2>2, <2>3, <2>4, <2>5 DEF NoticeTypeOK
<1>5. FromTriggered /\ GoneIsClosed
  BY <1>1 DEF FromTriggered, GoneIsClosed, Sentinel
<1>6. ClockAhead /\ StallClockExact
  BY <1>1 DEF ClockAhead, StallClockExact, Never
<1> QED BY <1>3, <1>4, <1>5, <1>6 DEF NoticeInv

LEMMA NoticeKeeps == NoticeInv /\ [NoticeNext]_noticeVars => NoticeInv'
<1> SUFFICES ASSUME NoticeInv, [NoticeNext]_noticeVars PROVE NoticeInv'
  OBVIOUS
<1>1. CASE \E unfinished, progressed, exhausted \in BOOLEAN : ObserveRun(unfinished, progressed, exhausted)
  BY <1>1, ObserveKeeps
<1>2. CASE \E keys \in SUBSET BalanceKeys : ObserveBalances(keys)
  <2>1. PICK keys \in SUBSET BalanceKeys : ObserveBalances(keys)
    BY <1>2
  <2>2. /\ ReserveTopic({}, keys) /\ UNCHANGED <<runFinal, manualMark, stallVars, outboxVars>>
        /\ keys \in SUBSET Topics /\ {} \in SUBSET Topics /\ runFinal' \in BOOLEAN
    BY <2>1 DEF ObserveBalances, Topics, NoticeInv, NoticeTypeOK
  <2> QED BY <2>2, TopicsKeep
<1>3. CASE \E completed, unfinished \in BOOLEAN : FinalizeRun(completed, unfinished)
  <2>1. PICK completed \in BOOLEAN, unfinished \in BOOLEAN : FinalizeRun(completed, unfinished)
    BY <1>3
  <2>2. /\ ReserveTopic({EndEvent(completed, unfinished)}, {}) /\ UNCHANGED <<manualMark, stallVars, outboxVars>>
        /\ runFinal' \in BOOLEAN
    BY <2>1 DEF FinalizeRun
  <2>3. {EndEvent(completed, unfinished)} \in SUBSET Topics /\ {} \in SUBSET Topics
    BY DEF EndEvent, Topics, EndEvents
  <2> QED BY <2>2, <2>3, TopicsKeep
<1>4. CASE MarkManualStop \/ FreezeStall \/ ThawStall \/ ClockTicks
  BY <1>4, ClockKeeps
<1>5. CASE \E n \in inHand : SubmitNotice(n)
  BY <1>5, SubmitKeeps
<1>6. CASE MailerStep \/ CloseOutbox
  BY <1>6, TakeKeeps, SendKeeps, CloseKeeps DEF MailerStep
<1>7. CASE UNCHANGED noticeVars
  <2>1. UNCHANGED <<triggered, inHand, outboxVars>> /\ UNCHANGED stallVars /\ UNCHANGED <<runFinal, manualMark>>
    BY <1>7 DEF noticeVars, noticeRunVars
  <2>2. FromTriggered' /\ NoticesAreExact' /\ GoneIsClosed' /\ ClockAhead' /\ StallClockExact'
    BY <2>1, NoticesUntouched, ClockUntouched
  <2>3. NoticeTypeOK'
    BY <2>1 DEF NoticeInv, NoticeTypeOK, outboxVars, stallVars
  <2> QED BY <2>2, <2>3 DEF NoticeInv
<1> QED BY <1>1, <1>2, <1>3, <1>4, <1>5, <1>6, <1>7 DEF NoticeNext

\* No mail is doubled, miscounted or left behind, in whatever order the threads
\* reserve and submit (RunNotificationCoordinator and NotificationQueue).
THEOREM NoticesExact == NoticeSpec => []NoticesAreExact
<1>1. NoticeInv => NoticesAreExact
  BY DEF NoticeInv
<1> QED BY <1>1, NoticeStarts, NoticeKeeps, PTL DEF NoticeSpec

\* The stall clock counts the time without progress and without an outage,
\* however progress, freezing and thawing interleave (set_stall_suspended).
THEOREM StallClock == NoticeSpec => []StallClockExact
<1>1. NoticeInv => StallClockExact
  BY DEF NoticeInv
<1> QED BY <1>1, NoticeStarts, NoticeKeeps, PTL DEF NoticeSpec

-----------------------------------------------------------------------------
(***************************************************************************)
(* The batches.  The argument: a manifest that is unfinished while the     *)
(* process is up is the current batch's; a queued or running task is of    *)
(* the current batch and its watcher still waits for it; and for every     *)
(* lease somebody answers, by a record, a task, an append or a return on   *)
(* its way.  Two tasks with one box and one batch are one task, so what    *)
(* one of them does to its box is nobody else's.                           *)
(***************************************************************************)

Working == {"queued", "running"}
StartHeld == startPhase \in {"prepared", "leased", "committed"}
NoWatch == \A b \in Batches : watcher[b] \in {"none", "done"}
NoFutures == runFutures = {} /\ admitted = {} /\ gatePending = 0 /\ \A t \in ImportTasks : future[t] = "none"

\* What a process that is down, a start that holds the lock, and the current batch are.
RunSound ==
    /\ ~processUp => /\ startPhase = "idle" /\ ~importerRunning /\ NoFutures /\ NoWatch
                     /\ stopPhase = "idle" /\ append.at = "idle"
    /\ StartHeld \/ importerRunning => batchNo > 0
    /\ StartHeld => /\ NoFutures
                    /\ manifest[batchNo] = IF startPhase = "committed" THEN "active" ELSE "preparing"
                    /\ append.at # "idle" => append.batch < batchNo
    /\ startPhase # "idle" => NoWatch
    /\ startPhase = "preflight" => batchNo < MaxBatches
    /\ accepting => batchNo > 0 /\ (StartHeld \/ watcher[batchNo] = "draining")
    /\ append.at # "idle" => append.batch > 0 /\ append.batch <= batchNo
    /\ stopPhase # "cancelling" => stopList = {} /\ toReturn = {}

\* An unfinished manifest belongs to the current batch, or a start left it behind.
BatchSound(b) ==
    /\ b > batchNo => manifest[b] = "none" /\ watcher[b] = "none"
                      /\ \A t \in ImportTasks : BatchOf(t) = b => member[t] = "none"
    /\ watcher[b] \in {"draining", "watching", "reconciling"} => b = batchNo /\ manifest[b] = "active"
    /\ manifest[b] = "active" /\ processUp =>
          b = batchNo /\ (startPhase = "committed" \/ watcher[b] \in {"draining", "watching", "reconciling"})

\* What the executor, the gate and a stop in progress know of one task agrees.
TaskSound(t) ==
    /\ future[t] # "none" <=> t \in runFutures
    /\ future[t] # "none" => BatchOf(t) = batchNo /\ member[t] # "none"
    /\ future[t] \in Working => watcher[BatchOf(t)] = "draining"
    /\ future[t] = "queued" => t \in assigned \/ t \in stopList
    /\ future[t] = "queued" /\ t \in stopList => t \in stopTaken
    /\ t \in admitted => t \in runFutures /\ future[t] # "queued"
    /\ t \in stopList => BatchOf(t) < batchNo \/ t \in runFutures
    /\ t \in toReturn => member[t] # "none" /\ (BatchOf(t) < batchNo \/ future[t] = "cancelled")

\* The box of a task that is queued, at work or about to be returned is its
\* batch's, and no append of that batch has it.
BoxHeld(t) ==
    /\ future[t] \in Working \/ t \in toReturn =>
          /\ \/ mailbox[BoxOf(t)] = BatchOf(t)
             \/ future[t] = "running" /\ t \in admitted /\ mailbox[BoxOf(t)] = Used
          /\ append.at = "leased" /\ BoxOf(t) \in append.boxes => append.batch # BatchOf(t)
    /\ t \in toReturn /\ startPhase = "prepared" => member[<<batchNo, BoxOf(t)>>] = "none"

\* A closed manifest says of a member what its file says.
ReportSound(t) ==
    manifest[BatchOf(t)] = "complete" /\ member[t] # "none" => member[t] = file[t] /\ file[t] \in Terminal

\* Who answers for the lease of a box.
Answered(m, b, t) ==
    \/ m \in stranded
    \/ append.at = "leased" /\ m \in append.boxes /\ append.batch = b
    \/ t \in toReturn
    \/ future[t] \in Working
    \/ startPhase \in {"leased", "committed"} /\ b = batchNo
    \/ manifest[b] = "preparing" /\ member[t] # "none"
    \/ ~processUp /\ manifest[b] = "active" /\ member[t] # "none"

\* A lease is of a batch that was started and somebody answers for it; what a
\* start plans is what it leases.
BoxSound(m) ==
    /\ \A b \in Batches : mailbox[m] = b => b <= batchNo /\ Answered(m, b, <<b, m>>)
    /\ startPhase = "prepared" => mailbox[m] # batchNo
    /\ startPhase \in {"leased", "committed"} => (mailbox[m] = batchNo <=> member[<<batchNo, m>>] # "none")
    /\ append.at = "leased" /\ m \in append.boxes => mailbox[m] = append.batch \/ append.batch < batchNo

\* The tasks that have yet to pass the gate.
Awaiting == {t \in ImportTasks : future[t] = "queued" \/ (future[t] = "running" /\ t \notin admitted)}

\* What an import on its way can be.
AppendSet == [at : {"idle", "read", "leased"}, batch : 0..MaxBatches, boxes : SUBSET Mailboxes]

\* The inductive invariant of the importer.
ImportInv ==
    /\ ImportTypeOK /\ append \in AppendSet
    /\ RunSound
    /\ \A b \in Batches : BatchSound(b)
    /\ \A t \in ImportTasks : TaskSound(t) /\ BoxHeld(t) /\ ReportSound(t)
    /\ \A m \in Mailboxes : BoxSound(m)
    /\ gatePending = Cardinality(Awaiting)

-----------------------------------------------------------------------------
\* A task is its batch and its box.
LEMMA TaskPair ==
  /\ Batches \subseteq Nat \ {0} /\ Available \notin Batches /\ Used \notin Batches /\ Available # Used
  /\ \A b \in Batches : b <= MaxBatches
  /\ \A t \in ImportTasks : BatchOf(t) \in Batches /\ BoxOf(t) \in Mailboxes /\ t = <<BatchOf(t), BoxOf(t)>>
  /\ \A b \in Batches, m \in Mailboxes :
        <<b, m>> \in ImportTasks /\ BatchOf(<<b, m>>) = b /\ BoxOf(<<b, m>>) = m
  /\ \A t, u \in ImportTasks : BatchOf(t) = BatchOf(u) /\ BoxOf(t) = BoxOf(u) => t = u
<1>1. Batches \subseteq Nat \ {0} /\ \A b \in Batches : b <= MaxBatches
  BY ImporterAssumption DEF Batches
<1>2. Available \notin Batches /\ Used \notin Batches /\ Available # Used
  BY <1>1 DEF Available, Used
<1>3. ASSUME NEW t \in ImportTasks PROVE BatchOf(t) \in Batches /\ BoxOf(t) \in Mailboxes /\ t = <<BatchOf(t), BoxOf(t)>>
  BY DEF ImportTasks, BatchOf, BoxOf
<1>4. ASSUME NEW b \in Batches, NEW m \in Mailboxes
      PROVE  <<b, m>> \in ImportTasks /\ BatchOf(<<b, m>>) = b /\ BoxOf(<<b, m>>) = m
  BY DEF ImportTasks, BatchOf, BoxOf
<1> QED BY <1>1, <1>2, <1>3, <1>4

\* There are finitely many tasks.
LEMMA TasksFinite ==
  IsFiniteSet(ImportTasks) /\ \A S \in SUBSET ImportTasks : IsFiniteSet(S) /\ Cardinality(S) \in Nat
<1>1. IsFiniteSet(Batches)
  BY FS_Interval, ImporterAssumption DEF Batches
<1>2. IsFiniteSet(ImportTasks)
  BY <1>1, FS_Product, ImporterAssumption DEF ImportTasks
<1> QED BY <1>2, FS_Subset, FS_CardinalityType

\* A counter that is not zero loses one.
LEMMA OneLessIs ==
  ASSUME NEW n \in Nat PROVE OneLess(n) \in Nat /\ (n > 0 => OneLess(n) = n - 1)
  BY DEF OneLess, Greater

\* One task less at the gate is one registration less.
LEMMA AwaitingIs ==
  ASSUME ImportInv, NEW t \in ImportTasks, Awaiting' = Awaiting \ {t}, t \in Awaiting,
         gatePending' = OneLess(gatePending)
  PROVE  (gatePending = Cardinality(Awaiting))'
<1>1. IsFiniteSet(Awaiting) /\ Cardinality(Awaiting) \in Nat
  BY TasksFinite DEF Awaiting
<1>2. Cardinality(Awaiting \ {t}) = Cardinality(Awaiting) - 1
  BY <1>1, FS_RemoveElement
<1>3. Cardinality(Awaiting) > 0
  BY <1>1, FS_EmptySet
<1>4. gatePending = Cardinality(Awaiting)
  BY DEF ImportInv
<1>5. OneLess(gatePending) = gatePending - 1
  BY <1>1, <1>3, <1>4, OneLessIs
<1> QED BY <1>2, <1>4, <1>5

\* What closing a manifest does: the files found and the statuses settled agree.
LEMMA ReconcileIs ==
  ASSUME ImportTypeOK, NEW b \in Batches, NEW rows, manifest[b] = "active", Reconcile(b, rows)
  PROVE  /\ \A c \in Batches : manifest'[c] = IF c = b THEN "complete" ELSE manifest[c]
         /\ \A t \in ImportTasks : t \in Members(b) =>
                member'[t] \in Terminal /\ file'[t] = member'[t]
         /\ \A t \in ImportTasks : t \notin Members(b) => member'[t] = member[t] /\ file'[t] = file[t]
         /\ persisted' = persisted \cup Members(b) /\ runGate' = 0
         /\ manifest' \in [Batches -> {"none", "preparing", "active", "complete"}]
         /\ member' \in [ImportTasks -> Statuses]
         /\ file' \in [ImportTasks -> Terminal \cup {"none"}]
         /\ persisted' \subseteq ImportTasks
<1>1. \A t \in ImportTasks : Settled(t, rows) \in Terminal /\ (file[t] # "none" => Settled(t, rows) = file[t])
  BY DEF ImportTypeOK, Settled, Terminal
<1>2. /\ manifest' = [manifest EXCEPT ![b] = "complete"]
      /\ member' = [t \in ImportTasks |-> IF t \in Members(b) THEN Settled(t, rows) ELSE member[t]]
      /\ file' = [t \in ImportTasks |->
                     IF t \in Members(b) /\ file[t] = "none" THEN member'[t] ELSE file[t]]
      /\ persisted' = persisted \cup Members(b) /\ runGate' = 0
  BY DEF Reconcile, Finished
<1>3. \A t \in ImportTasks : /\ t \in Members(b) => member'[t] \in Terminal /\ file'[t] = member'[t]
                             /\ t \notin Members(b) => member'[t] = member[t] /\ file'[t] = file[t]
  BY <1>1, <1>2
<1>4. /\ manifest' \in [Batches -> {"none", "preparing", "active", "complete"}]
      /\ \A c \in Batches : manifest'[c] = IF c = b THEN "complete" ELSE manifest[c]
  BY <1>2 DEF ImportTypeOK
<1>5. member' \in [ImportTasks -> Statuses] /\ persisted' \subseteq ImportTasks
  BY <1>1, <1>2 DEF ImportTypeOK, Statuses, Members
<1>6. file' \in [ImportTasks -> Terminal \cup {"none"}]
  <2>1. \A t \in ImportTasks : t \in Members(b) => member'[t] \in Terminal
    BY <1>3
  <2> QED BY <1>2, <2>1 DEF ImportTypeOK
<1> QED BY <1>2, <1>3, <1>4, <1>5, <1>6

\* What a failed start leaves alone, and what of its batch can remain.
LEMMA FailStartIs ==
  ASSUME ImportInv, FailStart
  PROVE  /\ \A m \in Mailboxes :
               \/ mailbox'[m] = mailbox[m]
               \/ StartHeld /\ mailbox[m] = batchNo /\ mailbox'[m] = Available
         /\ \A b \in Batches :
               \/ manifest'[b] = manifest[b]
               \/ StartHeld /\ b = batchNo /\ manifest'[b] \in {"none", "complete"}
         /\ \A t \in ImportTasks : ~StartHeld \/ BatchOf(t) # batchNo
                                     => member'[t] = member[t] /\ file'[t] = file[t]
         /\ StartHeld => manifest'[batchNo] # "active"
         /\ StartHeld => \A m \in Mailboxes : mailbox'[m] = batchNo =>
               \/ manifest'[batchNo] = "preparing" /\ member'[<<batchNo, m>>] # "none"
               \/ m \in stranded'
         /\ stranded \subseteq stranded' /\ stranded' \subseteq Mailboxes
         /\ StartHeld /\ manifest'[batchNo] = "complete" =>
               \A t \in ImportTasks : BatchOf(t) = batchNo /\ member'[t] # "none"
                                         => member'[t] = file'[t] /\ file'[t] \in Terminal
         /\ /\ mailbox' \in [Mailboxes -> Batches \cup {Available, Used}]
            /\ manifest' \in [Batches -> {"none", "preparing", "active", "complete"}]
            /\ member' \in [ImportTasks -> Statuses] /\ persisted' \subseteq ImportTasks
            /\ file' \in [ImportTasks -> Terminal \cup {"none"}]
<1> DEFINE Shape ==
         /\ mailbox' \in [Mailboxes -> Batches \cup {Available, Used}]
         /\ manifest' \in [Batches -> {"none", "preparing", "active", "complete"}]
         /\ member' \in [ImportTasks -> Statuses] /\ persisted' \subseteq ImportTasks
         /\ file' \in [ImportTasks -> Terminal \cup {"none"}]
<1>1. StartHeld => /\ batchNo \in Batches
                   /\ manifest[batchNo] = IF startPhase = "committed" THEN "active" ELSE "preparing"
  BY ImporterAssumption DEF ImportInv, ImportTypeOK, RunSound, StartHeld, Batches
<1>2. ASSUME StartHeld
      PROVE  /\ \A t \in ImportTasks : t \in Members(batchNo) <=> BatchOf(t) = batchNo /\ member[t] # "none"
             /\ \A m \in Mailboxes : m \in PlannedBoxes <=> member[<<batchNo, m>>] # "none"
  BY <1>1, <1>2, TaskPair DEF Members, PlannedBoxes, Now
<1>3. /\ startPhase = "prepared" => \A m \in Mailboxes : mailbox[m] # batchNo
      /\ startPhase \in {"leased", "committed"} =>
            \A m \in Mailboxes : mailbox[m] = batchNo <=> member[<<batchNo, m>>] # "none"
  BY DEF ImportInv, BoxSound
<1>10. /\ startPhase \in {"leased", "committed"} =>
             \A m \in Mailboxes : m \in PlannedBoxes <=> mailbox[m] = batchNo
       /\ StartHeld => Available # batchNo
  BY <1>1, <1>2, <1>3, TaskPair DEF StartHeld
<1>0. /\ stranded \subseteq Mailboxes
      /\ startPhase # "committed" => stranded' = stranded
  BY DEF ImportInv, ImportTypeOK, FailStart
<1>4. CASE startPhase = "preflight" /\ UNCHANGED fileVars
  BY <1>0, <1>4 DEF ImportInv, ImportTypeOK, fileVars, StartHeld
<1>5. ASSUME NEW boxes \in SUBSET Mailboxes, Return(boxes)
      PROVE  /\ \A m \in Mailboxes : mailbox'[m] = IF m \in boxes THEN Available ELSE mailbox[m]
             /\ mailbox' \in [Mailboxes -> Batches \cup {Available, Used}]
  BY <1>5 DEF ImportInv, ImportTypeOK, Return
<1>6. PlannedBoxes \subseteq Mailboxes
  BY TaskPair DEF PlannedBoxes, Members
<1>7. CASE /\ startPhase \in {"prepared", "leased"}
           /\ Return(IF startPhase = "leased" THEN PlannedBoxes ELSE {})
           /\ manifest' = [manifest EXCEPT ![Now] = "none"]
           /\ member' = [t \in ImportTasks |-> IF BatchOf(t) = Now THEN "none" ELSE member[t]]
           /\ UNCHANGED <<persisted, file>>
  <2>1. StartHeld
    BY <1>7 DEF StartHeld
  <2>2. \A m \in Mailboxes : mailbox'[m] = IF startPhase = "leased" /\ m \in PlannedBoxes
                                           THEN Available ELSE mailbox[m]
    BY <1>5, <1>6, <1>7
  <2>3. \A m \in Mailboxes : /\ mailbox'[m] # batchNo
                             /\ mailbox'[m] = mailbox[m] \/ (mailbox[m] = batchNo /\ mailbox'[m] = Available)
    BY <2>1, <2>2, <1>3, <1>7, <1>10
  <2>4. /\ \A b \in Batches : manifest'[b] = IF b = batchNo THEN "none" ELSE manifest[b]
        /\ \A t \in ImportTasks : BatchOf(t) # batchNo => member'[t] = member[t] /\ file'[t] = file[t]
    BY <1>7 DEF ImportInv, ImportTypeOK, Now
  <2>5. Shape
    BY <1>5, <1>6, <1>7 DEF ImportInv, ImportTypeOK, Statuses
  <2> QED BY <2>1, <2>3, <2>4, <2>5, <1>0, <1>1, <1>7
<1>8. CASE /\ startPhase = "leased"
           /\ \E released \in (SUBSET PlannedBoxes) \ {PlannedBoxes} : Return(released)
           /\ UNCHANGED <<manifest, member, persisted, file>>
  <2>1. PICK released \in SUBSET PlannedBoxes : Return(released)
    BY <1>8
  <2>2. \A m \in Mailboxes : mailbox'[m] = IF m \in released THEN Available ELSE mailbox[m]
    BY <1>5, <1>6, <2>1
  <2>3. StartHeld /\ manifest'[batchNo] = "preparing"
    BY <1>1, <1>8 DEF StartHeld
  <2>4. \A m \in Mailboxes : /\ mailbox'[m] = mailbox[m] \/ (mailbox[m] = batchNo /\ mailbox'[m] = Available)
                             /\ mailbox'[m] = batchNo => member'[<<batchNo, m>>] # "none"
    BY <2>1, <2>2, <2>3, <1>3, <1>8, <1>10
  <2>5. Shape
    BY <1>5, <1>6, <1>8, <2>1 DEF ImportInv, ImportTypeOK
  <2> QED BY <2>3, <2>4, <2>5, <1>0, <1>8
<1>9. CASE /\ startPhase = "committed"
           /\ \E kept \in SUBSET PlannedBoxes :
                 Return(PlannedBoxes \ kept) /\ stranded' = stranded \cup kept
           /\ Reconcile(Now, NoRows)
  <2>7. PICK kept \in SUBSET PlannedBoxes :
               Return(PlannedBoxes \ kept) /\ stranded' = stranded \cup kept
    BY <1>9
  <2>1. StartHeld /\ batchNo \in Batches /\ manifest[batchNo] = "active"
    BY <1>1, <1>9 DEF StartHeld
  <2>2. /\ \A b \in Batches : manifest'[b] = IF b = batchNo THEN "complete" ELSE manifest[b]
        /\ \A t \in ImportTasks : t \in Members(batchNo) =>
               member'[t] \in Terminal /\ file'[t] = member'[t]
        /\ \A t \in ImportTasks : t \notin Members(batchNo) => member'[t] = member[t] /\ file'[t] = file[t]
        /\ manifest' \in [Batches -> {"none", "preparing", "active", "complete"}]
        /\ member' \in [ImportTasks -> Statuses] /\ persisted' \subseteq ImportTasks
        /\ file' \in [ImportTasks -> Terminal \cup {"none"}]
    BY <2>1, <1>9, ReconcileIs DEF ImportInv, Now
  <2>8. \A m \in Mailboxes : mailbox'[m] = IF m \in PlannedBoxes \ kept THEN Available ELSE mailbox[m]
    BY <1>5, <1>6, <2>7
  <2>3. \A m \in Mailboxes : /\ mailbox'[m] = batchNo => m \in stranded'
                             /\ mailbox'[m] = mailbox[m] \/ (mailbox[m] = batchNo /\ mailbox'[m] = Available)
    BY <2>1, <2>7, <2>8, <1>9, <1>10
  <2>9. stranded \subseteq stranded' /\ stranded' \subseteq Mailboxes
    BY <1>0, <1>6, <2>7
  <2>4. Shape
    BY <1>5, <1>6, <2>2, <2>7
  <2>5. \A t \in ImportTasks : BatchOf(t) = batchNo /\ t \notin Members(batchNo) => member[t] = "none"
    BY <2>1, <1>2
  <2>6. \A t \in ImportTasks : BatchOf(t) # batchNo => t \notin Members(batchNo)
    BY <2>1, <1>2
  <2> QED BY <2>1, <2>2, <2>3, <2>4, <2>5, <2>6, <2>9
<1> QED BY <1>4, <1>7, <1>8, <1>9 DEF FailStart

-----------------------------------------------------------------------------
\* The first state has the types.
LEMMA InitTypes == ImportInit => ImportTypeOK /\ append \in AppendSet
<1> SUFFICES ASSUME ImportInit PROVE ImportTypeOK /\ append \in AppendSet
  OBVIOUS
<1>1. /\ mailbox \in [Mailboxes -> Batches \cup {Available, Used}]
      /\ manifest \in [Batches -> {"none", "preparing", "active", "complete"}]
      /\ watcher \in [Batches -> {"none", "draining", "watching", "reconciling", "done"}]
  BY DEF ImportInit
<1>2. /\ member \in [ImportTasks -> Statuses]
      /\ file \in [ImportTasks -> Terminal \cup {"none"}]
      /\ future \in [ImportTasks -> {"none", "queued", "running", "done", "cancelled"}]
      /\ taskRow \in [ImportTasks -> Statuses]
  BY DEF ImportInit, Statuses
<1>3. /\ append \in AppendSet /\ append.at \in {"idle", "read", "leased"}
      /\ append.batch \in 0..MaxBatches /\ append.boxes \subseteq Mailboxes
  BY ImporterAssumption DEF ImportInit, AppendSet, NoAppend
<1>4. /\ batchNo \in 0..MaxBatches /\ runGate \in 0..MaxBatches /\ crashes \in 0..MaxCrashes
      /\ gatePending \in Nat
  BY ImporterAssumption DEF ImportInit
<1>5. /\ persisted \subseteq ImportTasks /\ runFutures \subseteq ImportTasks
      /\ admitted \subseteq ImportTasks /\ assigned \subseteq ImportTasks
      /\ stopList \cup stopTaken \cup toReturn \subseteq ImportTasks
      /\ stranded \subseteq Mailboxes
  BY DEF ImportInit
<1>6. /\ processUp \in BOOLEAN /\ importerRunning \in BOOLEAN
      /\ stopEvent \in BOOLEAN /\ accepting \in BOOLEAN
      /\ startPhase \in {"idle", "preflight", "prepared", "leased", "committed"}
      /\ stopPhase \in {"idle", "signalled", "cancelling"}
  BY DEF ImportInit
<1> QED BY <1>1, <1>2, <1>3, <1>4, <1>5, <1>6 DEF ImportTypeOK

\* Nothing is started, leased or watched at first.
LEMMA ImportStart == ImportInit => ImportInv
<1> SUFFICES ASSUME ImportInit PROVE ImportInv
  OBVIOUS
<1>1. ImportTypeOK /\ append \in AppendSet
  BY InitTypes
<1>2. RunSound
  BY DEF ImportInit, RunSound, StartHeld, NoWatch, NoAppend
<1>3. \A b \in Batches : BatchSound(b)
  BY DEF ImportInit, BatchSound
<1>4. \A t \in ImportTasks : TaskSound(t) /\ BoxHeld(t) /\ ReportSound(t)
  BY TaskPair DEF ImportInit, TaskSound, BoxHeld, ReportSound, Working
<1>5. \A m \in Mailboxes : BoxSound(m)
  BY TaskPair DEF ImportInit, BoxSound, NoAppend
<1>6. Awaiting = {}
  BY DEF ImportInit, Awaiting
<1>7. Cardinality(Awaiting) = 0 /\ gatePending = 0
  BY <1>6, FS_EmptySet DEF ImportInit
<1> QED BY <1>1, <1>2, <1>3, <1>4, <1>5, <1>7 DEF ImportInv

\* PreflightStart: a start is only published while nobody watches, and nothing accepts then.
LEMMA PreflightStartKeeps ==
  ASSUME ImportInv, PreflightStart PROVE ImportInv'
<1>1. (ImportTypeOK /\ append \in AppendSet)'
  BY ImporterAssumption DEF ImportInv, ImportTypeOK, RunSound, AppendSet, NoAppend, Statuses,
     Terminal, LockFree, PreflightStart, fileVars, taskVars, stopVars, ghostVars
<1>2. RunSound'
  BY DEF ImportInv, RunSound, StartHeld, NoFutures, NoWatch, PreflightStart, fileVars, taskVars,
     stopVars, ghostVars, LockFree
<1>3. ASSUME NEW b \in Batches PROVE BatchSound(b)'
  BY DEF ImportInv, BatchSound, PreflightStart, fileVars, taskVars, stopVars, ghostVars,
     LockFree
<1>4. ASSUME NEW t \in ImportTasks PROVE TaskSound(t)'
  BY DEF ImportInv, TaskSound, PreflightStart, fileVars, taskVars, stopVars, ghostVars, LockFree
<1>5. ASSUME NEW t \in ImportTasks PROVE BoxHeld(t)'
  BY DEF ImportInv, BoxHeld, PreflightStart, fileVars, taskVars, stopVars, ghostVars, LockFree
<1>6. ASSUME NEW t \in ImportTasks PROVE ReportSound(t)'
  BY DEF ImportInv, ReportSound, PreflightStart, fileVars, taskVars, stopVars, ghostVars,
     LockFree
<1>7. ASSUME NEW m \in Mailboxes PROVE BoxSound(m)'
  BY DEF ImportInv, BoxSound, Answered, PreflightStart, fileVars, taskVars, stopVars, ghostVars,
     LockFree
<1>8. (gatePending = Cardinality(Awaiting))'
  BY DEF ImportInv, Awaiting, PreflightStart, fileVars, taskVars, stopVars, ghostVars, LockFree
<1> QED BY <1>1, <1>2, <1>3, <1>4, <1>5, <1>6, <1>7, <1>8 DEF ImportInv

\* BeginStart: a new batch: the boxes it plans are free, and nothing of an older batch is
\* queued, running or waiting for its watcher any more.
LEMMA BeginStartKeeps ==
  ASSUME ImportInv, NEW boxes \in SUBSET Mailboxes, BeginStart(boxes) PROVE ImportInv'
<1>0. /\ startPhase = "preflight" /\ startPhase' = "prepared" /\ processUp /\ processUp' /\ batchNo \in Nat
      /\ \A c \in Batches : watcher[c] \in {"none", "done"}
  BY DEF ImportInv, ImportTypeOK, RunSound, NoWatch, BeginStart
<1>1. PICK b \in Batches : b = batchNo + 1 /\ batchNo' = b
  BY <1>0, ImporterAssumption DEF ImportInv, ImportTypeOK, RunSound, BeginStart, Batches
<1>2. /\ importerRunning' = TRUE /\ accepting' = TRUE /\ stopEvent' = FALSE
      /\ runFutures' = {} /\ assigned' = {} /\ admitted' = {} /\ gatePending' = 0
      /\ \A t \in ImportTasks : future'[t] = "none" /\ taskRow'[t] = "none"
      /\ \A c \in Batches : manifest'[c] = IF c = b THEN "preparing" ELSE manifest[c]
      /\ \A t \in ImportTasks :
            member'[t] = IF BatchOf(t) = b /\ BoxOf(t) \in boxes THEN "planned" ELSE member[t]
      /\ \A m \in boxes : mailbox[m] = Available
      /\ UNCHANGED <<mailbox, persisted, file, processUp, runGate, stopPhase, stopList,
                     stopTaken, toReturn, watcher, append, crashes, stranded>>
  BY <1>1 DEF ImportInv, ImportTypeOK, BeginStart, NoRows, stopVars, ghostVars
<1>3. /\ manifest' \in [Batches -> {"none", "preparing", "active", "complete"}]
      /\ member' \in [ImportTasks -> Statuses] /\ taskRow' \in [ImportTasks -> Statuses]
      /\ future' \in [ImportTasks -> {"none", "queued", "running", "done", "cancelled"}]
  BY <1>1 DEF ImportInv, ImportTypeOK, BeginStart, NoRows, Statuses, Terminal
<1>4. (ImportTypeOK /\ append \in AppendSet)'
  <2>1. (/\ mailbox \in [Mailboxes -> Batches \cup {Available, Used}]
         /\ file \in [ImportTasks -> Terminal \cup {"none"}]
         /\ watcher \in [Batches -> {"none", "draining", "watching", "reconciling", "done"}]
         /\ append \in AppendSet /\ append.at \in {"idle", "read", "leased"}
         /\ append.batch \in 0..MaxBatches /\ append.boxes \subseteq Mailboxes)'
    BY <1>2 DEF ImportInv, ImportTypeOK
  <2>2. (/\ persisted \subseteq ImportTasks /\ runFutures \subseteq ImportTasks
         /\ admitted \subseteq ImportTasks /\ assigned \subseteq ImportTasks
         /\ stopList \cup stopTaken \cup toReturn \subseteq ImportTasks
         /\ stranded \subseteq Mailboxes)'
    BY <1>2 DEF ImportInv, ImportTypeOK
  <2>3. (/\ batchNo \in 0..MaxBatches /\ runGate \in 0..MaxBatches /\ crashes \in 0..MaxCrashes
         /\ gatePending \in Nat)'
    BY <1>1, <1>2, TaskPair, ImporterAssumption DEF ImportInv, ImportTypeOK
  <2>4. (/\ processUp \in BOOLEAN /\ importerRunning \in BOOLEAN
         /\ stopEvent \in BOOLEAN /\ accepting \in BOOLEAN
         /\ startPhase \in {"idle", "preflight", "prepared", "leased", "committed"}
         /\ stopPhase \in {"idle", "signalled", "cancelling"})'
    BY <1>0, <1>2 DEF ImportInv, ImportTypeOK
  <2> QED BY <1>3, <2>1, <2>2, <2>3, <2>4 DEF ImportTypeOK
<1>5. RunSound'
  <2>1. /\ append'.at # "idle" => append'.batch > 0 /\ append'.batch <= batchNo'
        /\ append'.at # "idle" => append'.batch < batchNo'
    BY <1>0, <1>1, <1>2, ImporterAssumption DEF ImportInv, RunSound, AppendSet
  <2>2. stopPhase' # "cancelling" => stopList' = {} /\ toReturn' = {}
    BY <1>2 DEF ImportInv, RunSound
  <2>3. NoFutures' /\ NoWatch' /\ StartHeld' /\ manifest'[batchNo'] = "preparing" /\ batchNo' > 0
    BY <1>0, <1>1, <1>2 DEF NoFutures, NoWatch, StartHeld
  <2>4. processUp' /\ startPhase' = "prepared"
    BY <1>0
  <2> QED BY <2>1, <2>2, <2>3, <2>4 DEF RunSound
<1>6. ASSUME NEW c \in Batches PROVE BatchSound(c)'
  BY <1>0, <1>1, <1>2, TaskPair DEF ImportInv, RunSound, BatchSound, StartHeld
<1>7. ASSUME NEW t \in ImportTasks
      PROVE  /\ t \in stopList \/ t \in toReturn => BatchOf(t) < batchNo'
             /\ t \in toReturn => member'[t] # "none"
             /\ future[t] \notin Working /\ BatchOf(t) \in Nat
  <2>1. BatchOf(t) \in Nat /\ BatchOf(t) \in Batches
    BY TaskPair
  <2>2. TaskSound(t)
    BY DEF ImportInv
  <2>3. future[t] \notin Working
    BY <2>1, <2>2, <1>0 DEF TaskSound, Working
  <2>4. t \in stopList => BatchOf(t) < batchNo'
    BY <2>1, <2>2, <1>0, <1>1 DEF TaskSound
  <2>5. t \in toReturn => BatchOf(t) < batchNo' /\ member'[t] # "none"
    BY <2>1, <2>2, <1>0, <1>1, <1>2 DEF TaskSound
  <2> QED BY <2>1, <2>3, <2>4, <2>5
<1>8. ASSUME NEW t \in ImportTasks PROVE TaskSound(t)'
  BY <1>2, <1>7 DEF TaskSound, Working
<1>9. ASSUME NEW t \in ImportTasks PROVE BoxHeld(t)'
  <2>1. t \in toReturn => /\ mailbox[BoxOf(t)] = BatchOf(t)
                          /\ append.at = "leased" /\ BoxOf(t) \in append.boxes => append.batch # BatchOf(t)
    BY <1>7 DEF ImportInv, BoxHeld, Working
  <2>2. t \in toReturn => BoxOf(t) \notin boxes /\ BoxOf(t) \in Mailboxes
    BY <2>1, <1>2, TaskPair
  <2>3. t \in toReturn => member'[<<b, BoxOf(t)>>] = "none"
    BY <2>2, <1>0, <1>1, <1>2, TaskPair DEF ImportInv, BatchSound
  <2> QED BY <1>1, <1>2, <2>1, <2>3 DEF BoxHeld, Working
<1>10. ASSUME NEW t \in ImportTasks PROVE ReportSound(t)'
  BY <1>1, <1>2, TaskPair DEF ImportInv, ReportSound
<1>11. ASSUME NEW m \in Mailboxes PROVE BoxSound(m)'
  <2>1. ASSUME NEW c \in Batches, mailbox[m] = c
        PROVE  Answered(m, c, <<c, m>>)
    BY <2>1, Zenon DEF ImportInv, BoxSound
  <2>7. ASSUME NEW c \in Batches, mailbox[m] = c
        PROVE  c <= batchNo
    BY <2>7, Zenon DEF ImportInv, BoxSound
  <2>4. ASSUME NEW c \in Batches, mailbox[m] = c
        PROVE  c # b
    BY <2>7, <2>4, <1>0, <1>1, TaskPair
  <2>2. ASSUME NEW c \in Batches, mailbox[m] = c PROVE Answered(m, c, <<c, m>>)'
    BY <2>1, <2>2, <2>4, <1>0, <1>1, <1>2, <1>7, TaskPair DEF Answered
  <2>3. append.at = "leased" /\ m \in append.boxes => append.batch < batchNo'
    BY <1>0, <1>1 DEF ImportInv, RunSound, AppendSet
  <2>5. ASSUME NEW c \in Batches, mailbox[m] = c PROVE c <= batchNo'
    BY <2>7, <2>5, <1>0, <1>1, TaskPair
  <2>6. mailbox[m] # b
    BY <2>4, <1>1
  <2> QED BY <2>2, <2>3, <2>5, <2>6, <1>0, <1>1, <1>2 DEF BoxSound
<1>12. Awaiting' = {}
  BY <1>2 DEF Awaiting
<1>13. (gatePending = Cardinality(Awaiting))'
  BY <1>2, <1>12, FS_EmptySet
<1> QED BY <1>4, <1>5, <1>6, <1>8, <1>9, <1>10, <1>11, <1>13 DEF ImportInv

\* SaveLeases: the planned boxes, and only they, become the batch's.
LEMMA SaveLeasesKeeps ==
  ASSUME ImportInv, SaveLeases PROVE ImportInv'
<1>1. /\ batchNo \in Batches /\ startPhase = "prepared" /\ startPhase' = "leased" /\ NoFutures
      /\ manifest[batchNo] = "preparing"
      /\ append.at # "idle" => append.batch < batchNo
  BY ImporterAssumption DEF ImportInv, ImportTypeOK, RunSound, StartHeld, SaveLeases, Batches
<1>2. /\ \A m \in Mailboxes : mailbox'[m] = IF member[<<batchNo, m>>] # "none" THEN batchNo ELSE mailbox[m]
      /\ mailbox' \in [Mailboxes -> Batches \cup {Available, Used}]
  <2>1. \A m \in Mailboxes : m \in PlannedBoxes <=> member[<<batchNo, m>>] # "none"
    BY <1>1, TaskPair DEF PlannedBoxes, Members, Now
  <2> QED BY <1>1, <2>1 DEF ImportInv, ImportTypeOK, SaveLeases, Now
<1>3. UNCHANGED <<manifest, member, persisted, file, processUp, batchNo, importerRunning,
                  stopEvent, accepting, runGate, gatePending, runFutures, future, admitted,
                  assigned, taskRow, stopPhase, stopList, stopTaken, toReturn, watcher,
                  append, crashes, stranded>>
  BY DEF SaveLeases, taskVars, stopVars, ghostVars
<1>4. (ImportTypeOK /\ append \in AppendSet)'
  BY <1>1, <1>2, <1>3 DEF ImportInv, ImportTypeOK
<1>5. RunSound'
  BY <1>1, <1>3 DEF ImportInv, RunSound, StartHeld, NoWatch, NoFutures
<1>6. ASSUME NEW c \in Batches PROVE BatchSound(c)'
  BY <1>1, <1>3 DEF ImportInv, BatchSound
<1>7. ASSUME NEW t \in ImportTasks PROVE TaskSound(t)'
  BY <1>3 DEF ImportInv, TaskSound
<1>8. ASSUME NEW t \in ImportTasks PROVE BoxHeld(t)'
  <2>1. t \in toReturn => /\ mailbox'[BoxOf(t)] = mailbox[BoxOf(t)]
                          /\ future[t] = "none"
    BY <1>1, <1>2, TaskPair DEF ImportInv, BoxHeld, NoFutures
  <2> QED BY <1>1, <1>3, <2>1 DEF ImportInv, BoxHeld, NoFutures, Working
<1>9. ASSUME NEW t \in ImportTasks PROVE ReportSound(t)'
  BY <1>3 DEF ImportInv, ReportSound
<1>10. ASSUME NEW m \in Mailboxes PROVE BoxSound(m)'
  <2>1. ASSUME NEW c \in Batches, mailbox'[m] = c PROVE c <= batchNo /\ Answered(m, c, <<c, m>>)'
    <3>1. CASE member[<<batchNo, m>>] # "none"
      BY <2>1, <3>1, <1>1, <1>2, <1>3, TaskPair DEF Answered
    <3>2. CASE member[<<batchNo, m>>] = "none"
      BY <2>1, <3>2, <1>1, <1>2, <1>3, TaskPair DEF ImportInv, BoxSound, Answered
    <3> QED BY <3>1, <3>2
  <2>2. mailbox'[m] = batchNo <=> member[<<batchNo, m>>] # "none"
    BY <1>1, <1>2 DEF ImportInv, BoxSound
  <2> QED BY <2>1, <2>2, <1>1, <1>3 DEF BoxSound
<1>11. (gatePending = Cardinality(Awaiting))'
  BY <1>3 DEF ImportInv, Awaiting
<1> QED BY <1>4, <1>5, <1>6, <1>7, <1>8, <1>9, <1>10, <1>11 DEF ImportInv

\* CommitPrepared: the leases are saved, so the manifest may promise them.
LEMMA CommitPreparedKeeps ==
  ASSUME ImportInv, CommitPrepared PROVE ImportInv'
<1>1. (ImportTypeOK /\ append \in AppendSet)'
  BY DEF ImportInv, ImportTypeOK, CommitPrepared, taskVars, stopVars, ghostVars, Now
<1>2. RunSound'
  <2>1. /\ batchNo \in Batches /\ startPhase = "leased" /\ startPhase' = "committed" /\ NoFutures
        /\ append.at # "idle" => append.batch < batchNo
    BY ImporterAssumption DEF ImportInv, ImportTypeOK, RunSound, StartHeld, CommitPrepared, Batches
  <2>2. manifest'[batchNo] = "active"
    BY <2>1 DEF ImportInv, ImportTypeOK, CommitPrepared, Now
  <2>3. UNCHANGED <<processUp, batchNo, importerRunning, accepting, gatePending, runFutures,
                    future, admitted, stopPhase, stopList, toReturn, watcher, append>>
    BY DEF CommitPrepared, taskVars, stopVars
  <2> QED BY <2>1, <2>2, <2>3 DEF ImportInv, RunSound, StartHeld, NoFutures, NoWatch
<1>3. ASSUME NEW b \in Batches PROVE BatchSound(b)'
  BY DEF ImportInv, BatchSound, ImportTypeOK, CommitPrepared, taskVars, stopVars, ghostVars, Now
<1>4. ASSUME NEW t \in ImportTasks PROVE TaskSound(t)'
  BY DEF ImportInv, TaskSound, CommitPrepared, taskVars, stopVars, ghostVars, Now
<1>5. ASSUME NEW t \in ImportTasks PROVE BoxHeld(t)'
  BY DEF ImportInv, BoxHeld, CommitPrepared, taskVars, stopVars, ghostVars, Now
<1>6. ASSUME NEW t \in ImportTasks PROVE ReportSound(t)'
  BY DEF ImportInv, ReportSound, Terminal, CommitPrepared, taskVars, stopVars, ghostVars, Now
<1>7. ASSUME NEW m \in Mailboxes PROVE BoxSound(m)'
  BY DEF ImportInv, BoxSound, Answered, CommitPrepared, taskVars, stopVars, ghostVars, Now
<1>8. (gatePending = Cardinality(Awaiting))'
  BY DEF ImportInv, Awaiting, CommitPrepared, taskVars, stopVars, ghostVars, Now
<1> QED BY <1>1, <1>2, <1>3, <1>4, <1>5, <1>6, <1>7, <1>8 DEF ImportInv

\* OpenBatch: the members become queued tasks, each with its box, and are all that waits
\* at the gate.
LEMMA OpenBatchKeeps ==
  ASSUME ImportInv, OpenBatch PROVE ImportInv'
<1>1. /\ batchNo \in Batches /\ startPhase = "committed" /\ startPhase' = "idle" /\ NoFutures
      /\ processUp /\ manifest[batchNo] = "active" /\ NoWatch
      /\ append.at # "idle" => append.batch < batchNo /\ append.batch > 0
  BY ImporterAssumption DEF ImportInv, ImportTypeOK, RunSound, StartHeld, OpenBatch, Batches
<1>2. \A t \in ImportTasks : t \in Members(Now) <=> BatchOf(t) = batchNo /\ member[t] # "none"
  BY DEF Members, Now
<1>3. /\ \A t \in ImportTasks : member'[t] = IF t \in Members(Now) THEN "queued" ELSE member[t]
      /\ \A t \in ImportTasks : future'[t] = IF t \in Members(Now) THEN "queued" ELSE "none"
      /\ runFutures' = Members(Now) /\ assigned' = Members(Now) /\ Members(Now) \subseteq ImportTasks
      /\ gatePending' = Cardinality(Members(Now)) /\ gatePending' \in Nat
      /\ \A b \in Batches : watcher'[b] = IF b = batchNo THEN "draining" ELSE watcher[b]
      /\ admitted' = {}
  BY <1>1, TasksFinite DEF ImportInv, ImportTypeOK, OpenBatch, NoFutures, Now, Members
<1>4. UNCHANGED <<mailbox, manifest, persisted, file, processUp, batchNo,
                  importerRunning, stopEvent, accepting, runGate, stopPhase, stopList,
                  stopTaken, toReturn, append, crashes, stranded>>
  BY DEF OpenBatch, stopVars, ghostVars
<1>5. (ImportTypeOK /\ append \in AppendSet)'
  <2>1. (/\ member \in [ImportTasks -> Statuses] /\ taskRow \in [ImportTasks -> Statuses]
         /\ future \in [ImportTasks -> {"none", "queued", "running", "done", "cancelled"}]
         /\ watcher \in [Batches -> {"none", "draining", "watching", "reconciling", "done"}])'
    BY DEF ImportInv, ImportTypeOK, OpenBatch, Statuses
  <2>2. (/\ runFutures \subseteq ImportTasks /\ assigned \subseteq ImportTasks
         /\ admitted \subseteq ImportTasks /\ gatePending \in Nat /\ startPhase = "idle")'
    BY <1>1, <1>3
  <2> QED BY <1>4, <2>1, <2>2 DEF ImportInv, ImportTypeOK
<1>6. RunSound'
  <2>1. /\ processUp' /\ startPhase' = "idle" /\ batchNo' > 0 /\ ~StartHeld'
        /\ watcher'[batchNo'] = "draining"
    BY <1>1, <1>3, <1>4, TaskPair DEF StartHeld
  <2>2. /\ append'.at # "idle" => append'.batch > 0 /\ append'.batch <= batchNo'
        /\ stopPhase' # "cancelling" => stopList' = {} /\ toReturn' = {}
    BY <1>4 DEF ImportInv, RunSound
  <2> QED BY <2>1, <2>2 DEF RunSound
<1>7. ASSUME NEW b \in Batches PROVE BatchSound(b)'
  <2>1. /\ manifest'[b] = manifest[b] /\ processUp' /\ batchNo' = batchNo
        /\ b # batchNo => watcher'[b] = watcher[b] /\ watcher[b] \in {"none", "done"}
        /\ \A t \in ImportTasks : BatchOf(t) = b /\ b > batchNo => member'[t] = member[t]
    BY <1>1, <1>2, <1>3, <1>4, TaskPair DEF NoWatch
  <2>2. b = batchNo => watcher'[b] = "draining" /\ manifest[b] = "active"
    BY <1>1, <1>3
  <2>3. b \in Nat /\ batchNo \in Nat
    BY <1>1, TaskPair
  <2> QED BY <1>1, <2>1, <2>2, <2>3 DEF ImportInv, BatchSound
<1>8. ASSUME NEW t \in ImportTasks
      PROVE  /\ t \in stopList \/ t \in toReturn => BatchOf(t) < batchNo
             /\ BatchOf(t) \in Nat /\ batchNo \in Nat
             /\ future'[t] # "none" <=> t \in Members(Now)
             /\ t \in Members(Now) => future'[t] = "queued" /\ BatchOf(t) = batchNo
                                      /\ t \notin stopList /\ t \notin toReturn
  <2>1. BatchOf(t) \in Nat /\ batchNo \in Nat
    BY <1>1, TaskPair
  <2>2. t \in stopList \/ t \in toReturn => BatchOf(t) < batchNo
    BY <1>1 DEF ImportInv, TaskSound, NoFutures
  <2>3. t \in Members(Now) => BatchOf(t) = batchNo
    BY <1>2
  <2> QED BY <1>3, <2>1, <2>2, <2>3
<1>9. ASSUME NEW t \in ImportTasks PROVE TaskSound(t)'
  <2>1. t \in toReturn => member'[t] # "none"
    BY <1>3 DEF ImportInv, TaskSound
  <2>2. t \in Members(Now) => member'[t] # "none" /\ watcher'[BatchOf(t)] = "draining"
    BY <1>1, <1>3, <1>8
  <2> QED BY <1>3, <1>4, <1>8, <2>1, <2>2 DEF TaskSound, Working
<1>10. ASSUME NEW t \in ImportTasks PROVE BoxHeld(t)'
  <2>1. t \in toReturn => /\ mailbox[BoxOf(t)] = BatchOf(t)
                          /\ append.at = "leased" /\ BoxOf(t) \in append.boxes => append.batch # BatchOf(t)
    BY <1>1, TaskPair DEF ImportInv, BoxHeld, NoFutures
  <2>2. t \in Members(Now) => /\ mailbox[BoxOf(t)] = BatchOf(t)
                              /\ append.at = "leased" => append.batch # BatchOf(t)
    <3>1. ASSUME t \in Members(Now) PROVE BoxOf(t) \in Mailboxes /\ t = <<batchNo, BoxOf(t)>>
      BY <3>1, <1>2, TaskPair
    <3>2. ASSUME t \in Members(Now) PROVE mailbox[BoxOf(t)] = batchNo
      BY <3>1, <3>2, <1>1, <1>2 DEF ImportInv, BoxSound
    <3>3. append.at = "leased" => append.batch # batchNo
      BY <1>1, TaskPair, ImporterAssumption DEF ImportInv, AppendSet
    <3> QED BY <3>2, <3>3, <1>8
  <2> QED BY <1>1, <1>4, <1>8, <2>1, <2>2 DEF BoxHeld, Working
<1>11. ASSUME NEW t \in ImportTasks PROVE ReportSound(t)'
  BY <1>1, <1>2, <1>3, <1>4 DEF ImportInv, ReportSound
<1>12. ASSUME NEW m \in Mailboxes PROVE BoxSound(m)'
  <2>1. ASSUME NEW b \in Batches, mailbox[m] = b PROVE b <= batchNo
    BY <2>1, Zenon DEF ImportInv, BoxSound
  <2>2. ASSUME NEW b \in Batches, mailbox[m] = b PROVE Answered(m, b, <<b, m>>)
    BY <2>2, Zenon DEF ImportInv, BoxSound
  <2>3. ASSUME NEW b \in Batches, mailbox[m] = b PROVE Answered(m, b, <<b, m>>)'
    <3>1. CASE b = batchNo
      <4>1. <<b, m>> \in Members(Now)
        BY <2>3, <3>1, <1>1, <1>2, TaskPair DEF ImportInv, BoxSound
      <4>2. future'[<<b, m>>] \in Working
        BY <4>1, <1>3 DEF Working
      <4> QED BY <4>2 DEF Answered
    <3>2. CASE b # batchNo
      BY <3>2, <2>2, <2>3, <1>1, <1>2, <1>3, <1>4, TaskPair DEF Answered, NoFutures, Working
    <3> QED BY <3>1, <3>2
  <2> QED BY <2>1, <2>3, <1>1, <1>4 DEF ImportInv, BoxSound
<1>13. Awaiting' = Members(Now)
  <2>1. \A t \in ImportTasks : t \in Members(Now) <=> future'[t] = "queued"
    BY <1>3
  <2>2. \A t \in ImportTasks : future'[t] # "running"
    BY <1>3
  <2> QED BY <1>3, <2>1, <2>2 DEF Awaiting
<1>14. (gatePending = Cardinality(Awaiting))'
  BY <1>3, <1>13
<1> QED BY <1>5, <1>6, <1>7, <1>9, <1>10, <1>11, <1>12, <1>14 DEF ImportInv

\* FailStart: a failed start leaves no lease of its batch without a record but those
\* whose return failed.
LEMMA FailStartKeeps ==
  ASSUME ImportInv, FailStart PROVE ImportInv'
<1>1. /\ startPhase # "idle" /\ startPhase' = "idle" /\ ~importerRunning' /\ ~accepting'
      /\ processUp /\ processUp' /\ ~StartHeld' /\ NoWatch /\ NoWatch'
      /\ batchNo \in Nat /\ (StartHeld => NoFutures)
  BY DEF ImportInv, ImportTypeOK, RunSound, StartHeld, NoWatch, FailStart
<1>2. UNCHANGED <<batchNo, gatePending, runFutures, future, admitted, assigned, taskRow,
                  stopPhase, stopList, stopTaken, toReturn, watcher, append, crashes>>
  BY DEF FailStart, taskVars, stopVars
<1>3. (ImportTypeOK /\ append \in AppendSet)'
  <2>1. importerRunning' \in BOOLEAN /\ accepting' \in BOOLEAN /\ stopEvent' \in BOOLEAN /\ runGate' = 0
    BY Zenon DEF FailStart
  <2>2. runGate' \in 0..MaxBatches
    BY <2>1, ImporterAssumption
  <2>3. processUp' \in BOOLEAN
    BY DEF FailStart, ImportInv, ImportTypeOK
  <2> QED BY <1>1, <1>2, <2>1, <2>2, <2>3, FailStartIs DEF ImportInv, ImportTypeOK
<1>4. RunSound'
  <2>1. /\ append'.at # "idle" => append'.batch > 0 /\ append'.batch <= batchNo'
        /\ stopPhase' # "cancelling" => stopList' = {} /\ toReturn' = {}
    BY <1>2 DEF ImportInv, RunSound
  <2> QED BY <1>1, <2>1 DEF RunSound
<1>5. ASSUME NEW b \in Batches PROVE BatchSound(b)'
  <2>1. /\ manifest'[b] = manifest[b] \/ (StartHeld /\ b = batchNo /\ manifest'[b] \in {"none", "complete"})
        /\ StartHeld => manifest'[batchNo] # "active"
        /\ \A t \in ImportTasks : BatchOf(t) # batchNo => member'[t] = member[t]
    BY FailStartIs
  <2>2. watcher[b] \in {"none", "done"} /\ watcher'[b] = watcher[b] /\ b \in Nat
    BY <1>1, <1>2, TaskPair DEF NoWatch
  <2>3. manifest'[b] # "active"
    BY <1>1, <2>1, <2>2 DEF ImportInv, BatchSound, StartHeld
  <2>4. b > batchNo => manifest'[b] = manifest[b]
    BY <1>1, <2>1, <2>2
  <2> QED BY <1>1, <1>2, <2>1, <2>2, <2>3, <2>4 DEF ImportInv, BatchSound
<1>6. ASSUME NEW t \in ImportTasks PROVE TaskSound(t)'
  <2>1. /\ ~StartHeld \/ BatchOf(t) # batchNo => member'[t] = member[t]
        /\ BatchOf(t) \in Nat
    BY FailStartIs, TaskPair
  <2>2. TaskSound(t)
    BY DEF ImportInv
  <2>3. StartHeld => future[t] = "none" /\ (t \in toReturn => BatchOf(t) # batchNo)
    BY <1>1, <2>1, <2>2 DEF NoFutures, TaskSound
  <2> QED BY <1>1, <1>2, <2>1, <2>2, <2>3 DEF TaskSound, Working
<1>7. ASSUME NEW t \in ImportTasks PROVE BoxHeld(t)'
  <2>1. BoxHeld(t) /\ TaskSound(t)
    BY DEF ImportInv
  <2>2. StartHeld => future[t] = "none" /\ (t \in toReturn => BatchOf(t) # batchNo)
    BY <1>1, <2>1, TaskPair DEF NoFutures, TaskSound
  <2>3. \/ mailbox'[BoxOf(t)] = mailbox[BoxOf(t)]
        \/ StartHeld /\ mailbox[BoxOf(t)] = batchNo
    BY FailStartIs, TaskPair
  <2>4. future[t] \in Working \/ t \in toReturn => mailbox'[BoxOf(t)] = mailbox[BoxOf(t)]
    BY <2>1, <2>2, <2>3 DEF BoxHeld, Working
  <2> QED BY <1>1, <1>2, <2>1, <2>4 DEF BoxHeld
<1>8. ASSUME NEW t \in ImportTasks PROVE ReportSound(t)'
  <2>1. /\ ~StartHeld \/ BatchOf(t) # batchNo => member'[t] = member[t] /\ file'[t] = file[t]
        /\ BatchOf(t) \in Batches
        /\ manifest'[BatchOf(t)] = manifest[BatchOf(t)] \/ (StartHeld /\ BatchOf(t) = batchNo)
    BY FailStartIs, TaskPair
  <2>2. CASE StartHeld /\ BatchOf(t) = batchNo
    BY <2>2, FailStartIs DEF ReportSound
  <2>3. CASE ~StartHeld \/ BatchOf(t) # batchNo
    BY <2>1, <2>3 DEF ImportInv, ReportSound
  <2> QED BY <2>2, <2>3
<1>9. ASSUME NEW m \in Mailboxes PROVE BoxSound(m)'
  <2>1. \/ mailbox'[m] = mailbox[m]
        \/ StartHeld /\ mailbox[m] = batchNo /\ mailbox'[m] = Available
    BY FailStartIs
  <2>2. ASSUME NEW b \in Batches, mailbox'[m] = b PROVE mailbox[m] = b /\ b <= batchNo
    <3>1. mailbox[m] = b
      BY <2>1, <2>2, TaskPair
    <3> QED BY <3>1, Zenon DEF ImportInv, BoxSound
  <2>3. ASSUME NEW b \in Batches, mailbox'[m] = b PROVE Answered(m, b, <<b, m>>)'
    <3>1. Answered(m, b, <<b, m>>)
      BY <2>2, <2>3, Zenon DEF ImportInv, BoxSound
    <3>2. CASE StartHeld /\ b = batchNo
      <4>1. \/ manifest'[b] = "preparing" /\ member'[<<b, m>>] # "none"
            \/ m \in stranded'
        BY <2>3, <3>2, FailStartIs
      <4> QED BY <4>1 DEF Answered
    <3>3. CASE ~StartHeld \/ b # batchNo
      <4>1. /\ manifest'[b] = manifest[b] /\ member'[<<b, m>>] = member[<<b, m>>]
            /\ stranded \subseteq stranded'
        BY <3>3, FailStartIs, TaskPair
      <4> QED BY <3>1, <3>3, <4>1, <1>1, <1>2 DEF Answered, StartHeld
    <3> QED BY <3>2, <3>3
  <2>4. append.at = "leased" /\ m \in append.boxes => mailbox'[m] = append.batch \/ append.batch < batchNo
    <3>1. StartHeld => (append.at # "idle" => append.batch < batchNo)
      BY DEF ImportInv, RunSound
    <3>2. append.at = "leased" /\ m \in append.boxes => mailbox[m] = append.batch \/ append.batch < batchNo
      BY Zenon DEF ImportInv, BoxSound
    <3> QED BY <2>1, <3>1, <3>2
  <2> QED BY <1>1, <1>2, <2>2, <2>3, <2>4 DEF BoxSound
<1>10. (gatePending = Cardinality(Awaiting))'
  BY <1>2 DEF ImportInv, Awaiting
<1> QED BY <1>3, <1>4, <1>5, <1>6, <1>7, <1>8, <1>9, <1>10 DEF ImportInv

\* PickUp: the queued task was not admitted; its box stays its batch's.
LEMMA PickUpKeeps ==
  ASSUME ImportInv, NEW x \in ImportTasks, PickUp(x) PROVE ImportInv'
<1>1. (ImportTypeOK /\ append \in AppendSet)'
  BY DEF ImportInv, ImportTypeOK, PickUp, fileVars, runVars, stopVars, ghostVars
<1>2. RunSound'
  BY DEF ImportInv, RunSound, StartHeld, NoFutures, NoWatch, PickUp, fileVars, runVars,
     stopVars, ghostVars
<1>3. ASSUME NEW b \in Batches PROVE BatchSound(b)'
  BY DEF ImportInv, BatchSound, PickUp, fileVars, runVars, stopVars, ghostVars
<1>4. ASSUME NEW t \in ImportTasks PROVE TaskSound(t)'
  BY DEF ImportInv, TaskSound, ImportTypeOK, Working, PickUp, fileVars, runVars, stopVars,
     ghostVars
<1>5. ASSUME NEW t \in ImportTasks PROVE BoxHeld(t)'
  BY DEF ImportInv, BoxHeld, ImportTypeOK, Working, PickUp, fileVars, runVars, stopVars,
     ghostVars
<1>6. ASSUME NEW t \in ImportTasks PROVE ReportSound(t)'
  BY DEF ImportInv, ReportSound, PickUp, fileVars, runVars, stopVars, ghostVars
<1>7. ASSUME NEW m \in Mailboxes PROVE BoxSound(m)'
  BY DEF ImportInv, BoxSound, Answered, ImportTypeOK, Working, PickUp, fileVars, runVars,
     stopVars, ghostVars
<1>8. (gatePending = Cardinality(Awaiting))'
  BY TaskPair, ImporterAssumption DEF ImportInv, Awaiting, ImportTypeOK, TaskSound, PickUp,
     fileVars, runVars, stopVars, ghostVars
<1> QED BY <1>1, <1>2, <1>3, <1>4, <1>5, <1>6, <1>7, <1>8 DEF ImportInv

\* Admit: one registration less, one task past the gate.
LEMMA AdmitKeeps ==
  ASSUME ImportInv, NEW x \in ImportTasks, Admit(x) PROVE ImportInv'
<1>1. (ImportTypeOK /\ append \in AppendSet)'
  BY OneLessIs DEF ImportInv, ImportTypeOK, Statuses, Terminal, Admit, Observed, runVars,
     stopVars, ghostVars
<1>2. RunSound'
  BY DEF ImportInv, RunSound, StartHeld, NoFutures, NoWatch, Admit, Observed, runVars, stopVars,
     ghostVars
<1>3. ASSUME NEW b \in Batches PROVE BatchSound(b)'
  BY DEF ImportInv, BatchSound, Admit, Observed, runVars, stopVars, ghostVars
<1>4. ASSUME NEW t \in ImportTasks PROVE TaskSound(t)'
  BY DEF ImportInv, TaskSound, Admit, Observed, runVars, stopVars, ghostVars
<1>5. ASSUME NEW t \in ImportTasks PROVE BoxHeld(t)'
  BY DEF ImportInv, BoxHeld, Admit, Observed, runVars, stopVars, ghostVars
<1>6. ASSUME NEW t \in ImportTasks PROVE ReportSound(t)'
  BY DEF ImportInv, ReportSound, Admit, Observed, runVars, stopVars, ghostVars
<1>7. ASSUME NEW m \in Mailboxes PROVE BoxSound(m)'
  BY DEF ImportInv, BoxSound, Answered, Admit, Observed, runVars, stopVars, ghostVars
<1>8. (gatePending = Cardinality(Awaiting))'
  <2>1. x \in Awaiting /\ Awaiting' = Awaiting \ {x}
    BY DEF ImportInv, ImportTypeOK, Admit, Awaiting
  <2>2. gatePending' = OneLess(gatePending)
    BY DEF Admit
  <2> QED BY <2>1, <2>2, AwaitingIs
<1> QED BY <1>1, <1>2, <1>3, <1>4, <1>5, <1>6, <1>7, <1>8 DEF ImportInv

\* StopAtGate: the task is over, its box returned or stranded; it was nobody else's.
LEMMA StopAtGateKeeps ==
  ASSUME ImportInv, NEW x \in ImportTasks, NEW restored \in BOOLEAN, StopAtGate(x, restored) PROVE ImportInv'
<1>1. (ImportTypeOK /\ append \in AppendSet)'
  BY TaskPair, ImporterAssumption, OneLessIs, TasksFinite DEF ImportInv, ImportTypeOK, Statuses,
     Terminal, AppendSet, NoAppend, Available, Used, Members, StopAtGate, Observed, Return,
     runVars, stopVars
<1>2. RunSound'
  BY DEF ImportInv, RunSound, StartHeld, NoFutures, NoWatch, StopAtGate, Observed, Return,
     runVars, stopVars
<1>3. ASSUME NEW b \in Batches PROVE BatchSound(b)'
  BY DEF ImportInv, BatchSound, StopAtGate, Observed, Return, runVars, stopVars
<1>4. ASSUME NEW t \in ImportTasks PROVE TaskSound(t)'
  BY DEF ImportInv, TaskSound, ImportTypeOK, Working, StopAtGate, Observed, Return, runVars,
     stopVars
<1>5. ASSUME NEW t \in ImportTasks PROVE BoxHeld(t)'
  BY TaskPair DEF ImportInv, BoxHeld, ImportTypeOK, Working, TaskSound, StopAtGate, Observed,
     Return, runVars, stopVars
<1>6. ASSUME NEW t \in ImportTasks PROVE ReportSound(t)'
  BY DEF ImportInv, ReportSound, StopAtGate, Observed, Return, runVars, stopVars
<1>7. ASSUME NEW m \in Mailboxes PROVE BoxSound(m)'
  BY TaskPair, ImporterAssumption DEF ImportInv, BoxSound, Answered, RunSound, StartHeld,
     NoWatch, NoFutures, ImportTypeOK, TaskSound, BatchSound, BoxHeld, Terminal, Working,
     Available, Used, StopAtGate, Observed, Return, runVars, stopVars
<1>8. (gatePending = Cardinality(Awaiting))'
  <2>1. x \in Awaiting /\ Awaiting' = Awaiting \ {x}
    BY DEF ImportInv, ImportTypeOK, StopAtGate, Awaiting
  <2>2. gatePending' = OneLess(gatePending)
    BY DEF StopAtGate
  <2> QED BY <2>1, <2>2, AwaitingIs
<1> QED BY <1>1, <1>2, <1>3, <1>4, <1>5, <1>6, <1>7, <1>8 DEF ImportInv

\* SaveResult: a success uses the box up; no other task, return or append has it.
LEMMA SaveResultKeeps ==
  ASSUME ImportInv, NEW x \in ImportTasks, NEW outcome \in Terminal, SaveResult(x, outcome) PROVE ImportInv'
<1>1. (ImportTypeOK /\ append \in AppendSet)'
  BY DEF ImportInv, ImportTypeOK, SaveResult, runVars, taskVars, stopVars, ghostVars
<1>2. RunSound'
  BY DEF ImportInv, RunSound, StartHeld, NoFutures, NoWatch, ImportTypeOK, SaveResult, runVars,
     taskVars, stopVars, ghostVars
<1>3. ASSUME NEW b \in Batches PROVE BatchSound(b)'
  BY DEF ImportInv, BatchSound, SaveResult, runVars, taskVars, stopVars, ghostVars
<1>4. ASSUME NEW t \in ImportTasks PROVE TaskSound(t)'
  BY DEF ImportInv, TaskSound, SaveResult, runVars, taskVars, stopVars, ghostVars
<1>5. ASSUME NEW t \in ImportTasks PROVE BoxHeld(t)'
  BY TaskPair DEF ImportInv, BoxHeld, ImportTypeOK, Working, TaskSound, SaveResult, runVars,
     taskVars, stopVars, ghostVars
<1>6. ASSUME NEW t \in ImportTasks PROVE ReportSound(t)'
  BY DEF ImportInv, ReportSound, SaveResult, runVars, taskVars, stopVars, ghostVars
<1>7. ASSUME NEW m \in Mailboxes PROVE BoxSound(m)'
  BY TaskPair, ImporterAssumption DEF ImportInv, BoxSound, Answered, RunSound, StartHeld,
     NoWatch, NoFutures, ImportTypeOK, TaskSound, BatchSound, BoxHeld, Terminal, Working,
     Available, Used, SaveResult, runVars, taskVars, stopVars, ghostVars
<1>8. (gatePending = Cardinality(Awaiting))'
  BY DEF ImportInv, Awaiting, SaveResult, runVars, taskVars, stopVars, ghostVars
<1> QED BY <1>1, <1>2, <1>3, <1>4, <1>5, <1>6, <1>7, <1>8 DEF ImportInv

\* RecordResult: the manifest is still active, so only the member's status changes.
LEMMA RecordResultKeeps ==
  ASSUME ImportInv, NEW x \in ImportTasks, RecordResult(x) PROVE ImportInv'
<1>1. (ImportTypeOK /\ append \in AppendSet)'
  BY DEF ImportInv, ImportTypeOK, Statuses, Terminal, RecordResult, runVars, taskVars, stopVars,
     ghostVars
<1>2. RunSound'
  BY DEF ImportInv, RunSound, StartHeld, NoFutures, NoWatch, RecordResult, runVars, taskVars,
     stopVars, ghostVars
<1>3. ASSUME NEW b \in Batches PROVE BatchSound(b)'
  BY DEF ImportInv, BatchSound, TaskSound, ImportTypeOK, Terminal, RecordResult, runVars,
     taskVars, stopVars, ghostVars
<1>4. ASSUME NEW t \in ImportTasks PROVE TaskSound(t)'
  BY DEF ImportInv, TaskSound, RecordResult, runVars, taskVars, stopVars, ghostVars
<1>5. ASSUME NEW t \in ImportTasks PROVE BoxHeld(t)'
  BY TaskPair DEF ImportInv, BoxHeld, ImportTypeOK, Working, TaskSound, RecordResult, runVars,
     taskVars, stopVars, ghostVars
<1>6. ASSUME NEW t \in ImportTasks PROVE ReportSound(t)'
  BY DEF ImportInv, ReportSound, TaskSound, Terminal, BatchSound, ImportTypeOK, RecordResult,
     runVars, taskVars, stopVars, ghostVars
<1>7. ASSUME NEW m \in Mailboxes PROVE BoxSound(m)'
  BY TaskPair DEF ImportInv, BoxSound, Answered, ImportTypeOK, TaskSound, Working, RecordResult,
     runVars, taskVars, stopVars, ghostVars
<1>8. (gatePending = Cardinality(Awaiting))'
  BY DEF ImportInv, Awaiting, RecordResult, runVars, taskVars, stopVars, ghostVars
<1> QED BY <1>1, <1>2, <1>3, <1>4, <1>5, <1>6, <1>7, <1>8 DEF ImportInv

\* EndTask: the worker gives its own box back, or uses it up.
LEMMA EndTaskKeeps ==
  ASSUME ImportInv, NEW x \in ImportTasks, NEW outcome \in Terminal, EndTask(x, outcome) PROVE ImportInv'
<1>1. (ImportTypeOK /\ append \in AppendSet)'
  BY DEF ImportInv, ImportTypeOK, Statuses, Terminal, EndTask, Observed, Return, runVars,
     stopVars, ghostVars
<1>2. RunSound'
  BY DEF ImportInv, RunSound, StartHeld, NoFutures, NoWatch, EndTask, Observed, Return, runVars,
     stopVars, ghostVars
<1>3. ASSUME NEW b \in Batches PROVE BatchSound(b)'
  BY DEF ImportInv, BatchSound, EndTask, Observed, Return, runVars, stopVars, ghostVars
<1>4. ASSUME NEW t \in ImportTasks PROVE TaskSound(t)'
  BY DEF ImportInv, TaskSound, ImportTypeOK, Working, Terminal, EndTask, Observed, Return,
     runVars, stopVars, ghostVars
<1>5. ASSUME NEW t \in ImportTasks PROVE BoxHeld(t)'
  BY TaskPair DEF ImportInv, BoxHeld, ImportTypeOK, Working, TaskSound, EndTask, Observed,
     Return, runVars, stopVars, ghostVars
<1>6. ASSUME NEW t \in ImportTasks PROVE ReportSound(t)'
  BY DEF ImportInv, ReportSound, Terminal, EndTask, Observed, Return, runVars, stopVars,
     ghostVars
<1>7. ASSUME NEW m \in Mailboxes PROVE BoxSound(m)'
  BY TaskPair, ImporterAssumption DEF ImportInv, BoxSound, Answered, RunSound, StartHeld,
     NoWatch, NoFutures, ImportTypeOK, TaskSound, BatchSound, BoxHeld, Terminal, Working,
     Available, Used, EndTask, Observed, Return, runVars, stopVars, ghostVars
<1>8. (gatePending = Cardinality(Awaiting))'
  <2>1. Awaiting' = Awaiting
    BY DEF ImportInv, ImportTypeOK, EndTask, Awaiting
  <2>2. gatePending' = gatePending
    BY DEF EndTask
  <2> QED BY <2>1, <2>2 DEF ImportInv
<1> QED BY <1>1, <1>2, <1>3, <1>4, <1>5, <1>6, <1>7, <1>8 DEF ImportInv

\* SignalStop: the flag and the gate only.
LEMMA SignalStopKeeps ==
  ASSUME ImportInv, SignalStop PROVE ImportInv'
<1>1. (ImportTypeOK /\ append \in AppendSet)'
  BY ImporterAssumption DEF ImportInv, ImportTypeOK, RunSound, AppendSet, NoAppend, Statuses,
     Terminal, LockFree, SignalStop, fileVars, runVars, taskVars, ghostVars
<1>2. RunSound'
  BY DEF ImportInv, RunSound, StartHeld, NoFutures, NoWatch, SignalStop, fileVars, runVars,
     taskVars, ghostVars
<1>3. ASSUME NEW b \in Batches PROVE BatchSound(b)'
  BY DEF ImportInv, BatchSound, SignalStop, fileVars, runVars, taskVars, ghostVars
<1>4. ASSUME NEW t \in ImportTasks PROVE TaskSound(t)'
  BY DEF ImportInv, TaskSound, SignalStop, fileVars, runVars, taskVars, ghostVars
<1>5. ASSUME NEW t \in ImportTasks PROVE BoxHeld(t)'
  BY DEF ImportInv, BoxHeld, SignalStop, fileVars, runVars, taskVars, ghostVars
<1>6. ASSUME NEW t \in ImportTasks PROVE ReportSound(t)'
  BY DEF ImportInv, ReportSound, SignalStop, fileVars, runVars, taskVars, ghostVars
<1>7. ASSUME NEW m \in Mailboxes PROVE BoxSound(m)'
  BY DEF ImportInv, BoxSound, Answered, SignalStop, fileVars, runVars, taskVars, ghostVars
<1>8. (gatePending = Cardinality(Awaiting))'
  BY DEF ImportInv, Awaiting, SignalStop, fileVars, runVars, taskVars, ghostVars
<1> QED BY <1>1, <1>2, <1>3, <1>4, <1>5, <1>6, <1>7, <1>8 DEF ImportInv

\* TakeFutures: what is queued was assigned, so stop takes its assignment with it.
LEMMA TakeFuturesKeeps ==
  ASSUME ImportInv, TakeFutures PROVE ImportInv'
<1>1. (ImportTypeOK /\ append \in AppendSet)'
  BY DEF ImportInv, ImportTypeOK, TakeFutures, fileVars, runVars, ghostVars, LockFree
<1>2. RunSound'
  BY DEF ImportInv, RunSound, StartHeld, NoFutures, NoWatch, TakeFutures, fileVars, runVars,
     ghostVars, LockFree
<1>3. ASSUME NEW b \in Batches PROVE BatchSound(b)'
  BY DEF ImportInv, BatchSound, TakeFutures, fileVars, runVars, ghostVars, LockFree
<1>4. ASSUME NEW t \in ImportTasks PROVE TaskSound(t)'
  BY DEF ImportInv, TaskSound, ImportTypeOK, Working, RunSound, StartHeld, NoWatch, NoFutures,
     TakeFutures, fileVars, runVars, ghostVars, LockFree
<1>5. ASSUME NEW t \in ImportTasks PROVE BoxHeld(t)'
  BY DEF ImportInv, BoxHeld, TakeFutures, fileVars, runVars, ghostVars, LockFree
<1>6. ASSUME NEW t \in ImportTasks PROVE ReportSound(t)'
  BY DEF ImportInv, ReportSound, TakeFutures, fileVars, runVars, ghostVars, LockFree
<1>7. ASSUME NEW m \in Mailboxes PROVE BoxSound(m)'
  BY DEF ImportInv, BoxSound, Answered, TakeFutures, fileVars, runVars, ghostVars, LockFree
<1>8. (gatePending = Cardinality(Awaiting))'
  BY DEF ImportInv, Awaiting, TakeFutures, fileVars, runVars, ghostVars, LockFree
<1> QED BY <1>1, <1>2, <1>3, <1>4, <1>5, <1>6, <1>7, <1>8 DEF ImportInv

\* CancelFuture: a queued task becomes stop's to return, and leaves the gate.
LEMMA CancelFutureKeeps ==
  ASSUME ImportInv, NEW x \in ImportTasks, CancelFuture(x) PROVE ImportInv'
<1>1. (ImportTypeOK /\ append \in AppendSet)'
  BY OneLessIs DEF ImportInv, ImportTypeOK, Statuses, Terminal, CancelFuture, Discarded,
     fileVars, runVars, ghostVars
<1>2. RunSound'
  BY DEF ImportInv, RunSound, StartHeld, NoFutures, NoWatch, CancelFuture, Discarded, fileVars,
     runVars, ghostVars
<1>3. ASSUME NEW b \in Batches PROVE BatchSound(b)'
  BY DEF ImportInv, BatchSound, CancelFuture, Discarded, fileVars, runVars, ghostVars
<1>4. ASSUME NEW t \in ImportTasks PROVE TaskSound(t)'
  BY DEF ImportInv, TaskSound, ImportTypeOK, Working, CancelFuture, Discarded, fileVars,
     runVars, ghostVars
<1>5. ASSUME NEW t \in ImportTasks PROVE BoxHeld(t)'
  BY TaskPair DEF ImportInv, BoxHeld, ImportTypeOK, Working, TaskSound, RunSound, StartHeld,
     NoFutures, CancelFuture, Discarded, fileVars, runVars, ghostVars
<1>6. ASSUME NEW t \in ImportTasks PROVE ReportSound(t)'
  BY DEF ImportInv, ReportSound, CancelFuture, Discarded, fileVars, runVars, ghostVars
<1>7. ASSUME NEW m \in Mailboxes PROVE BoxSound(m)'
  BY TaskPair DEF ImportInv, BoxSound, Answered, ImportTypeOK, TaskSound, Working, CancelFuture,
     Discarded, fileVars, runVars, ghostVars
<1>8. (gatePending = Cardinality(Awaiting))'
  <2>1. CASE future[x] = "queued" /\ future' = [future EXCEPT ![x] = "cancelled"] /\ gatePending' = Discarded
    <3>1. x \in Awaiting /\ Awaiting' = Awaiting \ {x}
      BY <2>1 DEF ImportInv, ImportTypeOK, CancelFuture, Awaiting
    <3> QED BY <2>1, <3>1, AwaitingIs DEF Discarded
  <2>2. CASE UNCHANGED <<future, gatePending, toReturn>>
    BY <2>2 DEF ImportInv, CancelFuture, Awaiting
  <2> QED BY <2>1, <2>2 DEF CancelFuture
<1> QED BY <1>1, <1>2, <1>3, <1>4, <1>5, <1>6, <1>7, <1>8 DEF ImportInv

\* ReturnCancelled: the box returned or stranded was the cancelled task's, and only its.
LEMMA ReturnCancelledKeeps ==
  ASSUME ImportInv, NEW x \in ImportTasks, NEW restored \in BOOLEAN, ReturnCancelled(x, restored) PROVE ImportInv'
<1>1. (ImportTypeOK /\ append \in AppendSet)'
  BY TaskPair, ImporterAssumption, OneLessIs, TasksFinite DEF ImportInv, ImportTypeOK, Statuses,
     Terminal, AppendSet, NoAppend, Available, Used, Members, ReturnCancelled, Observed, Return,
     runVars
<1>2. RunSound'
  BY DEF ImportInv, RunSound, StartHeld, NoFutures, NoWatch, ReturnCancelled, Observed, Return,
     runVars
<1>3. ASSUME NEW b \in Batches PROVE BatchSound(b)'
  BY DEF ImportInv, BatchSound, ReturnCancelled, Observed, Return, runVars
<1>4. ASSUME NEW t \in ImportTasks PROVE TaskSound(t)'
  BY DEF ImportInv, TaskSound, ReturnCancelled, Observed, Return, runVars
<1>5. ASSUME NEW t \in ImportTasks PROVE BoxHeld(t)'
  BY TaskPair DEF ImportInv, BoxHeld, ImportTypeOK, Working, TaskSound, ReturnCancelled,
     Observed, Return, runVars
<1>6. ASSUME NEW t \in ImportTasks PROVE ReportSound(t)'
  BY DEF ImportInv, ReportSound, ReturnCancelled, Observed, Return, runVars
<1>7. ASSUME NEW m \in Mailboxes PROVE BoxSound(m)'
  <2>1. /\ x \in toReturn /\ toReturn' = toReturn \ {x} /\ mailbox[BoxOf(x)] = BatchOf(x)
        /\ append.at = "leased" /\ BoxOf(x) \in append.boxes => append.batch # BatchOf(x)
        /\ batchNo \in Nat /\ BatchOf(x) \in Batches /\ BatchOf(x) <= batchNo
        /\ future[x] \notin Working
    <3>1. x \in toReturn /\ toReturn' = toReturn \ {x} /\ batchNo \in Nat /\ BatchOf(x) \in Batches
      BY TaskPair DEF ImportInv, ImportTypeOK, ReturnCancelled
    <3>2. TaskSound(x) /\ BoxHeld(x)
      BY DEF ImportInv
    <3>3. BatchOf(x) < batchNo \/ future[x] = "cancelled"
      BY <3>1, <3>2 DEF TaskSound
    <3>4. BatchOf(x) <= batchNo /\ future[x] \notin Working
      BY <3>1, <3>2, <3>3, TaskPair DEF TaskSound, Working
    <3>5. /\ mailbox[BoxOf(x)] = BatchOf(x)
          /\ append.at = "leased" /\ BoxOf(x) \in append.boxes => append.batch # BatchOf(x)
      BY <3>1, <3>2, <3>4 DEF BoxHeld, Working
    <3> QED BY <3>1, <3>4, <3>5
  <2>2. UNCHANGED <<manifest, processUp, batchNo, startPhase, future, append>>
    BY DEF ReturnCancelled, runVars
  <2>3. /\ mailbox'[m] = IF restored /\ m = BoxOf(x) THEN Available ELSE mailbox[m]
        /\ stranded' = IF restored THEN stranded ELSE stranded \cup {BoxOf(x)}
        /\ \A t \in ImportTasks : member'[t] = "none" <=> member[t] = "none"
    BY DEF ImportInv, ImportTypeOK, ReturnCancelled, Return, Observed, Terminal
  <2>4. ASSUME NEW b \in Batches, mailbox'[m] = b PROVE mailbox[m] = b /\ (restored => m # BoxOf(x))
    BY <2>3, <2>4, TaskPair
  <2>5. ASSUME NEW b \in Batches, mailbox'[m] = b PROVE b <= batchNo
    BY <2>4, <2>5, Zenon DEF ImportInv, BoxSound
  <2>6. ASSUME NEW b \in Batches, mailbox'[m] = b PROVE Answered(m, b, <<b, m>>)
    BY <2>4, <2>6, Zenon DEF ImportInv, BoxSound
  <2>7. ASSUME NEW b \in Batches, mailbox'[m] = b PROVE Answered(m, b, <<b, m>>)'
    <3>1. CASE <<b, m>> = x
      <4>1. m = BoxOf(x)
        BY <3>1, TaskPair
      <4> QED BY <4>1, <2>3, <2>4, <2>7 DEF Answered
    <3>2. CASE <<b, m>> # x
      BY <3>2, <2>1, <2>2, <2>3, <2>6, <2>7, TaskPair DEF Answered
    <3> QED BY <3>1, <3>2
  <2>8. append.at = "leased" /\ m \in append.boxes => mailbox'[m] = append.batch \/ append.batch < batchNo
    <3>1. append.at = "leased" /\ m \in append.boxes => mailbox[m] = append.batch \/ append.batch < batchNo
      BY Zenon DEF ImportInv, BoxSound
    <3> QED BY <3>1, <2>1, <2>3
  <2>9. startPhase = "prepared" => mailbox'[m] # batchNo
    <3>1. startPhase = "prepared" => mailbox[m] # batchNo /\ batchNo > 0
      BY DEF ImportInv, BoxSound, RunSound, StartHeld
    <3> QED BY <3>1, <2>1, <2>3 DEF Available
  <2>10. startPhase \in {"leased", "committed"} => (mailbox'[m] = batchNo <=> member'[<<batchNo, m>>] # "none")
    <3> SUFFICES ASSUME startPhase \in {"leased", "committed"}
                 PROVE  mailbox'[m] = batchNo <=> member'[<<batchNo, m>>] # "none"
      OBVIOUS
    <3>1. mailbox[m] = batchNo <=> member[<<batchNo, m>>] # "none"
      BY Zenon DEF ImportInv, BoxSound
    <3>2. batchNo > 0 /\ NoFutures
      BY DEF ImportInv, RunSound, StartHeld
    <3>3. BatchOf(x) # batchNo
      BY <2>1, <3>2, TaskPair DEF ImportInv, TaskSound, NoFutures
    <3>4. batchNo \in Batches /\ Available # batchNo
      BY <3>2, ImporterAssumption DEF ImportInv, ImportTypeOK, Batches, Available
    <3> QED BY <3>1, <3>3, <3>4, <2>1, <2>3, TaskPair
  <2> QED BY <2>2, <2>5, <2>7, <2>8, <2>9, <2>10 DEF BoxSound
<1>8. (gatePending = Cardinality(Awaiting))'
  BY DEF ImportInv, Awaiting, ReturnCancelled, Observed, Return, runVars
<1> QED BY <1>1, <1>2, <1>3, <1>4, <1>5, <1>6, <1>7, <1>8 DEF ImportInv

\* StopReturns: nothing is left to cancel.
LEMMA StopReturnsKeeps ==
  ASSUME ImportInv, StopReturns PROVE ImportInv'
<1>1. (ImportTypeOK /\ append \in AppendSet)'
  BY DEF ImportInv, ImportTypeOK, StopReturns, fileVars, runVars, taskVars, ghostVars
<1>2. RunSound'
  BY DEF ImportInv, RunSound, StartHeld, NoFutures, NoWatch, StopReturns, fileVars, runVars,
     taskVars, ghostVars
<1>3. ASSUME NEW b \in Batches PROVE BatchSound(b)'
  BY DEF ImportInv, BatchSound, StopReturns, fileVars, runVars, taskVars, ghostVars
<1>4. ASSUME NEW t \in ImportTasks PROVE TaskSound(t)'
  BY DEF ImportInv, TaskSound, StopReturns, fileVars, runVars, taskVars, ghostVars
<1>5. ASSUME NEW t \in ImportTasks PROVE BoxHeld(t)'
  BY DEF ImportInv, BoxHeld, StopReturns, fileVars, runVars, taskVars, ghostVars
<1>6. ASSUME NEW t \in ImportTasks PROVE ReportSound(t)'
  BY DEF ImportInv, ReportSound, StopReturns, fileVars, runVars, taskVars, ghostVars
<1>7. ASSUME NEW m \in Mailboxes PROVE BoxSound(m)'
  BY DEF ImportInv, BoxSound, Answered, StopReturns, fileVars, runVars, taskVars, ghostVars
<1>8. (gatePending = Cardinality(Awaiting))'
  BY DEF ImportInv, Awaiting, StopReturns, fileVars, runVars, taskVars, ghostVars
<1> QED BY <1>1, <1>2, <1>3, <1>4, <1>5, <1>6, <1>7, <1>8 DEF ImportInv

\* WatcherCloses: every future is over, so no task needs the batch to stay open.
LEMMA WatcherClosesKeeps ==
  ASSUME ImportInv, NEW c \in Batches, WatcherCloses(c) PROVE ImportInv'
<1>1. (ImportTypeOK /\ append \in AppendSet)'
  BY DEF ImportInv, ImportTypeOK, WatcherCloses, Over, fileVars, taskVars, stopVars, ghostVars,
     LockFree
<1>2. RunSound'
  BY DEF ImportInv, RunSound, StartHeld, NoFutures, NoWatch, WatcherCloses, Over, fileVars,
     taskVars, stopVars, ghostVars, LockFree
<1>3. ASSUME NEW b \in Batches PROVE BatchSound(b)'
  BY DEF ImportInv, BatchSound, WatcherCloses, Over, fileVars, taskVars, stopVars, ghostVars,
     LockFree
<1>4. ASSUME NEW t \in ImportTasks PROVE TaskSound(t)'
  BY DEF ImportInv, TaskSound, ImportTypeOK, Working, WatcherCloses, Over, fileVars, taskVars,
     stopVars, ghostVars, LockFree
<1>5. ASSUME NEW t \in ImportTasks PROVE BoxHeld(t)'
  BY DEF ImportInv, BoxHeld, WatcherCloses, Over, fileVars, taskVars, stopVars, ghostVars,
     LockFree
<1>6. ASSUME NEW t \in ImportTasks PROVE ReportSound(t)'
  BY DEF ImportInv, ReportSound, WatcherCloses, Over, fileVars, taskVars, stopVars, ghostVars,
     LockFree
<1>7. ASSUME NEW m \in Mailboxes PROVE BoxSound(m)'
  BY DEF ImportInv, BoxSound, Answered, WatcherCloses, Over, fileVars, taskVars, stopVars,
     ghostVars, LockFree
<1>8. (gatePending = Cardinality(Awaiting))'
  BY DEF ImportInv, Awaiting, WatcherCloses, Over, fileVars, taskVars, stopVars, ghostVars,
     LockFree
<1> QED BY <1>1, <1>2, <1>3, <1>4, <1>5, <1>6, <1>7, <1>8 DEF ImportInv

\* WatchReturns: the run is over for the operator; its tasks are over already.
LEMMA WatchReturnsKeeps ==
  ASSUME ImportInv, NEW c \in Batches, WatchReturns(c) PROVE ImportInv'
<1>1. (ImportTypeOK /\ append \in AppendSet)'
  BY DEF ImportInv, ImportTypeOK, WatchReturns, fileVars, stopVars, ghostVars, LockFree
<1>2. RunSound'
  BY DEF ImportInv, RunSound, StartHeld, NoFutures, NoWatch, WatchReturns, fileVars, stopVars,
     ghostVars, LockFree
<1>3. ASSUME NEW b \in Batches PROVE BatchSound(b)'
  BY DEF ImportInv, BatchSound, WatchReturns, fileVars, stopVars, ghostVars, LockFree
<1>4. ASSUME NEW t \in ImportTasks PROVE TaskSound(t)'
  BY TaskPair, ImporterAssumption DEF ImportInv, TaskSound, RunSound, StartHeld, NoWatch,
     NoFutures, ImportTypeOK, BatchSound, Terminal, Working, WatchReturns, fileVars, stopVars,
     ghostVars, LockFree
<1>5. ASSUME NEW t \in ImportTasks PROVE BoxHeld(t)'
  BY DEF ImportInv, BoxHeld, WatchReturns, fileVars, stopVars, ghostVars, LockFree
<1>6. ASSUME NEW t \in ImportTasks PROVE ReportSound(t)'
  BY DEF ImportInv, ReportSound, WatchReturns, fileVars, stopVars, ghostVars, LockFree
<1>7. ASSUME NEW m \in Mailboxes PROVE BoxSound(m)'
  BY DEF ImportInv, BoxSound, Answered, WatchReturns, fileVars, stopVars, ghostVars, LockFree
<1>8. (gatePending = Cardinality(Awaiting))'
  BY DEF ImportInv, Awaiting, WatchReturns, fileVars, stopVars, ghostVars, LockFree
<1> QED BY <1>1, <1>2, <1>3, <1>4, <1>5, <1>6, <1>7, <1>8 DEF ImportInv

\* FinishBatch: the batch watched is closed; nobody of it is at work.
LEMMA FinishBatchKeeps ==
  ASSUME ImportInv, NEW c \in Batches, FinishBatch(c) PROVE ImportInv'
<1>1. /\ processUp /\ processUp' /\ c = batchNo /\ manifest[c] = "active" /\ watcher[c] = "reconciling"
      /\ startPhase = "idle" /\ batchNo \in Nat
  BY DEF ImportInv, ImportTypeOK, RunSound, NoWatch, BatchSound, FinishBatch, LockFree, runVars
<1>2. UNCHANGED <<mailbox, batchNo, startPhase, importerRunning, accepting, stopEvent, gatePending,
                  runFutures, future, admitted, assigned, stopPhase, stopList, stopTaken, toReturn,
                  append, crashes, stranded>>
  BY DEF FinishBatch, runVars, stopVars, ghostVars
<1>3. /\ \A b \in Batches : manifest'[b] = IF b = c THEN "complete" ELSE manifest[b]
      /\ \A t \in ImportTasks : t \in Members(c) =>
            member'[t] \in Terminal /\ file'[t] = member'[t]
      /\ \A t \in ImportTasks : t \notin Members(c) => member'[t] = member[t] /\ file'[t] = file[t]
      /\ runGate' = 0
      /\ manifest' \in [Batches -> {"none", "preparing", "active", "complete"}]
      /\ member' \in [ImportTasks -> Statuses]
      /\ file' \in [ImportTasks -> Terminal \cup {"none"}]
      /\ persisted' \subseteq ImportTasks
  BY <1>1, ReconcileIs DEF ImportInv, FinishBatch
<1>4. \A b \in Batches : watcher'[b] = IF b = c THEN "done" ELSE watcher[b]
  BY DEF ImportInv, ImportTypeOK, FinishBatch
<1>5. \A t \in ImportTasks : /\ t \in Members(c) <=> BatchOf(t) = c /\ member[t] # "none"
                             /\ member[t] = "none" <=> member'[t] = "none"
  <2>1. \A t \in ImportTasks : t \in Members(c) <=> BatchOf(t) = c /\ member[t] # "none"
    BY DEF Members
  <2> QED BY <2>1, <1>3 DEF Terminal
<1>6. \A t \in ImportTasks : future[t] \notin Working
  <2> SUFFICES ASSUME NEW t \in ImportTasks PROVE future[t] \notin Working
    OBVIOUS
  <2> QED BY <1>1 DEF ImportInv, TaskSound, Working
<1>7. (ImportTypeOK /\ append \in AppendSet)'
  <2>1. watcher' \in [Batches -> {"none", "draining", "watching", "reconciling", "done"}]
    BY DEF ImportInv, ImportTypeOK, FinishBatch
  <2>2. taskRow' \in [ImportTasks -> Statuses]
    BY DEF ImportInv, ImportTypeOK, FinishBatch, Statuses, Terminal
  <2>3. runGate' \in 0..MaxBatches
    BY <1>3, ImporterAssumption
  <2>4. processUp' \in BOOLEAN
    BY DEF ImportInv, ImportTypeOK, FinishBatch, runVars
  <2> QED BY <1>2, <1>3, <2>1, <2>2, <2>3, <2>4 DEF ImportInv, ImportTypeOK
<1>8. RunSound'
  <2>1. /\ startPhase' = "idle" /\ ~StartHeld' /\ (importerRunning' => batchNo' > 0)
        /\ append'.at # "idle" => append'.batch > 0 /\ append'.batch <= batchNo'
        /\ stopPhase' # "cancelling" => stopList' = {} /\ toReturn' = {}
    BY <1>1, <1>2 DEF ImportInv, RunSound, StartHeld
  <2>2. ~accepting'
    BY <1>1, <1>2 DEF ImportInv, RunSound, StartHeld
  <2> QED BY <1>1, <2>1, <2>2 DEF RunSound
<1>9. ASSUME NEW b \in Batches PROVE BatchSound(b)'
  BY <1>1, <1>2, <1>3, <1>4, <1>5 DEF ImportInv, BatchSound
<1>10. ASSUME NEW t \in ImportTasks PROVE TaskSound(t)'
  BY <1>2, <1>5, <1>6 DEF ImportInv, TaskSound
<1>11. ASSUME NEW t \in ImportTasks PROVE BoxHeld(t)'
  BY <1>1, <1>2 DEF ImportInv, BoxHeld
<1>12. ASSUME NEW t \in ImportTasks PROVE ReportSound(t)'
  BY <1>3, <1>5, TaskPair DEF ImportInv, ReportSound
<1>13. ASSUME NEW m \in Mailboxes PROVE BoxSound(m)'
  <2>1. ASSUME NEW b \in Batches, mailbox[m] = b PROVE b <= batchNo
    BY <2>1, Zenon DEF ImportInv, BoxSound
  <2>2. ASSUME NEW b \in Batches, mailbox[m] = b PROVE Answered(m, b, <<b, m>>)
    BY <2>2, Zenon DEF ImportInv, BoxSound
  <2>3. ASSUME NEW b \in Batches, mailbox[m] = b PROVE Answered(m, b, <<b, m>>)'
    BY <2>2, <2>3, <1>1, <1>2, <1>3, <1>5, <1>6, TaskPair DEF Answered
  <2>4. append.at = "leased" /\ m \in append.boxes => mailbox[m] = append.batch \/ append.batch < batchNo
    BY Zenon DEF ImportInv, BoxSound
  <2> QED BY <2>1, <2>3, <2>4, <1>1, <1>2 DEF BoxSound
<1>14. (gatePending = Cardinality(Awaiting))'
  BY <1>2 DEF ImportInv, Awaiting
<1> QED BY <1>7, <1>8, <1>9, <1>10, <1>11, <1>12, <1>13, <1>14 DEF ImportInv

\* ReadForAppend: the batch read is the current one.
LEMMA ReadForAppendKeeps ==
  ASSUME ImportInv, NEW boxes \in SUBSET Mailboxes, ReadForAppend(boxes) PROVE ImportInv'
<1>1. (ImportTypeOK /\ append \in AppendSet)'
  BY ImporterAssumption DEF ImportInv, ImportTypeOK, RunSound, AppendSet, NoAppend, Statuses,
     Terminal, LockFree, ReadForAppend, fileVars, runVars, taskVars, stopVars, ghostVars, Now
<1>2. RunSound'
  BY DEF ImportInv, RunSound, StartHeld, NoFutures, NoWatch, ImportTypeOK, ReadForAppend,
     fileVars, runVars, taskVars, stopVars, ghostVars, Now, LockFree
<1>3. ASSUME NEW b \in Batches PROVE BatchSound(b)'
  BY DEF ImportInv, BatchSound, ReadForAppend, fileVars, runVars, taskVars, stopVars, ghostVars,
     Now, LockFree
<1>4. ASSUME NEW t \in ImportTasks PROVE TaskSound(t)'
  BY DEF ImportInv, TaskSound, ReadForAppend, fileVars, runVars, taskVars, stopVars, ghostVars,
     Now, LockFree
<1>5. ASSUME NEW t \in ImportTasks PROVE BoxHeld(t)'
  BY DEF ImportInv, BoxHeld, ReadForAppend, fileVars, runVars, taskVars, stopVars, ghostVars,
     Now, LockFree
<1>6. ASSUME NEW t \in ImportTasks PROVE ReportSound(t)'
  BY DEF ImportInv, ReportSound, ReadForAppend, fileVars, runVars, taskVars, stopVars,
     ghostVars, Now, LockFree
<1>7. ASSUME NEW m \in Mailboxes PROVE BoxSound(m)'
  BY DEF ImportInv, BoxSound, Answered, ReadForAppend, fileVars, runVars, taskVars, stopVars,
     ghostVars, Now, LockFree
<1>8. (gatePending = Cardinality(Awaiting))'
  BY DEF ImportInv, Awaiting, ReadForAppend, fileVars, runVars, taskVars, stopVars, ghostVars,
     Now, LockFree
<1> QED BY <1>1, <1>2, <1>3, <1>4, <1>5, <1>6, <1>7, <1>8 DEF ImportInv

\* LeaseForAppend: only free boxes are taken, so none of a task at work.
LEMMA LeaseForAppendKeeps ==
  ASSUME ImportInv, LeaseForAppend PROVE ImportInv'
<1>1. /\ processUp /\ processUp' /\ append.at = "read" /\ append.batch > 0 /\ append.batch <= batchNo
      /\ append.batch \in Batches /\ batchNo \in Nat /\ append.boxes \subseteq Mailboxes
      /\ StartHeld => append.batch < batchNo
  BY TaskPair, ImporterAssumption DEF ImportInv, ImportTypeOK, RunSound, AppendSet, Batches, LeaseForAppend, runVars
<1>2. UNCHANGED <<manifest, member, persisted, file, processUp, batchNo, startPhase, importerRunning,
                  stopEvent, accepting, runGate, gatePending, runFutures, future, admitted, assigned,
                  taskRow, stopPhase, stopList, stopTaken, toReturn, watcher, crashes, stranded>>
  BY DEF LeaseForAppend, runVars, taskVars, stopVars, ghostVars
<1>3. /\ \A m \in Mailboxes : \/ mailbox'[m] = mailbox[m]
                              \/ m \in append.boxes /\ mailbox[m] = Available /\ mailbox'[m] = append.batch
      /\ mailbox' \in [Mailboxes -> Batches \cup {Available, Used}]
      /\ \/ append' = NoAppend /\ mailbox' = mailbox
         \/ /\ append' = [append EXCEPT !.at = "leased"]
            /\ \A m \in append.boxes : mailbox[m] = Available /\ mailbox'[m] = append.batch
  <2>1. CASE AllFree(append.boxes)
    BY <2>1, <1>1 DEF ImportInv, ImportTypeOK, LeaseForAppend, AllFree
  <2>2. CASE ~AllFree(append.boxes)
    <3>1. mailbox' = [m \in Mailboxes |-> mailbox[m]] /\ append' = NoAppend
      BY <2>2 DEF LeaseForAppend
    <3>2. mailbox' = mailbox
      BY <3>1 DEF ImportInv, ImportTypeOK
    <3> QED BY <3>1, <3>2 DEF ImportInv, ImportTypeOK
  <2> QED BY <2>1, <2>2
<1>4. /\ append' \in AppendSet
      /\ append'.at # "idle" => /\ append'.at = "leased" /\ append'.batch = append.batch
                                /\ append'.boxes = append.boxes
                                /\ \A m \in append.boxes : mailbox[m] = Available /\ mailbox'[m] = append.batch
      /\ append'.at = "idle" => mailbox' = mailbox
  BY <1>1, <1>3, ImporterAssumption DEF ImportInv, AppendSet, NoAppend
<1>5. (ImportTypeOK /\ append \in AppendSet)'
  <2>1. /\ append'.at \in {"idle", "read", "leased"} /\ append'.batch \in 0..MaxBatches
        /\ append'.boxes \subseteq Mailboxes
    BY <1>4 DEF AppendSet
  <2> QED BY <1>2, <1>3, <1>4, <2>1 DEF ImportInv, ImportTypeOK
<1>6. RunSound'
  <2>1. /\ append'.at # "idle" => append'.batch > 0 /\ append'.batch <= batchNo
        /\ StartHeld => (append'.at # "idle" => append'.batch < batchNo)
    BY <1>1, <1>4
  <2> QED BY <1>1, <1>2, <2>1 DEF ImportInv, RunSound, StartHeld, NoFutures, NoWatch
<1>7. ASSUME NEW b \in Batches PROVE BatchSound(b)'
  BY <1>2 DEF ImportInv, BatchSound
<1>8. ASSUME NEW t \in ImportTasks PROVE TaskSound(t)'
  BY <1>2 DEF ImportInv, TaskSound
<1>9. ASSUME NEW t \in ImportTasks PROVE BoxHeld(t)'
  <2>1. BoxHeld(t) /\ BatchOf(t) \in Batches /\ BoxOf(t) \in Mailboxes
    BY TaskPair DEF ImportInv
  <2>2. future[t] \in Working \/ t \in toReturn => mailbox[BoxOf(t)] # Available
    BY <2>1, TaskPair DEF BoxHeld
  <2>3. future[t] \in Working \/ t \in toReturn => mailbox'[BoxOf(t)] = mailbox[BoxOf(t)]
    BY <2>1, <2>2, <1>3
  <2>4. future[t] \in Working \/ t \in toReturn => ~(append'.at = "leased" /\ BoxOf(t) \in append'.boxes)
    BY <2>2, <1>4
  <2> QED BY <1>2, <2>1, <2>3, <2>4 DEF BoxHeld
<1>10. ASSUME NEW t \in ImportTasks PROVE ReportSound(t)'
  BY <1>2 DEF ImportInv, ReportSound
<1>11. ASSUME NEW m \in Mailboxes PROVE BoxSound(m)'
  <2>1. CASE append'.at = "leased" /\ m \in append.boxes
    <3>1. /\ mailbox[m] = Available /\ mailbox'[m] = append.batch /\ append'.batch = append.batch
          /\ append'.boxes = append.boxes
      BY <2>1, <1>4
    <3>2. ASSUME NEW b \in Batches, mailbox'[m] = b PROVE b <= batchNo /\ Answered(m, b, <<b, m>>)'
      BY <2>1, <3>1, <3>2, <1>1 DEF Answered
    <3>3. startPhase \in {"leased", "committed"} =>
             (mailbox'[m] = batchNo <=> member[<<batchNo, m>>] # "none")
      <4> SUFFICES ASSUME startPhase \in {"leased", "committed"}
                   PROVE  mailbox'[m] # batchNo /\ member[<<batchNo, m>>] = "none"
        OBVIOUS
      <4>1. append.batch # batchNo
        BY <1>1, TaskPair DEF StartHeld
      <4>4. batchNo # 0
        BY DEF ImportInv, RunSound, StartHeld
      <4>2. mailbox[m] # batchNo
        BY <3>1, <4>4 DEF Available
      <4>3. mailbox[m] = batchNo <=> member[<<batchNo, m>>] # "none"
        BY Zenon DEF ImportInv, BoxSound
      <4> QED BY <3>1, <4>1, <4>2, <4>3
    <3>4. startPhase = "prepared" => mailbox'[m] # batchNo
      BY <3>1, <1>1 DEF StartHeld
    <3> QED BY <1>2, <3>1, <3>2, <3>3, <3>4 DEF BoxSound
  <2>2. CASE ~(append'.at = "leased" /\ m \in append.boxes)
    <3>1. mailbox'[m] = mailbox[m] /\ ~(append'.at = "leased" /\ m \in append'.boxes)
      BY <2>2, <1>3, <1>4
    <3>2. ASSUME NEW b \in Batches, mailbox[m] = b PROVE b <= batchNo
      BY <3>2, Zenon DEF ImportInv, BoxSound
    <3>3. ASSUME NEW b \in Batches, mailbox[m] = b PROVE Answered(m, b, <<b, m>>)
      BY <3>3, Zenon DEF ImportInv, BoxSound
    <3>4. ASSUME NEW b \in Batches, mailbox[m] = b PROVE Answered(m, b, <<b, m>>)'
      BY <3>3, <3>4, <1>1, <1>2 DEF Answered
    <3> QED BY <1>2, <3>1, <3>2, <3>4 DEF ImportInv, BoxSound
  <2> QED BY <2>1, <2>2
<1>12. (gatePending = Cardinality(Awaiting))'
  BY <1>2 DEF ImportInv, Awaiting
<1> QED BY <1>5, <1>6, <1>7, <1>8, <1>9, <1>10, <1>11, <1>12 DEF ImportInv

\* JoinBatch: the batch joined is the current one and still drained, and the boxes are
\* leased to it.
LEMMA JoinBatchKeeps ==
  ASSUME ImportInv, JoinBatch PROVE ImportInv'
<1>1. /\ processUp /\ processUp' /\ append.at = "leased" /\ append.boxes \subseteq Mailboxes
      /\ startPhase = "idle" /\ startPhase' = "idle" /\ append.batch = batchNo /\ batchNo \in Batches
      /\ watcher[batchNo] = "draining" /\ manifest[batchNo] = "active"
      /\ append' = NoAppend /\ append'.at = "idle"
  <2>1. /\ processUp /\ processUp' /\ append.at = "leased" /\ append.boxes \subseteq Mailboxes
        /\ append.batch \in Batches /\ manifest[append.batch] = "active" /\ accepting /\ ~StartHeld
        /\ append' = NoAppend /\ append'.at = "idle"
    BY TaskPair, ImporterAssumption DEF ImportInv, ImportTypeOK, RunSound, AppendSet, Batches, NoAppend,
       StartHeld, LockFree, JoinBatch, Joinable, runVars
  <2>2. append.batch = batchNo
    BY <2>1 DEF ImportInv, BatchSound
  <2>3. watcher[batchNo] = "draining"
    BY <2>1 DEF ImportInv, RunSound
  <2>4. startPhase = "idle" /\ startPhase' = "idle"
    BY <2>1, <2>2, <2>3 DEF ImportInv, RunSound, NoWatch, LockFree, JoinBatch, runVars
  <2> QED BY <2>1, <2>2, <2>3, <2>4
<1>2. UNCHANGED <<mailbox, manifest, persisted, file, processUp, batchNo, startPhase, importerRunning,
                  stopEvent, accepting, runGate, admitted, stopPhase, stopList, stopTaken, toReturn,
                  watcher, crashes, stranded>>
  BY DEF JoinBatch, runVars, stopVars, ghostVars
<1>3. /\ \A t \in ImportTasks : t \in Appended <=> BatchOf(t) = batchNo /\ BoxOf(t) \in append.boxes
      /\ Appended \subseteq ImportTasks
      /\ \A m \in append.boxes : <<batchNo, m>> \in Appended
  BY <1>1 DEF Appended, ImportTasks, BatchOf, BoxOf
<1>4. ASSUME NEW t \in Appended
      PROVE  /\ t \in ImportTasks /\ member[t] = "none" /\ future[t] = "none" /\ BatchOf(t) = batchNo
             /\ t \notin runFutures /\ t \notin stopList /\ t \notin toReturn /\ t \notin admitted
             /\ mailbox[BoxOf(t)] = BatchOf(t)
  <2>1. t \in ImportTasks /\ member[t] = "none" /\ BatchOf(t) = batchNo /\ BoxOf(t) \in append.boxes
    BY <1>3 DEF JoinBatch, Joinable
  <2>2. TaskSound(t)
    BY <2>1 DEF ImportInv
  <2>3. future[t] = "none" /\ t \notin runFutures /\ t \notin admitted /\ t \notin toReturn
    BY <2>1, <2>2 DEF TaskSound
  <2>4. t \notin stopList
    BY <2>1, <2>2, <2>3, <1>1, TaskPair DEF TaskSound
  <2>5. mailbox[BoxOf(t)] = append.batch \/ append.batch < batchNo
    BY <2>1, <1>1, Zenon DEF ImportInv, BoxSound
  <2>6. mailbox[BoxOf(t)] = batchNo
    BY <2>5, <1>1, TaskPair
  <2> QED BY <2>1, <2>3, <2>4, <2>6
<1>5. /\ \A t \in ImportTasks : member'[t] = IF t \in Appended THEN "queued" ELSE member[t]
      /\ \A t \in ImportTasks : future'[t] = IF t \in Appended THEN "queued" ELSE future[t]
      /\ runFutures' = runFutures \cup Appended /\ assigned' = assigned \cup Appended
      /\ gatePending' = gatePending + Cardinality(Appended)
  BY DEF JoinBatch, Entering
<1>6. IsFiniteSet(Appended) /\ Cardinality(Appended) \in Nat
  BY <1>3, TasksFinite
<1>7. (ImportTypeOK /\ append \in AppendSet)'
  <2>1. /\ append' \in AppendSet /\ append'.batch \in 0..MaxBatches /\ append'.boxes \subseteq Mailboxes
    BY <1>1, ImporterAssumption DEF AppendSet, NoAppend
  <2>2. (/\ member \in [ImportTasks -> Statuses] /\ taskRow \in [ImportTasks -> Statuses]
         /\ future \in [ImportTasks -> {"none", "queued", "running", "done", "cancelled"}])'
    BY DEF ImportInv, ImportTypeOK, JoinBatch, Entering, Statuses
  <2>3. runFutures' \subseteq ImportTasks /\ assigned' \subseteq ImportTasks
    BY <1>3, <1>5 DEF ImportInv, ImportTypeOK
  <2>4. gatePending' \in Nat
    BY <1>5, <1>6 DEF ImportInv, ImportTypeOK
  <2> QED BY <1>1, <1>2, <2>1, <2>2, <2>3, <2>4 DEF ImportInv, ImportTypeOK
<1>8. RunSound'
  <2>1. ~StartHeld' /\ watcher'[batchNo'] = "draining" /\ batchNo' > 0
    BY <1>1, <1>2, TaskPair DEF StartHeld
  <2>2. stopPhase' # "cancelling" => stopList' = {} /\ toReturn' = {}
    BY <1>2 DEF ImportInv, RunSound
  <2> QED BY <1>1, <2>1, <2>2 DEF RunSound
<1>9. ASSUME NEW b \in Batches PROVE BatchSound(b)'
  <2>1. ASSUME NEW t \in ImportTasks, BatchOf(t) = b, b > batchNo PROVE member'[t] = member[t]
    BY <2>1, <1>1, <1>3, <1>5, TaskPair
  <2> QED BY <2>1, <1>1, <1>2 DEF ImportInv, BatchSound
<1>10. ASSUME NEW t \in ImportTasks PROVE TaskSound(t)'
  <2>1. CASE t \in Appended
    BY <2>1, <1>1, <1>2, <1>4, <1>5 DEF TaskSound, Working
  <2>2. CASE t \notin Appended
    BY <2>2, <1>2, <1>5 DEF ImportInv, TaskSound
  <2> QED BY <2>1, <2>2
<1>11. ASSUME NEW t \in ImportTasks PROVE BoxHeld(t)'
  <2>1. CASE t \in Appended
    BY <2>1, <1>1, <1>2, <1>4, <1>5 DEF BoxHeld
  <2>2. CASE t \notin Appended
    BY <2>2, <1>1, <1>2, <1>5 DEF ImportInv, BoxHeld
  <2> QED BY <2>1, <2>2
<1>12. ASSUME NEW t \in ImportTasks PROVE ReportSound(t)'
  BY <1>1, <1>2, <1>3, <1>5 DEF ImportInv, ReportSound
<1>13. ASSUME NEW m \in Mailboxes PROVE BoxSound(m)'
  <2>1. ASSUME NEW b \in Batches, mailbox[m] = b PROVE b <= batchNo
    BY <2>1, Zenon DEF ImportInv, BoxSound
  <2>2. ASSUME NEW b \in Batches, mailbox[m] = b PROVE Answered(m, b, <<b, m>>)
    BY <2>2, Zenon DEF ImportInv, BoxSound
  <2>3. ASSUME NEW b \in Batches, mailbox[m] = b PROVE Answered(m, b, <<b, m>>)'
    <3>1. CASE m \in append.boxes /\ b = batchNo
      <4>1. <<b, m>> \in ImportTasks /\ <<b, m>> \in Appended
        BY <3>1, <1>3, TaskPair
      <4>2. future'[<<b, m>>] \in Working
        BY <4>1, <1>5 DEF Working
      <4> QED BY <4>2 DEF Answered
    <3>2. CASE ~(m \in append.boxes /\ b = batchNo)
      <4>1. <<b, m>> \in ImportTasks /\ <<b, m>> \notin Appended
        BY <3>2, <1>3, TaskPair
      <4> QED BY <3>2, <4>1, <2>2, <2>3, <1>1, <1>2, <1>5 DEF Answered
    <3> QED BY <3>1, <3>2
  <2> QED BY <2>1, <2>3, <1>1, <1>2 DEF BoxSound
<1>14. (gatePending = Cardinality(Awaiting))'
  <2>1. Awaiting' = Awaiting \cup Appended
    BY <1>2, <1>3, <1>4, <1>5 DEF Awaiting
  <2>2. Awaiting \cap Appended = {}
    BY <1>4 DEF Awaiting
  <2>3. IsFiniteSet(Awaiting) /\ Cardinality(Awaiting) \in Nat
    BY TasksFinite DEF Awaiting
  <2>4. Cardinality(Awaiting \cup Appended)
          = Cardinality(Awaiting) + Cardinality(Appended) - Cardinality(Awaiting \cap Appended)
    BY <2>3, <1>6, FS_Union
  <2>5. Cardinality(Awaiting \cap Appended) = 0
    BY <2>2, FS_EmptySet
  <2>6. Cardinality(Awaiting') = Cardinality(Awaiting) + Cardinality(Appended)
    BY <2>1, <2>3, <2>4, <2>5, <1>6
  <2> QED BY <2>6, <1>5 DEF ImportInv
<1> QED BY <1>7, <1>8, <1>9, <1>10, <1>11, <1>12, <1>13, <1>14 DEF ImportInv

\* RefuseAppend: only boxes nobody works on in the batch are withdrawn.
LEMMA RefuseAppendKeeps ==
  ASSUME ImportInv, RefuseAppend PROVE ImportInv'
<1>1. /\ processUp /\ processUp' /\ append.at = "leased" /\ append.batch \in Batches
      /\ append.boxes \subseteq Mailboxes /\ ~StartHeld
      /\ append' = NoAppend /\ append'.at = "idle"
  BY TaskPair, ImporterAssumption DEF ImportInv, ImportTypeOK, RunSound, AppendSet, Batches, NoAppend,
     StartHeld, LockFree, RefuseAppend, runVars
<1>2. UNCHANGED <<manifest, member, persisted, file, processUp, batchNo, startPhase, importerRunning,
                  stopEvent, accepting, runGate, gatePending, runFutures, future, admitted, assigned,
                  taskRow, stopPhase, stopList, stopTaken, toReturn, watcher, crashes>>
  BY DEF RefuseAppend, runVars, taskVars, stopVars
<1>3. /\ \A m \in Mailboxes :
            IF m \in append.boxes /\ mailbox[m] = append.batch
            THEN mailbox'[m] = Available \/ (mailbox'[m] = mailbox[m] /\ m \in stranded')
            ELSE mailbox'[m] = mailbox[m]
      /\ mailbox' \in [Mailboxes -> Batches \cup {Available, Used}]
      /\ stranded \subseteq stranded' /\ stranded' \subseteq Mailboxes
  <2>1. CASE Return(Withdrawn) /\ UNCHANGED stranded
    BY <1>1, <2>1 DEF ImportInv, ImportTypeOK, Return, Withdrawn
  <2>2. CASE UNCHANGED mailbox /\ stranded' = stranded \cup Withdrawn
    BY <1>1, <2>2 DEF ImportInv, ImportTypeOK, Withdrawn
  <2> QED BY <2>1, <2>2 DEF RefuseAppend
<1>4. (ImportTypeOK /\ append \in AppendSet)'
  <2>1. /\ append' \in AppendSet /\ append'.batch \in 0..MaxBatches /\ append'.boxes \subseteq Mailboxes
    BY <1>1, ImporterAssumption DEF AppendSet, NoAppend
  <2> QED BY <1>1, <1>2, <1>3, <2>1 DEF ImportInv, ImportTypeOK
<1>5. RunSound'
  BY <1>1, <1>2 DEF ImportInv, RunSound, StartHeld, NoWatch, NoFutures
<1>6. ASSUME NEW b \in Batches PROVE BatchSound(b)'
  BY <1>2 DEF ImportInv, BatchSound
<1>7. ASSUME NEW t \in ImportTasks PROVE TaskSound(t)'
  BY <1>2 DEF ImportInv, TaskSound
<1>8. ASSUME NEW t \in ImportTasks PROVE BoxHeld(t)'
  <2>1. BoxHeld(t) /\ BoxOf(t) \in Mailboxes
    BY TaskPair DEF ImportInv
  <2>2. future[t] \in Working \/ t \in toReturn => mailbox'[BoxOf(t)] = mailbox[BoxOf(t)]
    BY <2>1, <1>1, <1>3, TaskPair DEF BoxHeld
  <2> QED BY <1>1, <1>2, <2>1, <2>2 DEF BoxHeld, StartHeld
<1>9. ASSUME NEW t \in ImportTasks PROVE ReportSound(t)'
  BY <1>2 DEF ImportInv, ReportSound
<1>10. ASSUME NEW m \in Mailboxes PROVE BoxSound(m)'
  <2>1. ASSUME NEW b \in Batches, mailbox'[m] = b
        PROVE  mailbox[m] = b /\ (m \in append.boxes => append.batch # b \/ m \in stranded')
    BY <2>1, <1>3, TaskPair
  <2>2. ASSUME NEW b \in Batches, mailbox'[m] = b PROVE b <= batchNo
    BY <2>1, <2>2, Zenon DEF ImportInv, BoxSound
  <2>3. ASSUME NEW b \in Batches, mailbox'[m] = b PROVE Answered(m, b, <<b, m>>)
    BY <2>1, <2>3, Zenon DEF ImportInv, BoxSound
  <2>4. ASSUME NEW b \in Batches, mailbox'[m] = b PROVE Answered(m, b, <<b, m>>)'
    BY <2>1, <2>3, <2>4, <1>1, <1>2, <1>3 DEF Answered
  <2> QED BY <2>2, <2>4, <1>1, <1>2 DEF BoxSound, StartHeld
<1>11. (gatePending = Cardinality(Awaiting))'
  BY <1>2 DEF ImportInv, Awaiting
<1> QED BY <1>4, <1>5, <1>6, <1>7, <1>8, <1>9, <1>10, <1>11 DEF ImportInv

\* Crash: what had no record is stranded; the rest recovery will find.
LEMMA CrashKeeps ==
  ASSUME ImportInv, Crash PROVE ImportInv'
<1>1. /\ ~processUp' /\ startPhase' = "idle" /\ ~importerRunning' /\ ~accepting'
      /\ NoFutures' /\ NoWatch' /\ ~StartHeld' /\ assigned' = {}
      /\ stopPhase' = "idle" /\ stopList' = {} /\ stopTaken' = {} /\ toReturn' = {}
      /\ append' = NoAppend /\ append'.at = "idle"
      /\ stranded' = stranded \cup {m \in Mailboxes : mailbox[m] \in Batches /\ ~Recorded(m)}
  BY DEF Crash, NoFutures, NoWatch, NoAppend, NoRows, StartHeld
<1>2. UNCHANGED <<mailbox, manifest, member, persisted, file, batchNo>>
  BY DEF Crash, fileVars
<1>3. (ImportTypeOK /\ append \in AppendSet)'
  <2>1. /\ append' \in AppendSet /\ append'.batch \in 0..MaxBatches /\ append'.boxes \subseteq Mailboxes
    BY <1>1, ImporterAssumption DEF AppendSet, NoAppend
  <2>2. /\ future' \in [ImportTasks -> {"none", "queued", "running", "done", "cancelled"}]
        /\ taskRow' \in [ImportTasks -> Statuses]
        /\ watcher' \in [Batches -> {"none", "draining", "watching", "reconciling", "done"}]
    BY DEF Crash, NoRows, Statuses
  <2>3. /\ processUp' \in BOOLEAN /\ importerRunning' \in BOOLEAN /\ stopEvent' \in BOOLEAN
        /\ accepting' \in BOOLEAN
    BY Zenon DEF Crash
  <2>4. /\ runGate' = 0 /\ gatePending' = 0 /\ crashes' = crashes + 1 /\ crashes < MaxCrashes
        /\ runFutures' = {} /\ admitted' = {}
    BY DEF Crash
  <2>5. /\ runGate' \in 0..MaxBatches /\ gatePending' \in Nat /\ crashes' \in 0..MaxCrashes
    BY <2>4, ImporterAssumption DEF ImportInv, ImportTypeOK
  <2>6. /\ runFutures' \subseteq ImportTasks /\ admitted' \subseteq ImportTasks
        /\ assigned' \subseteq ImportTasks /\ stranded' \subseteq Mailboxes
        /\ (stopList \cup stopTaken \cup toReturn)' \subseteq ImportTasks
    BY <1>1, <2>4 DEF ImportInv, ImportTypeOK
  <2> QED BY <1>1, <1>2, <2>1, <2>2, <2>3, <2>5, <2>6 DEF ImportInv, ImportTypeOK
<1>4. RunSound'
  BY <1>1 DEF RunSound
<1>5. ASSUME NEW b \in Batches PROVE BatchSound(b)'
  <2>1. watcher'[b] = "none"
    BY DEF Crash
  <2> QED BY <2>1, <1>1, <1>2 DEF ImportInv, BatchSound
<1>6. ASSUME NEW t \in ImportTasks
      PROVE  future'[t] = "none" /\ t \notin runFutures' /\ t \notin admitted' /\ t \notin stopList'
             /\ t \notin toReturn'
  BY <1>1 DEF NoFutures
<1>7. ASSUME NEW t \in ImportTasks PROVE TaskSound(t)'
  BY <1>6 DEF TaskSound, Working
<1>8. ASSUME NEW t \in ImportTasks PROVE BoxHeld(t)'
  BY <1>6 DEF BoxHeld, Working
<1>9. ASSUME NEW t \in ImportTasks PROVE ReportSound(t)'
  BY <1>2 DEF ImportInv, ReportSound
<1>10. ASSUME NEW m \in Mailboxes PROVE BoxSound(m)'
  <2>1. ASSUME NEW b \in Batches, mailbox[m] = b PROVE b <= batchNo
    BY <2>1, Zenon DEF ImportInv, BoxSound
  <2>2. ASSUME NEW b \in Batches, mailbox[m] = b PROVE Answered(m, b, <<b, m>>)'
    <3>1. CASE Recorded(m)
      BY <2>2, <3>1, <1>1, <1>2 DEF Recorded, Members, Answered
    <3>2. CASE ~Recorded(m)
      BY <2>2, <3>2, <1>1 DEF Answered
    <3> QED BY <3>1, <3>2
  <2> QED BY <2>1, <2>2, <1>1, <1>2 DEF BoxSound
<1>11. (gatePending = Cardinality(Awaiting))'
  <2>1. Awaiting' = {}
    BY <1>6 DEF Awaiting
  <2>2. gatePending' = 0
    BY DEF Crash
  <2> QED BY <2>1, <2>2, FS_EmptySet
<1> QED BY <1>3, <1>4, <1>5, <1>7, <1>8, <1>9, <1>10, <1>11 DEF ImportInv

\* RecoverBatch: what the record names is returned before the record goes.
LEMMA RecoverBatchKeeps ==
  ASSUME ImportInv, NEW c \in Batches, RecoverBatch(c) PROVE ImportInv'
<1>1. /\ ~processUp /\ ~processUp' /\ startPhase = "idle" /\ NoFutures /\ NoWatch
      /\ append.at = "idle" /\ toReturn = {} /\ stopList = {} /\ batchNo \in Nat
      /\ c <= batchNo /\ c \in Nat /\ ~accepting
  <2>1. /\ ~processUp /\ ~processUp' /\ startPhase = "idle" /\ NoFutures /\ NoWatch
        /\ append.at = "idle" /\ toReturn = {} /\ stopList = {} /\ batchNo \in Nat
    BY DEF ImportInv, ImportTypeOK, RunSound, RecoverBatch, runVars
  <2>2. manifest[c] \in {"preparing", "active"}
    BY DEF RecoverBatch
  <2>3. c \in Nat /\ c <= batchNo
    BY <2>1, <2>2, TaskPair DEF ImportInv, BatchSound
  <2>4. ~accepting
    BY <2>1, TaskPair DEF ImportInv, ImportTypeOK, RunSound, StartHeld, NoWatch, Batches
  <2> QED BY <2>1, <2>3, <2>4
<1>2. UNCHANGED <<batchNo, startPhase, importerRunning, accepting, stopEvent, gatePending,
                  runFutures, future, admitted, assigned, taskRow, stopPhase, stopList, stopTaken,
                  toReturn, watcher, append, crashes, stranded>>
  BY DEF RecoverBatch, runVars, taskVars, stopVars, ghostVars
<1>3. /\ \A m \in Mailboxes :
            mailbox'[m] = IF mailbox[m] = c /\ member[<<c, m>>] # "none" THEN Available ELSE mailbox[m]
      /\ mailbox' \in [Mailboxes -> Batches \cup {Available, Used}]
  <2> DEFINE found == {BoxOf(t) : t \in {u \in Members(c) : mailbox[BoxOf(u)] = c}}
  <2>1. \A m \in Mailboxes : m \in found <=> mailbox[m] = c /\ member[<<c, m>>] # "none"
    BY TaskPair DEF Members
  <2>2. Return(found)
    BY DEF RecoverBatch
  <2> HIDE DEF found
  <2> QED BY <2>1, <2>2 DEF ImportInv, ImportTypeOK, Return
<1>4. /\ \A b \in Batches : b # c => manifest'[b] = manifest[b]
      /\ manifest'[c] \in {"none", "complete"}
      /\ \A t \in ImportTasks : BatchOf(t) # c => member'[t] = member[t] /\ file'[t] = file[t]
      /\ \A t \in ImportTasks : BatchOf(t) = c /\ manifest'[c] = "complete" /\ member'[t] # "none"
                                   => member'[t] = file'[t] /\ file'[t] \in Terminal
      /\ runGate' \in 0..MaxBatches
      /\ manifest' \in [Batches -> {"none", "preparing", "active", "complete"}]
      /\ member' \in [ImportTasks -> Statuses]
      /\ file' \in [ImportTasks -> Terminal \cup {"none"}]
      /\ persisted' \subseteq ImportTasks
  <2>1. CASE /\ manifest[c] = "preparing"
             /\ manifest' = [manifest EXCEPT ![c] = "none"]
             /\ member' = [t \in ImportTasks |-> IF BatchOf(t) = c THEN "none" ELSE member[t]]
             /\ UNCHANGED <<persisted, file, runGate>>
    BY <2>1 DEF ImportInv, ImportTypeOK, Statuses
  <2>2. CASE manifest[c] = "active" /\ Reconcile(c, NoRows)
    <3>1. \A t \in ImportTasks : /\ t \in Members(c) => BatchOf(t) = c
                                 /\ BatchOf(t) = c /\ t \notin Members(c) => member[t] = "none"
      BY DEF Members
    <3>2. /\ \A b \in Batches : manifest'[b] = IF b = c THEN "complete" ELSE manifest[b]
          /\ \A t \in ImportTasks : t \in Members(c) =>
                member'[t] \in Terminal /\ file'[t] = member'[t]
          /\ \A t \in ImportTasks : t \notin Members(c) => member'[t] = member[t] /\ file'[t] = file[t]
          /\ runGate' = 0
          /\ manifest' \in [Batches -> {"none", "preparing", "active", "complete"}]
          /\ member' \in [ImportTasks -> Statuses]
          /\ file' \in [ImportTasks -> Terminal \cup {"none"}]
          /\ persisted' \subseteq ImportTasks
      BY <2>2, ReconcileIs DEF ImportInv
    <3>3. 0 \in 0..MaxBatches
      BY ImporterAssumption
    <3> QED BY <3>1, <3>2, <3>3
  <2> QED BY <2>1, <2>2 DEF RecoverBatch
<1>5. (ImportTypeOK /\ append \in AppendSet)'
  <2>1. processUp' \in BOOLEAN
    BY DEF ImportInv, ImportTypeOK, RecoverBatch, runVars
  <2> QED BY <1>2, <1>3, <1>4, <2>1 DEF ImportInv, ImportTypeOK
<1>6. RunSound'
  <2>1. NoFutures' /\ NoWatch' /\ ~StartHeld' /\ startPhase' = "idle" /\ ~accepting' /\ append'.at = "idle"
    BY <1>1, <1>2 DEF NoFutures, NoWatch, StartHeld
  <2>2. ~importerRunning' /\ stopPhase' = "idle" /\ stopList' = {} /\ toReturn' = {}
    BY <1>1, <1>2 DEF ImportInv, RunSound
  <2> QED BY <2>1, <2>2 DEF RunSound
<1>7. ASSUME NEW b \in Batches PROVE BatchSound(b)'
  <2>1. b > batchNo => b # c
    BY <1>1
  <2>2. watcher'[b] \in {"none", "done"} /\ watcher'[b] = watcher[b]
    BY <1>1, <1>2 DEF NoWatch
  <2> QED BY <1>1, <1>2, <1>4, <2>1, <2>2 DEF ImportInv, BatchSound
<1>8. ASSUME NEW t \in ImportTasks PROVE TaskSound(t)'
  BY <1>1, <1>2 DEF ImportInv, TaskSound, NoFutures, Working
<1>9. ASSUME NEW t \in ImportTasks PROVE BoxHeld(t)'
  BY <1>1, <1>2 DEF BoxHeld, NoFutures, Working
<1>10. ASSUME NEW t \in ImportTasks PROVE ReportSound(t)'
  BY <1>4, TaskPair DEF ImportInv, ReportSound
<1>11. ASSUME NEW m \in Mailboxes PROVE BoxSound(m)'
  <2>1. ASSUME NEW b \in Batches, mailbox'[m] = b
        PROVE  mailbox[m] = b /\ (b = c => member[<<c, m>>] = "none")
    BY <2>1, <1>3, TaskPair
  <2>2. ASSUME NEW b \in Batches, mailbox'[m] = b PROVE b <= batchNo
    BY <2>1, <2>2, Zenon DEF ImportInv, BoxSound
  <2>3. ASSUME NEW b \in Batches, mailbox'[m] = b PROVE Answered(m, b, <<b, m>>)
    BY <2>1, <2>3, Zenon DEF ImportInv, BoxSound
  <2>4. ASSUME NEW b \in Batches, mailbox'[m] = b PROVE Answered(m, b, <<b, m>>)'
    <3>1. CASE b = c
      BY <3>1, <2>1, <2>3, <2>4, <1>1, <1>2 DEF Answered, NoFutures, Working
    <3>2. CASE b # c
      BY <3>2, <2>3, <2>4, <1>1, <1>2, <1>4, TaskPair DEF Answered, NoFutures, Working
    <3> QED BY <3>1, <3>2
  <2> QED BY <2>2, <2>4, <1>1, <1>2 DEF BoxSound
<1>12. (gatePending = Cardinality(Awaiting))'
  BY <1>2 DEF ImportInv, Awaiting
<1> QED BY <1>5, <1>6, <1>7, <1>8, <1>9, <1>10, <1>11, <1>12 DEF ImportInv

\* Restarted: no unfinished manifest is left behind.
LEMMA RestartedKeeps ==
  ASSUME ImportInv, Restarted PROVE ImportInv'
<1>1. (ImportTypeOK /\ append \in AppendSet)'
  BY DEF ImportInv, ImportTypeOK, Restarted, fileVars, taskVars, stopVars, ghostVars
<1>2. RunSound'
  BY DEF ImportInv, RunSound, StartHeld, Restarted, fileVars, taskVars, stopVars, ghostVars
<1>3. ASSUME NEW b \in Batches PROVE BatchSound(b)'
  BY DEF ImportInv, BatchSound, Restarted, fileVars, taskVars, stopVars, ghostVars
<1>4. ASSUME NEW t \in ImportTasks PROVE TaskSound(t)'
  BY DEF ImportInv, TaskSound, Restarted, fileVars, taskVars, stopVars, ghostVars
<1>5. ASSUME NEW t \in ImportTasks PROVE BoxHeld(t)'
  BY DEF ImportInv, BoxHeld, ImportTypeOK, Working, Restarted, fileVars, taskVars, stopVars,
     ghostVars
<1>6. ASSUME NEW t \in ImportTasks PROVE ReportSound(t)'
  BY DEF ImportInv, ReportSound, Restarted, fileVars, taskVars, stopVars, ghostVars
<1>7. ASSUME NEW m \in Mailboxes PROVE BoxSound(m)'
  BY DEF ImportInv, BoxSound, Answered, Restarted, fileVars, taskVars, stopVars, ghostVars
<1>8. (gatePending = Cardinality(Awaiting))'
  BY DEF ImportInv, Awaiting, Restarted, fileVars, taskVars, stopVars, ghostVars
<1> QED BY <1>1, <1>2, <1>3, <1>4, <1>5, <1>6, <1>7, <1>8 DEF ImportInv

-----------------------------------------------------------------------------
\* Nothing happens: the invariant stays.
LEMMA ImportStutter == ASSUME ImportInv, UNCHANGED importVars PROVE ImportInv'
<1>1. UNCHANGED <<mailbox, manifest, member, persisted, file, processUp, batchNo, startPhase,
                  importerRunning, accepting, stopEvent, runGate, gatePending, runFutures, future,
                  admitted, assigned, taskRow, stopPhase, stopList, stopTaken, toReturn, watcher,
                  append, crashes, stranded>>
  BY DEF importVars, fileVars, runVars, taskVars, stopVars, ghostVars
<1>2. (ImportTypeOK /\ append \in AppendSet)'
  BY <1>1 DEF ImportInv, ImportTypeOK
<1>3. RunSound' /\ \A b \in Batches : BatchSound(b)'
  BY <1>1 DEF ImportInv, RunSound, BatchSound, StartHeld, NoFutures, NoWatch
<1>4. ASSUME NEW t \in ImportTasks PROVE (TaskSound(t) /\ BoxHeld(t) /\ ReportSound(t))'
  BY <1>1 DEF ImportInv, TaskSound, BoxHeld, ReportSound
<1>5. ASSUME NEW m \in Mailboxes PROVE BoxSound(m)'
  BY <1>1 DEF ImportInv, BoxSound, Answered
<1>6. (gatePending = Cardinality(Awaiting))'
  BY <1>1 DEF ImportInv, Awaiting
<1> QED BY <1>2, <1>3, <1>4, <1>5, <1>6 DEF ImportInv

\* Every step of the importer keeps the invariant.
LEMMA ImportStep == ASSUME ImportInv, ImportNext PROVE ImportInv'
<1>1. CASE StartStep
  <2>1. CASE PreflightStart
    BY <2>1, PreflightStartKeeps
  <2>2. ASSUME NEW boxes \in SUBSET Mailboxes, BeginStart(boxes) PROVE ImportInv'
    BY <2>2, BeginStartKeeps
  <2>3. CASE SaveLeases
    BY <2>3, SaveLeasesKeeps
  <2>4. CASE CommitPrepared
    BY <2>4, CommitPreparedKeeps
  <2>5. CASE OpenBatch
    BY <2>5, OpenBatchKeeps
  <2>6. CASE FailStart
    BY <2>6, FailStartKeeps
  <2> QED BY <1>1, <2>1, <2>2, <2>3, <2>4, <2>5, <2>6 DEF StartStep
<1>2. CASE StopStep
  <2>1. CASE SignalStop
    BY <2>1, SignalStopKeeps
  <2>2. CASE TakeFutures
    BY <2>2, TakeFuturesKeeps
  <2>3. CASE StopReturns
    BY <2>3, StopReturnsKeeps
  <2>4. ASSUME NEW t \in ImportTasks, CancelFuture(t) PROVE ImportInv'
    BY <2>4, CancelFutureKeeps
  <2>5. ASSUME NEW t \in ImportTasks, NEW restored \in BOOLEAN, ReturnCancelled(t, restored) PROVE ImportInv'
    BY <2>5, ReturnCancelledKeeps
  <2> QED BY <1>2, <2>1, <2>2, <2>3, <2>4, <2>5 DEF StopStep
<1>3. CASE AppendStep
  <2>1. ASSUME NEW boxes \in SUBSET Mailboxes, ReadForAppend(boxes) PROVE ImportInv'
    BY <2>1, ReadForAppendKeeps
  <2>2. CASE LeaseForAppend
    BY <2>2, LeaseForAppendKeeps
  <2>3. CASE JoinBatch
    BY <2>3, JoinBatchKeeps
  <2>4. CASE RefuseAppend
    BY <2>4, RefuseAppendKeeps
  <2> QED BY <1>3, <2>1, <2>2, <2>3, <2>4 DEF AppendStep
<1>4. ASSUME NEW t \in ImportTasks, WorkerStep(t) PROVE ImportInv'
  <2>1. CASE PickUp(t)
    BY <2>1, PickUpKeeps
  <2>2. CASE Admit(t)
    BY <2>2, AdmitKeeps
  <2>3. ASSUME NEW restored \in BOOLEAN, StopAtGate(t, restored) PROVE ImportInv'
    BY <2>3, StopAtGateKeeps
  <2>4. CASE RecordResult(t)
    BY <2>4, RecordResultKeeps
  <2>5. ASSUME NEW outcome \in Terminal, SaveResult(t, outcome) PROVE ImportInv'
    BY <2>5, SaveResultKeeps
  <2>6. ASSUME NEW outcome \in Terminal, EndTask(t, outcome) PROVE ImportInv'
    BY <2>6, EndTaskKeeps
  <2> QED BY <1>4, <2>1, <2>2, <2>3, <2>4, <2>5, <2>6 DEF WorkerStep
<1>5. ASSUME NEW b \in Batches, WatcherStep(b) PROVE ImportInv'
  <2>1. CASE WatcherCloses(b)
    BY <2>1, WatcherClosesKeeps
  <2>2. CASE WatchReturns(b)
    BY <2>2, WatchReturnsKeeps
  <2>3. CASE FinishBatch(b)
    BY <2>3, FinishBatchKeeps
  <2> QED BY <1>5, <2>1, <2>2, <2>3 DEF WatcherStep
<1>6. ASSUME NEW b \in Batches, RecoverBatch(b) PROVE ImportInv'
  BY <1>6, RecoverBatchKeeps
<1>7. CASE Crash
  BY <1>7, CrashKeeps
<1>8. CASE Restarted
  BY <1>8, RestartedKeeps
<1> QED BY <1>1, <1>2, <1>3, <1>4, <1>5, <1>6, <1>7, <1>8 DEF ImportNext

\* The invariant holds in every reachable state.
LEMMA ImportInvariant == ImportSpec => []ImportInv
<1>1. ImportInv /\ [ImportNext]_importVars => ImportInv'
  BY ImportStep, ImportStutter
<1> QED BY <1>1, ImportStart, PTL DEF ImportSpec

\* The importer's state, its two files included, keeps its types through every
\* start, stop, append, crash and recovery.
THEOREM ImportTypeCorrect == ImportSpec => []ImportTypeOK
<1>1. ImportInv => ImportTypeOK
  BY DEF ImportInv
<1> QED BY <1>1, ImportInvariant, PTL

\* The mailboxes of a run are its own while they are worked on, whatever
\* appends, stops, failed starts and recoveries do to the pool meanwhile
\* (mailbox_priority_runtime.py), and every lease in the pool has a record a
\* recovery finds, or a thread that is about to return it (begin_batch,
\* append_members), for every pool and number of batches.
THEOREM BoxesKept == ImportSpec => []BoxesAreKept
<1>1. ASSUME ImportInv PROVE BoxesAreKept
  <2>1. ASSUME NEW t \in ImportTasks, future[t] = "running", t \in admitted
        PROVE  mailbox[BoxOf(t)] \in {BatchOf(t), Used}
    BY <1>1, <2>1 DEF ImportInv, BoxHeld, Working
  <2>2. ASSUME NEW m \in Mailboxes, mailbox[m] \in Batches
        PROVE  \/ Recorded(m) \/ m \in stranded
               \/ append.at = "leased" /\ m \in append.boxes
               \/ \E t \in toReturn : BoxOf(t) = m
    <3>1. PICK b \in Batches : mailbox[m] = b
      BY <2>2
    <3>2. <<b, m>> \in ImportTasks /\ BatchOf(<<b, m>>) = b /\ BoxOf(<<b, m>>) = m
      BY TaskPair
    <3>3. Answered(m, b, <<b, m>>)
      BY <1>1, <3>1, Zenon DEF ImportInv, BoxSound
    <3>4. manifest[b] \in {"preparing", "active"} /\ member[<<b, m>>] # "none" => Recorded(m)
      BY <3>1, <3>2 DEF Recorded, Members
    <3>5. CASE future[<<b, m>>] \in Working
      <4>1. watcher[b] = "draining" /\ member[<<b, m>>] # "none"
        BY <1>1, <3>2, <3>5 DEF ImportInv, TaskSound, Working
      <4>2. manifest[b] = "active"
        BY <1>1, <4>1 DEF ImportInv, BatchSound
      <4> QED BY <3>4, <4>1, <4>2
    <3>6. CASE startPhase \in {"leased", "committed"} /\ b = batchNo
      <4>1. manifest[b] \in {"preparing", "active"}
        BY <1>1, <3>6 DEF ImportInv, RunSound, StartHeld
      <4>2. member[<<b, m>>] # "none"
        BY <1>1, <3>1, <3>6, Zenon DEF ImportInv, BoxSound
      <4> QED BY <3>4, <4>1, <4>2
    <3> QED BY <3>2, <3>3, <3>4, <3>5, <3>6 DEF Answered
  <2> QED BY <2>1, <2>2 DEF BoxesAreKept, BoxHeldWhileWorked, LeaseIsRecorded
<1> QED BY <1>1, ImportInvariant, PTL

\* A run of the workbench is closed as a whole (watch_and_reconcile, finalize):
\* once its watcher has closed it no task works any more, the gate's pending
\* registrations are exactly the tasks that have yet to pass it, and a finished
\* manifest reports a success for the results that were saved and no others.
THEOREM RunClosed == ImportSpec => []RunClosesWhole
<1>1. ASSUME ImportInv PROVE RunClosesWhole
  <2>1. WatcherSeesAll
    <3> SUFFICES ASSUME NEW t \in ImportTasks,
                        watcher[BatchOf(t)] \in {"watching", "reconciling", "done"}
                 PROVE  future[t] \in {"none", "done", "cancelled"}
      BY DEF WatcherSeesAll
    <3> QED BY <1>1 DEF ImportInv, ImportTypeOK, TaskSound, Working
  <2>2. PendingMatches
    <3> DEFINE Owed == {t \in runFutures : \/ future[t] = "queued"
                                           \/ t \in Busy \ admitted}
    <3>1. \A t \in ImportTasks : future[t] # "none" => t \in runFutures
      BY <1>1 DEF ImportInv, TaskSound
    <3>2. Awaiting = Owed
      BY <1>1, <3>1 DEF ImportInv, ImportTypeOK, Awaiting, Busy
    <3> QED BY <1>1, <3>2 DEF ImportInv, PendingMatches
  <2>3. CompleteTellsTruth
    BY <1>1 DEF ImportInv, ReportSound, CompleteTellsTruth
  <2> QED BY <2>1, <2>2, <2>3 DEF RunClosesWhole
<1> QED BY <1>1, ImportInvariant, PTL
================================================================================
