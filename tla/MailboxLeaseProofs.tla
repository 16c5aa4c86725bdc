------------------------- MODULE MailboxLeaseProofs -------------------------
(***************************************************************************)
(* Proofs about the mailbox hand-off, for every number of rows and tasks,  *)
(* every dispatch batch and every lease length.  What is proved of the     *)
(* row, its sidecar and the door to it needs no punctual heartbeat; what a *)
(* worker may rely on while it runs assumes Punctual.                      *)
(***************************************************************************)
EXTENDS MailboxLease, TLAPS

-----------------------------------------------------------------------------
(* What the storage helpers return.                                        *)

RowValues  == [Rows -> RowRecord]
CallValues == [Tasks -> [call : Calls, fresh : BOOLEAN]]

LEMMA TTLInLeft == TTL \in Left /\ NoLease \in Left /\ 0 \in Left
  BY ConstantsAssumption DEF Left, NoLease

Batches == {BatchOf[t] : t \in Tasks} \cup {NoBatch}
Holders == Tasks \cup {NoTask}

\* The updates the transactions make to a row keep it a row.
LEMMA ReservedRow ==
  ASSUME NEW me \in RowRecord, NEW st \in Statuses, NEW b \in Batches
  PROVE  [me EXCEPT !.status = st, !.marker = NoTask, !.batch = b, !.owner = NoTask,
                    !.left = NoLease] \in RowRecord
  BY TTLInLeft DEF RowRecord, Batches

LEMMA LeasedRow ==
  ASSUME NEW me \in RowRecord, NEW t \in Tasks PROVE LeasedTo(me, t) \in RowRecord
  BY TTLInLeft DEF LeasedTo, RowRecord

LEMMA ClaimedRow ==
  ASSUME NEW me \in RowRecord, NEW t \in Tasks PROVE ClaimedBy(me, t) \in RowRecord
  BY TTLInLeft DEF ClaimedBy, RowRecord, Statuses, Transient

LEMMA ConfirmedRow ==
  ASSUME NEW me \in RowRecord, NEW st \in Statuses, NEW m \in Holders, NEW b \in Batches
  PROVE  [me EXCEPT !.status = st, !.marker = m, !.batch = b] \in RowRecord
  BY DEF RowRecord, Holders, Batches

LEMMA AbortedRow ==
  ASSUME NEW me \in RowRecord, NEW st \in Statuses
  PROVE  [me EXCEPT !.status = st, !.marker = NoTask] \in RowRecord
  BY DEF RowRecord

LEMMA AgedRow ==
  ASSUME NEW me \in RowRecord, NEW l \in Left
  PROVE  [me EXCEPT !.left = l] \in RowRecord
  BY DEF RowRecord

LEMMA ResultRow ==
  ASSUME NEW me \in RowRecord PROVE [me EXCEPT !.result = "account"] \in RowRecord
  BY DEF RowRecord, Results

LEMMA EnvelopeRow ==
  ASSUME NEW me \in RowRecord
  PROVE  /\ Envelope(me) \in RowRecord
         /\ Envelope(me).owner = me.owner /\ Envelope(me).left = me.left
  BY DEF RowRecord, Results, Envelope

LEMMA StatusNames == {"available", "pending_rerun", "reserved", "queued", "running",
                      "success", "failed"} \subseteq Statuses
  BY DEF Statuses, Transient, Terminal

LEMMA OlderInLeft == ASSUME NEW n \in Left PROVE Older(n) \in Left
  BY ConstantsAssumption DEF Left, NoLease, Older

LEMMA LeaseType ==
  ASSUME TypeOK, NEW r \in Rows, NEW t \in Tasks, NEW l \in Left
  PROVE  [lease EXCEPT ![r][t] = l] \in [Rows -> [Tasks -> Left]]
  BY DEF TypeOK

LEMMA OutdatedType ==
  ASSUME TypeOK, NEW R PROVE Outdated(R) \in CallValues
  BY DEF TypeOK, Outdated, CallValues

LEMMA CallType ==
  ASSUME TypeOK, NEW t \in Tasks, NEW c \in Calls, Call(t, c)
  PROVE  op' \in CallValues
  BY DEF TypeOK, Call, CallValues

LEMMA ReturnType ==
  ASSUME TypeOK, NEW t \in Tasks, Return(t) PROVE op' \in CallValues
  BY DEF TypeOK, Return, Idle, Calls, CallValues

LEMMA BumpReturnType ==
  ASSUME TypeOK, NEW t \in Tasks, BumpReturn(t) PROVE op' \in CallValues
  BY OutdatedType DEF BumpReturn, Idle, Calls, CallValues

LEMMA UpdatedType ==
  ASSUME TypeOK, NEW r \in Rows, NEW st \in Statuses,
         NEW b \in {BatchOf[t] : t \in Tasks} \cup {NoBatch}, NEW o \in BOOLEAN
  PROVE  Updated(r, st, b, o) \in RowRecord
<1> row[r] \in RowRecord
  BY DEF TypeOK
<1> QED  BY DEF Updated, RowRecord

LEMMA UpdateRowType ==
  ASSUME TypeOK, NEW r \in Rows, NEW st \in Statuses,
         NEW b \in {BatchOf[t] : t \in Tasks} \cup {NoBatch}, NEW o \in BOOLEAN,
         UpdateRow(r, st, b, o)
  PROVE  row' \in RowValues /\ op' \in CallValues
<1>1. row' \in RowValues
  BY UpdatedType DEF UpdateRow, TypeOK, RowValues
<1>2. op' \in CallValues
  BY OutdatedType DEF UpdateRow, TypeOK, Bump, CallValues
<1> QED  BY <1>1, <1>2
LEMMA HandedType ==
  ASSUME TypeOK, NEW me \in RowRecord, NEW ls \in [Tasks -> Left], Remaining(ls) # {}
  PROVE  Handed(me, ls) \in RowRecord
<1> DEFINE u == CHOOSE t \in Remaining(ls) : TRUE
<1>1. u \in Tasks
  BY DEF Remaining
<1>2. ls[u] \in Left
  BY <1>1
<1>3. [me EXCEPT !.owner = u, !.left = ls[u]] \in RowRecord
  <2> HIDE DEF u
  <2> QED  BY <1>1, <1>2 DEF RowRecord
<1> QED  BY <1>3 DEF Handed

LEMMA FreedType ==
  ASSUME NEW me \in RowRecord, NEW st \in Statuses,
         NEW b \in {BatchOf[t] : t \in Tasks} \cup {NoBatch}
  PROVE  Freed(me, st, b) \in RowRecord
  BY TTLInLeft DEF Freed, RowRecord

LEMMA ReleaseStatusType ==
  ASSUME NEW me \in RowRecord PROVE ReleaseStatus(me) \in Statuses
  BY DEF ReleaseStatus, RowRecord, Statuses

LEMMA SweptType ==
  ASSUME TypeOK, NEW r \in Rows PROVE Swept(r) \in [Tasks -> Left]
  BY TTLInLeft DEF TypeOK, Swept

LEMMA RecoveredType ==
  ASSUME TypeOK, NEW r \in Rows PROVE Recovered(r) \in RowRecord
<1> DEFINE me == row[r]
           st == IF me.status \in Transient
                 THEN IF Confirmed(r) THEN "pending_rerun" ELSE "available"
                 ELSE me.status
           b  == IF Confirmed(r) THEN me.batch ELSE NoBatch
<1>1. me \in RowRecord
  BY DEF TypeOK
<1>2. st \in Statuses /\ b \in {BatchOf[t] : t \in Tasks} \cup {NoBatch}
  BY <1>1 DEF RowRecord, Statuses
<1>3. Freed(me, st, b) \in RowRecord
  <2> HIDE DEF me, st, b
  <2> QED  BY <1>1, <1>2, FreedType
<1>4. Remaining(Swept(r)) # {} => Handed(me, Swept(r)) \in RowRecord
  BY <1>1, SweptType, HandedType
<1> QED  BY <1>1, <1>3, <1>4 DEF Recovered
-----------------------------------------------------------------------------
(* Type correctness.                                                       *)

LEMMA InitType == Init => TypeOK
  BY ConstantsAssumption DEF Init, TypeOK, FreshRow, RowRecord, Results, Idle, Calls, Phases,
     Statuses, Left, NoLease

\* What every step leaves of the type of the variables it may change.
TypeParts ==
  /\ row' \in RowValues
  /\ lease' \in [Rows -> [Tasks -> Left]]
  /\ phase' \in [Tasks -> Phases]
  /\ op' \in CallValues

LEMMA PartsGiveType ==
  ASSUME TypeOK, TypeParts, UNCHANGED <<origin, picked, boot>> PROVE TypeOK'
  BY DEF TypeOK, TypeParts, RowValues, CallValues

LEMMA SetPhaseType ==
  ASSUME TypeOK, NEW t \in Tasks, NEW p \in Phases, SetPhase(t, p)
  PROVE  phase' \in [Tasks -> Phases]
  BY DEF TypeOK, SetPhase

LEMMA DispatchType ==
  ASSUME TypeOK, NEW t \in Tasks, Dispatch(t) PROVE TypeOK'
<1>0. RowOf[t] \in Rows /\ BatchOf[t] \in {BatchOf[u] : u \in Tasks} \cup {NoBatch}
  BY ConstantsAssumption
<1>1. CASE RerunRead(t)
  BY <1>1, <1>0 DEF RerunRead, TypeOK, SetPhase, Phases, Dispatching
<1>2. CASE RerunRestore(t)
  <2>1. row' \in RowValues /\ op' \in CallValues
    BY <1>2, <1>0, UpdateRowType DEF RerunRestore, Statuses
  <2>2. phase' \in [Tasks -> Phases]
    BY <1>2, SetPhaseType DEF RerunRestore, Phases, Dispatching
  <2> QED  BY <1>2, <2>1, <2>2, PartsGiveType DEF RerunRestore, TypeParts, TypeOK
<1>3. CASE ResetRow(t)
  <2>1. row' \in RowValues /\ op' \in CallValues
    BY <1>3, <1>0, UpdateRowType DEF ResetRow, Statuses
  <2>2. phase' \in [Tasks -> Phases]
    BY <1>3, SetPhaseType DEF ResetRow, Phases, Over
  <2> QED  BY <1>3, <2>1, <2>2, PartsGiveType DEF ResetRow, TypeParts, TypeOK
<1>4. CASE NoteQueued(t)
  <2>1. row' \in RowValues /\ op' \in CallValues
    BY <1>4, <1>0, UpdateRowType DEF NoteQueued, Statuses, Transient
  <2>2. phase' \in [Tasks -> Phases]
    BY <1>4, SetPhaseType DEF NoteQueued, Phases, Dispatching
  <2> QED  BY <1>4, <2>1, <2>2, PartsGiveType DEF NoteQueued, TypeParts, TypeOK
<1> QED  BY <1>1, <1>2, <1>3, <1>4 DEF Dispatch

LEMMA RollbackType == ASSUME TypeOK, Rollback PROVE phase' \in [Tasks -> Phases]
  BY DEF TypeOK, Rollback, Phases, Undoing

LEMMA ManagerType ==
  ASSUME TypeOK, SelectBatch \/ Reserve \/ StartupFails \/ Enqueue PROVE TypeOK'
<1>1. CASE SelectBatch
  BY <1>1 DEF SelectBatch, TypeOK, Phases, Dispatching
<1>2. CASE Reserve
  <2> DEFINE S == Selection
  <2>1. CASE \A t \in S : Reservable(RowOf[t])
    <3>1. row' = [r \in Rows |->
                    IF \E t \in S : RowOf[t] = r
                    THEN [row[r] EXCEPT !.status = "reserved", !.marker = NoTask,
                            !.batch = BatchOf[CHOOSE t \in S : RowOf[t] = r],
                            !.owner = NoTask, !.left = NoLease]
                    ELSE row[r]]
      BY <1>2, <2>1 DEF Reserve
    <3>2. ASSUME NEW r \in Rows, \E t \in S : RowOf[t] = r
          PROVE  BatchOf[CHOOSE t \in S : RowOf[t] = r] \in {BatchOf[t] : t \in Tasks}
      BY <3>2 DEF Selection
    <3>3. row' \in RowValues
      <4>1. ASSUME NEW r \in Rows, NEW b \in {BatchOf[t] : t \in Tasks}
            PROVE  [row[r] EXCEPT !.status = "reserved", !.marker = NoTask, !.batch = b,
                                  !.owner = NoTask, !.left = NoLease] \in RowRecord
        <5>1. row[r] \in RowRecord /\ b \in Batches
          BY DEF TypeOK, Batches
        <5> QED  BY <5>1, ReservedRow, StatusNames
      <4>2. ASSUME NEW r \in Rows PROVE row[r] \in RowRecord
        BY DEF TypeOK
      <4> QED  BY <3>1, <3>2, <4>1, <4>2 DEF RowValues
    <3>4. op' \in CallValues
      BY <1>2, <2>1, OutdatedType DEF Reserve
    <3>5. phase' \in [Tasks -> Phases]
      BY <1>2, <2>1 DEF Reserve, TypeOK, Phases, Dispatching
    <3> QED  BY <1>2, <3>3, <3>4, <3>5, PartsGiveType DEF Reserve, TypeParts, TypeOK
  <2>2. CASE ~(\A t \in S : Reservable(RowOf[t]))
    BY <1>2, <2>2 DEF Reserve, TypeOK, Phases
  <2> QED  BY <2>1, <2>2
<1>3. CASE StartupFails
  BY <1>3, RollbackType DEF StartupFails, TypeOK
<1>4. CASE Enqueue
  BY <1>4 DEF Enqueue, TypeOK, Phases, Working
<1> QED  BY <1>1, <1>2, <1>3, <1>4
LEMMA AcquireType ==
  ASSUME TypeOK, NEW t \in Tasks, Claim(t) \/ AdoptRead(t) \/ Adopt(t) PROVE TypeOK'
<1> DEFINE r == RowOf[t]
<1>0. r \in Rows /\ row[r] \in RowRecord /\ t \in Holders
  BY ConstantsAssumption DEF TypeOK, Holders
<1>1. ASSUME AcquireFails(t) PROVE TypeParts
  BY <1>1, ReturnType, RollbackType DEF AcquireFails, TypeParts, TypeOK, RowValues
<1>2. CASE Claim(t)
  <2>1. CASE Reservable(r) /\ ~Confirmed(r)
    <3>1. row' \in RowValues
      <4>1. row' = [row EXCEPT ![r] = ClaimedBy(row[r], t)]
        BY <1>2, <2>1 DEF Claim, GiveLease
      <4> QED  BY <4>1, <1>0, ClaimedRow DEF TypeOK, RowValues
    <3>3. lease' \in [Rows -> [Tasks -> Left]]
      <4>1. lease' = [lease EXCEPT ![r][t] = TTL]
        BY <1>2, <2>1 DEF Claim, GiveLease
      <4> QED  BY <4>1, <1>0, LeaseType, TTLInLeft
    <3>2. phase' \in [Tasks -> Phases] /\ op' \in CallValues
      BY <1>2, <2>1, SetPhaseType, OutdatedType DEF Claim, Bump, Phases, Dispatching
    <3> QED  BY <1>2, <3>1, <3>2, <3>3, PartsGiveType DEF Claim, TypeParts
  <2>2. CASE ~(Reservable(r) /\ ~Confirmed(r))
    <3>1. op' \in CallValues
      BY <1>2, <2>2, CallType DEF Claim, Calls
    <3> QED  BY <1>2, <2>2, <3>1 DEF Claim, TypeOK, CallValues
  <2> QED  BY <2>1, <2>2
<1>3. CASE AdoptRead(t)
  <2>1. CASE row[r].status = "reserved" /\ row[r].batch = BatchOf[t]
    <3>1. op' \in CallValues
      BY <1>3, <2>1, CallType DEF AdoptRead, Calls
    <3> QED  BY <1>3, <2>1, <3>1 DEF AdoptRead, TypeOK, CallValues
  <2>2. CASE ~(row[r].status = "reserved" /\ row[r].batch = BatchOf[t])
    BY <1>1, <1>3, <2>2, PartsGiveType DEF AdoptRead
  <2> QED  BY <2>1, <2>2
<1>4. CASE Adopt(t)
  <2>1. CASE op[t].fresh /\ LiveOwners(r) \subseteq {t}
    <3>1. row' \in RowValues
      <4>1. row' = [row EXCEPT ![r] = LeasedTo(row[r], t)]
        BY <1>4, <2>1 DEF Adopt
      <4> QED  BY <4>1, <1>0, LeasedRow DEF TypeOK, RowValues
    <3>3. lease' \in [Rows -> [Tasks -> Left]]
      <4>1. lease' = [lease EXCEPT ![r][t] = TTL]
        BY <1>4, <2>1 DEF Adopt
      <4> QED  BY <4>1, <1>0, LeaseType, TTLInLeft
    <3>2. phase' \in [Tasks -> Phases] /\ op' \in CallValues
      BY <1>4, <2>1, SetPhaseType, BumpReturnType DEF Adopt, Phases, Dispatching
    <3> QED  BY <1>4, <3>1, <3>2, <3>3, PartsGiveType DEF Adopt, TypeParts
  <2>2. CASE ~(op[t].fresh /\ LiveOwners(r) \subseteq {t})
    BY <1>1, <1>4, <2>2, PartsGiveType DEF Adopt
  <2> QED  BY <2>1, <2>2
<1> QED  BY <1>2, <1>3, <1>4

\* A call that reads, and at most moves its task on, leaves rows and leases alone.
LEMMA ReadType ==
  ASSUME TypeOK, NEW t \in Tasks, UNCHANGED <<row, lease, origin, picked, boot>>,
         phase' \in [Tasks -> Phases], op' \in CallValues
  PROVE  TypeOK'
  BY DEF TypeOK, CallValues

LEMMA ConfirmType ==
  ASSUME TypeOK, NEW t \in Tasks, ConfirmStart(t) \/ Confirm(t) \/ ConfirmRead(t)
  PROVE  TypeOK'
<1> DEFINE r == RowOf[t]
<1>0. /\ r \in Rows
      /\ \A p \in {"granted", "failing"} : SetPhase(t, p) => phase' \in [Tasks -> Phases]
      /\ \A c \in {"confirm", "confirmRead"} : Call(t, c) => op' \in CallValues
      /\ UNCHANGED op => op' \in CallValues
      /\ UNCHANGED phase => phase' \in [Tasks -> Phases]
  BY ConstantsAssumption, CallType, SetPhaseType
     DEF Phases, Working, Finishing, Calls, TypeOK, CallValues
<1>1. CASE ConfirmStart(t)
  <2> phase' \in [Tasks -> Phases] /\ op' \in CallValues
    BY <1>0, <1>1 DEF ConfirmStart
  <2> QED  BY <1>1, ReadType DEF ConfirmStart
<1>2. CASE Confirm(t)
  <2>0. [row[r] EXCEPT !.status = "running", !.marker = t, !.batch = BatchOf[t]]
          \in RowRecord
    BY <1>0, ConstantsAssumption, ConfirmedRow, StatusNames DEF TypeOK, Holders, Batches
  <2>1. row' \in RowValues
    BY <1>0, <1>2, <2>0 DEF Confirm, TypeOK, RowValues
  <2>2. phase' \in [Tasks -> Phases] /\ op' \in CallValues
    BY <1>0, <1>2, BumpReturnType, ReturnType DEF Confirm
  <2> QED  BY <1>2, <2>1, <2>2, PartsGiveType DEF Confirm, TypeParts, TypeOK
<1>3. CASE ConfirmRead(t)
  <2> phase' \in [Tasks -> Phases] /\ op' \in CallValues
    BY <1>0, <1>3, ReturnType DEF ConfirmRead
  <2> QED  BY <1>3, ReadType DEF ConfirmRead
<1> QED  BY <1>1, <1>2, <1>3

LEMMA AbortType ==
  ASSUME TypeOK, NEW t \in Tasks, AbortStart(t) \/ Abort(t) \/ AbortRead(t)
  PROVE  TypeOK'
<1> DEFINE r == RowOf[t]
<1>0. /\ r \in Rows
      /\ \A p \in {"running", "failing"} : SetPhase(t, p) => phase' \in [Tasks -> Phases]
      /\ \A c \in {"abort", "abortRead", "abortAgain"} : Call(t, c) => op' \in CallValues
      /\ UNCHANGED op => op' \in CallValues
      /\ UNCHANGED phase => phase' \in [Tasks -> Phases]
  BY ConstantsAssumption, CallType, SetPhaseType
     DEF Phases, Working, Finishing, Calls, TypeOK, CallValues
<1>1. CASE AbortStart(t)
  <2> phase' \in [Tasks -> Phases] /\ op' \in CallValues
    BY <1>0, <1>1 DEF AbortStart
  <2> QED  BY <1>1, ReadType DEF AbortStart
<1>2. CASE Abort(t)
  <2>0. [row[r] EXCEPT !.status = "reserved", !.marker = NoTask] \in RowRecord
    BY <1>0, AbortedRow, StatusNames DEF TypeOK
  <2>1. row' \in RowValues
    BY <1>0, <1>2, <2>0 DEF Abort, TypeOK, RowValues
  <2>2. phase' \in [Tasks -> Phases] /\ op' \in CallValues
    BY <1>0, <1>2, BumpReturnType, ReturnType DEF Abort
  <2> QED  BY <1>2, <2>1, <2>2, PartsGiveType DEF Abort, TypeParts, TypeOK
<1>3. CASE AbortRead(t)
  <2> phase' \in [Tasks -> Phases] /\ op' \in CallValues
    BY <1>0, <1>3, ReturnType DEF AbortRead
  <2> QED  BY <1>3, ReadType DEF AbortRead
<1> QED  BY <1>1, <1>2, <1>3
LEMMA RenewType ==
  ASSUME TypeOK, NEW t \in Tasks, RenewStart(t) \/ Renew(t) \/ RenewRead(t)
  PROVE  TypeOK'
<1> DEFINE r == RowOf[t]
<1>0. /\ r \in Rows /\ row[r] \in RowRecord
      /\ \A c \in {"renew", "renewRead", "renewAgain"} : Call(t, c) => op' \in CallValues
      /\ UNCHANGED op => op' \in CallValues
      /\ UNCHANGED phase => phase' \in [Tasks -> Phases]
  BY ConstantsAssumption, CallType DEF Calls, TypeOK, CallValues
<1>1. CASE RenewStart(t)
  <2> phase' \in [Tasks -> Phases] /\ op' \in CallValues
    BY <1>0, <1>1 DEF RenewStart
  <2> QED  BY <1>1, ReadType DEF RenewStart
<1>2. CASE Renew(t)
  <2>1. CASE op[t].fresh /\ Live(r, t)
    <3>1. row' \in RowValues
      <4>1. row' = [row EXCEPT ![r] = IF row[r].owner \in {t, NoTask}
                                      THEN LeasedTo(row[r], t) ELSE row[r]]
        BY <1>2, <2>1 DEF Renew
      <4> QED  BY <4>1, <1>0, LeasedRow DEF TypeOK, RowValues
    <3>2. lease' \in [Rows -> [Tasks -> Left]]
      <4>1. lease' = [lease EXCEPT ![r][t] = TTL]
        BY <1>2, <2>1 DEF Renew
      <4> QED  BY <4>1, <1>0, LeaseType, TTLInLeft
    <3>3. op' \in CallValues
      BY <1>2, <2>1, BumpReturnType DEF Renew
    <3> QED  BY <1>2, <3>1, <3>2, <3>3, PartsGiveType DEF Renew, TypeParts, TypeOK
  <2>2. CASE ~(op[t].fresh /\ Live(r, t))
    <3>1. op' \in CallValues /\ phase' \in [Tasks -> Phases]
      BY <1>0, <1>2, <2>2, ReturnType DEF Renew
    <3> QED  BY <1>2, <2>2, <3>1, ReadType DEF Renew
  <2> QED  BY <2>1, <2>2
<1>3. CASE RenewRead(t)
  <2> phase' \in [Tasks -> Phases] /\ op' \in CallValues
    BY <1>0, <1>3, ReturnType DEF RenewRead
  <2> QED  BY <1>3, ReadType DEF RenewRead
<1> QED  BY <1>1, <1>2, <1>3

LEMMA ReleaseType ==
  ASSUME TypeOK, NEW t \in Tasks, ReleaseStart(t) \/ Release(t) PROVE TypeOK'
<1> DEFINE r == RowOf[t]
           p == Released(t)
<1>0. /\ r \in Rows /\ row[r] \in RowRecord
      /\ p \in Phases /\ (SetPhase(t, p) => phase' \in [Tasks -> Phases])
  <2>1. p \in Phases
    BY DEF Released, Phases, Undoing, Stopping, Over
  <2> HIDE DEF p
  <2> QED  BY <2>1, ConstantsAssumption, SetPhaseType DEF TypeOK
<1>1. CASE ReleaseStart(t)
  <2>1. op' \in CallValues
    BY <1>1, CallType DEF ReleaseStart, Calls, TypeOK, CallValues
  <2>2. phase' \in [Tasks -> Phases]
    BY <1>0, <1>1 DEF ReleaseStart, TypeOK
  <2> QED  BY <1>1, <2>1, <2>2, ReadType DEF ReleaseStart
<1>2. CASE Release(t)
  <2>1. CASE lease[r][t] = NoLease
    <3>1. op' \in CallValues /\ phase' \in [Tasks -> Phases]
      BY <1>0, <1>2, <2>1, ReturnType DEF Release
    <3> QED  BY <1>2, <2>1, <3>1, ReadType DEF Release
  <2>2. CASE lease[r][t] # NoLease
    <3> DEFINE ls == [lease[r] EXCEPT ![t] = NoLease]
    <3>1. /\ ReleaseRow(r, t) /\ BumpReturn(t) /\ SetPhase(t, p)
          /\ UNCHANGED <<origin, picked, boot>>
      BY <1>2, <2>2 DEF Release
    <3>2. ls \in [Tasks -> Left]
      BY <1>0, TTLInLeft DEF TypeOK
    <3>3. lease' \in [Rows -> [Tasks -> Left]]
      BY <1>0, <3>1, <3>2 DEF ReleaseRow, TypeOK
    <3>4. row' \in RowValues
      <4> DEFINE new == IF Remaining(ls) # {} THEN Handed(row[r], ls)
                        ELSE Freed(row[r], ReleaseStatus(row[r]), row[r].batch)
      <4>1. row' = [row EXCEPT ![r] = new]
        BY <3>1 DEF ReleaseRow
      <4>2. row[r].batch \in Batches
        BY <1>0 DEF RowRecord, Batches
      <4>3. new \in RowRecord
        <5> HIDE DEF ls
        <5> QED  BY <1>0, <3>2, <4>2, HandedType, FreedType, ReleaseStatusType DEF Batches
      <4> HIDE DEF new
      <4> QED  BY <4>1, <4>3 DEF TypeOK, RowValues
    <3>5. op' \in CallValues /\ phase' \in [Tasks -> Phases]
      BY <1>0, <3>1, BumpReturnType
    <3> QED  BY <3>1, <3>3, <3>4, <3>5, PartsGiveType DEF TypeParts
  <2> QED  BY <2>1, <2>2
<1> QED  BY <1>1, <1>2

LEMMA PersistFailureType ==
  ASSUME TypeOK, NEW t \in Tasks, NEW p \in Phases, PersistFailure(t, p) PROVE TypeOK'
<1>1. RowOf[t] \in Rows /\ row[RowOf[t]] \in RowRecord
  BY ConstantsAssumption DEF TypeOK
<1>2. row' = [row EXCEPT ![RowOf[t]] = Envelope(row[RowOf[t]])]
  BY DEF PersistFailure
<1>3. row' \in [Rows -> RowRecord]
  BY <1>1, <1>2, EnvelopeRow DEF TypeOK
<1> QED  BY <1>3, SetPhaseType DEF PersistFailure, TypeOK

LEMMA WorkType ==
  ASSUME TypeOK, NEW t \in Tasks, Work(t) PROVE TypeOK'
<1> DEFINE r == RowOf[t]
<1>0. /\ r \in Rows /\ row[r] \in RowRecord
      /\ row[r].batch \in {BatchOf[u] : u \in Tasks} \cup {NoBatch}
      /\ \A p \in {"running", "submitted", "saved", "closing", "failing", "stopping"} :
           SetPhase(t, p) => phase' \in [Tasks -> Phases]
  BY ConstantsAssumption, SetPhaseType
     DEF TypeOK, RowRecord, Phases, Working, Finishing, Stopping
<1>1. CASE WorkerStart(t)
  BY <1>1, <1>0 DEF WorkerStart, TypeOK
<1>2. CASE Submit(t)
  BY <1>2, <1>0 DEF Submit, TypeOK
<1>3. CASE SaveResult(t)
  <2>1. row' = [row EXCEPT ![r] = [row[r] EXCEPT !.result = "account"]]
    BY <1>3 DEF SaveResult
  <2>2. row' \in RowValues
    BY <2>1, <1>0, ResultRow DEF TypeOK, RowValues
  <2> QED  BY <1>0, <1>3, <2>2 DEF SaveResult, TypeOK, RowValues
<1>4. CASE MarkSuccess(t)
  <2>1. row' \in RowValues /\ op' \in CallValues
    BY <1>0, <1>4, UpdateRowType, StatusNames DEF MarkSuccess
  <2> QED  BY <1>0, <1>4, <2>1, PartsGiveType DEF MarkSuccess, TypeParts, TypeOK
<1>5. CASE Fail(t)
  BY <1>5, <1>0 DEF Fail, TypeOK
<1>6. CASE RecordFailure(t)
  <2>1. row' \in RowValues /\ op' \in CallValues
    BY <1>0, <1>6, UpdateRowType, StatusNames DEF RecordFailure, TypeOK, RowValues, CallValues
  <2> QED  BY <1>0, <1>6, <2>1, PartsGiveType DEF RecordFailure, TypeParts, TypeOK
<1>7. CASE StopQueued(t)
  <2>1. row' \in RowValues /\ op' \in CallValues
    BY <1>0, <1>7, UpdateRowType, StatusNames DEF StopQueued
  <2> QED  BY <1>0, <1>7, <2>1, PartsGiveType DEF StopQueued, TypeParts, TypeOK
<1>8. CASE StoppedRuns(t)
  <2>1. row' \in RowValues /\ op' \in CallValues
    BY <1>0, <1>8, UpdateRowType, StatusNames DEF StoppedRuns
  <2> QED  BY <1>0, <1>8, <2>1, PartsGiveType DEF StoppedRuns, TypeParts, TypeOK
<1>9. CASE SaveFailure(t) \/ HaltQueued(t)
  <2> {"recorded", "halted"} \subseteq Phases
    BY DEF Phases, Finishing, Stopping
  <2> QED  BY <1>9, PersistFailureType DEF SaveFailure, HaltQueued
<1> QED  BY <1>1, <1>2, <1>3, <1>4, <1>5, <1>6, <1>7, <1>8, <1>9 DEF Work

LEMMA OperatorType ==
  ASSUME TypeOK, \E r \in Rows : SetStatusCheck(r) \/ SetStatusWrite(r) PROVE TypeOK'
<1>1. ASSUME NEW r \in Rows, SetStatusCheck(r) PROVE TypeOK'
  BY <1>1 DEF SetStatusCheck, TypeOK
<1>2. ASSUME NEW r \in Rows, SetStatusWrite(r) PROVE TypeOK'
  <2>1. row[r].batch \in {BatchOf[u] : u \in Tasks} \cup {NoBatch}
    BY DEF TypeOK, RowRecord
  <2>2. row' \in RowValues /\ op' \in CallValues
    BY <1>2, <2>1, UpdateRowType, StatusNames DEF SetStatusWrite
  <2> QED  BY <1>2, <2>2 DEF SetStatusWrite, TypeOK, RowValues, CallValues
<1> QED  BY <1>1, <1>2

LEMMA TickType == ASSUME TypeOK, Tick PROVE TypeOK'
<1>1. lease' \in [Rows -> [Tasks -> Left]]
  BY OlderInLeft DEF Tick, TypeOK
<1>2. row' \in RowValues
  <2>1. ASSUME NEW r \in Rows
        PROVE  [row[r] EXCEPT !.left = Older(row[r].left)] \in RowRecord
    <3>1. row[r] \in RowRecord /\ row[r].left \in Left
      BY DEF TypeOK, RowRecord
    <3> QED  BY <3>1, OlderInLeft, AgedRow
  <2>2. row' = [r \in Rows |-> [row[r] EXCEPT !.left = Older(row[r].left)]]
    BY DEF Tick
  <2> QED  BY <2>1, <2>2 DEF RowValues
<1> QED  BY <1>1, <1>2 DEF Tick, TypeOK, RowValues

LEMMA RecoverType == ASSUME TypeOK, Recover PROVE TypeOK'
<1>1. CASE RecoverExpired
  <2>1. row' \in RowValues /\ lease' \in [Rows -> [Tasks -> Left]]
    BY <1>1, RecoveredType, SweptType DEF RecoverExpired, RowValues
  <2>2. op' \in CallValues
    BY <1>1, OutdatedType DEF RecoverExpired
  <2> QED  BY <1>1, <2>1, <2>2 DEF RecoverExpired, TypeOK, RowValues, CallValues
<1>2. CASE RecoverOrphaned
  <2>1. row' \in RowValues
    <3>1. ASSUME NEW r \in Rows
          PROVE  row[r] \in RowRecord /\ Freed(row[r], "available", NoBatch) \in RowRecord
      <4>1. row[r] \in RowRecord
        BY DEF TypeOK
      <4> QED  BY <4>1, FreedType, StatusNames
    <3> QED  BY <1>2, <3>1 DEF RecoverOrphaned, RowValues
  <2>2. lease' \in [Rows -> [Tasks -> Left]]
    BY <1>2, SweptType DEF RecoverOrphaned, TypeOK
  <2>3. op' \in CallValues
    BY <1>2, OutdatedType DEF RecoverOrphaned
  <2> QED  BY <1>2, <2>1, <2>2, <2>3 DEF RecoverOrphaned, TypeOK, RowValues, CallValues
<1>3. CASE RecoverReserved
  <2>1. row' \in RowValues
    <3>1. ASSUME NEW r \in Rows
          PROVE  row[r] \in RowRecord /\ Updated(r, "available", NoBatch, FALSE) \in RowRecord
      <4>1. row[r] \in RowRecord
        BY DEF TypeOK
      <4> QED  BY <4>1, UpdatedType, StatusNames
    <3> QED  BY <1>3, <3>1 DEF RecoverReserved, RowValues
  <2>2. op' \in CallValues
    BY <1>3, OutdatedType DEF RecoverReserved
  <2> QED  BY <1>3, <2>1, <2>2 DEF RecoverReserved, TypeOK, RowValues, CallValues
<1>4. ASSUME NEW t \in Tasks, RecoverTask(t) PROVE TypeOK'
  <2>0. RowOf[t] \in Rows
    BY ConstantsAssumption
  <2>1. row' \in RowValues /\ op' \in CallValues
    BY <1>4, <2>0, UpdateRowType, StatusNames DEF RecoverTask, TypeOK, RowValues, CallValues
  <2>2. phase' \in [Tasks -> Phases]
    BY <1>4, SetPhaseType DEF RecoverTask, Phases, Finishing
  <2> QED  BY <1>4, <2>1, <2>2, PartsGiveType DEF RecoverTask, TypeParts, TypeOK
<1>5. CASE BootDone
  BY <1>5 DEF BootDone, TypeOK
<1>6. ASSUME NEW t \in Tasks, RecoverSave(t) PROVE TypeOK'
  <2> {"recoverQueued", "recoverRunning"} \subseteq Phases
    BY DEF Phases, Recovering
  <2> QED  BY <1>6, PersistFailureType DEF RecoverSave
<1> QED  BY <1>1, <1>2, <1>3, <1>4, <1>5, <1>6 DEF Recover

LEMMA CrashType == ASSUME TypeOK, Crash PROVE TypeOK'
  BY DEF Crash, TypeOK, Idle, Calls, Phases, Over, Crashed

LEMMA NextType == TypeOK /\ [Next]_vars => TypeOK'
<1> SUFFICES ASSUME TypeOK, [Next]_vars PROVE TypeOK'
  OBVIOUS
<1>1. ASSUME NEW t \in Tasks, Coordinate(t) PROVE TypeOK'
  BY <1>1, AcquireType, ConfirmType, AbortType, RenewType, ReleaseType DEF Coordinate
<1>2. ASSUME NEW t \in Tasks, Work(t) \/ Dispatch(t) PROVE TypeOK'
  BY <1>2, WorkType, DispatchType
<1>3. CASE UNCHANGED vars
  BY <1>3 DEF vars, TypeOK
<1> QED
  BY <1>1, <1>2, <1>3, ManagerType, OperatorType, CrashType, RecoverType, TickType DEF Next

\* Every variable keeps its type: statuses stay within the pool's vocabulary, no
\* lease lives longer than its TTL, and no owner or marker names an unknown task.
THEOREM TypeCorrect == Spec => []TypeOK
  BY InitType, NextType, PTL DEF Spec
-----------------------------------------------------------------------------
(* The row and the sidecar agree.  Named is inductive row by row; TypeOK    *)
(* is needed to know that an owner is a task and that instants are numbers. *)

LEMMA SameLeases ==
  ASSUME ScalarNamesSidecar, lease' = lease,
         \A r \in Rows : row'[r].owner = row[r].owner /\ row'[r].left = row[r].left
  PROVE  ScalarNamesSidecar'
  BY DEF ScalarNamesSidecar, Named

LEMMA UpdateRowKeepsLease ==
  ASSUME TypeOK, NEW r \in Rows, NEW st, NEW b, NEW o, UpdateRow(r, st, b, o)
  PROVE  \A s \in Rows : row'[s].owner = row[s].owner /\ row'[s].left = row[s].left
<1>1. row' = [row EXCEPT ![r] = Updated(r, st, b, o)]
  BY DEF UpdateRow
<1>2. row[r] \in RowRecord
  BY DEF TypeOK
<1>3. /\ Updated(r, st, b, o).owner = row[r].owner
      /\ Updated(r, st, b, o).left = row[r].left
  BY <1>2 DEF Updated, RowRecord
<1> QED  BY <1>1, <1>3 DEF TypeOK

\* A new lease on a row that no other task holds.
LEMMA GrantNamed ==
  ASSUME NEW me \in RowRecord, NEW ls \in [Tasks -> Left], NEW t \in Tasks,
         \A u \in Tasks : ls[u] > 0 => u = t
  PROVE  /\ Named(LeasedTo(me, t), [ls EXCEPT ![t] = TTL])
         /\ Named(ClaimedBy(me, t), [ls EXCEPT ![t] = TTL])
<1>1. LeasedTo(me, t).owner = t /\ LeasedTo(me, t).left = TTL
  BY DEF LeasedTo, RowRecord
<1>2. ClaimedBy(me, t).owner = t /\ ClaimedBy(me, t).left = TTL
  BY DEF ClaimedBy, RowRecord
<1> QED  BY <1>1, <1>2, ConstantsAssumption DEF Named

\* Dropping sidecar rows leaves the scalar naming the live one, if any is left.
LEMMA HandedNamed ==
  ASSUME NEW me \in RowRecord, NEW ls \in [Tasks -> Left], Remaining(ls) # {},
         \A t, u \in Tasks : ls[t] > 0 /\ ls[u] > 0 => t = u
  PROVE  Named(Handed(me, ls), ls)
<1> DEFINE u == CHOOSE t \in Remaining(ls) : TRUE
<1>1. u \in Tasks /\ ls[u] > 0
  BY DEF Remaining
<1>2. Handed(me, ls).owner = u /\ Handed(me, ls).left = ls[u]
  <2>1. Handed(me, ls) = [me EXCEPT !.owner = u, !.left = ls[u]]
    BY DEF Handed
  <2> HIDE DEF u
  <2> QED  BY <2>1 DEF RowRecord
<1> HIDE DEF u
<1> QED  BY <1>1, <1>2, ConstantsAssumption DEF Named

LEMMA FreedNamed ==
  ASSUME NEW me \in RowRecord, NEW ls \in [Tasks -> Left], NEW st, NEW b,
         \A t \in Tasks : ~(ls[t] > 0)
  PROVE  Named(Freed(me, st, b), ls)
<1>1. Freed(me, st, b).owner = NoTask /\ Freed(me, st, b).left = NoLease
  BY DEF Freed, RowRecord
<1> QED  BY <1>1 DEF Named

\* Remaining is only empty when no sidecar row is live: the single live one would
\* be the longest.
LEMMA RemainingLive ==
  ASSUME NEW ls \in [Tasks -> Left], NEW o \in Tasks,
         \A t \in Tasks : ls[t] > 0 => t = o
  PROVE  Remaining(ls) = {} => \A t \in Tasks : ~(ls[t] > 0)
<1> SUFFICES ASSUME ls[o] > 0 PROVE o \in Remaining(ls)
  OBVIOUS
<1>1. \A t \in Tasks : ls[t] \in Int /\ (t # o => ls[t] <= 0)
  BY ConstantsAssumption DEF Left, NoLease
<1> QED  BY <1>1 DEF Remaining
\* One row's lease moves, the others stay.
LEMMA OneRowNamed ==
  ASSUME TypeOK, ScalarNamesSidecar, NEW r \in Rows, NEW me, NEW ls,
         row' = [row EXCEPT ![r] = me], Named(me, ls),
         \A s \in Rows : lease'[s] = IF s = r THEN ls ELSE lease[s]
  PROVE  ScalarNamesSidecar'
<1>1. \A s \in Rows : row'[s] = IF s = r THEN me ELSE row[s]
  BY DEF TypeOK
<1>2. \A s \in Rows : Named(row'[s], lease'[s])
  BY <1>1 DEF ScalarNamesSidecar
<1> QED  BY <1>2 DEF ScalarNamesSidecar, Named

LEMMA GrantKeepsNamed ==
  ASSUME TypeOK, ScalarNamesSidecar, NEW r \in Rows, NEW t \in Tasks,
         \A u \in Tasks : lease[r][u] > 0 => u = t,
         \/ row' = [row EXCEPT ![r] = LeasedTo(row[r], t)]
         \/ row' = [row EXCEPT ![r] = ClaimedBy(row[r], t)],
         lease' = [lease EXCEPT ![r][t] = TTL]
  PROVE  ScalarNamesSidecar'
<1> DEFINE ls == [lease[r] EXCEPT ![t] = TTL]
<1>1. row[r] \in RowRecord /\ lease[r] \in [Tasks -> Left]
  BY DEF TypeOK
<1>2. Named(LeasedTo(row[r], t), ls) /\ Named(ClaimedBy(row[r], t), ls)
  BY <1>1, GrantNamed
<1>3. \A s \in Rows : lease'[s] = IF s = r THEN ls ELSE lease[s]
  BY DEF TypeOK
<1> HIDE DEF ls
<1>4. CASE row' = [row EXCEPT ![r] = LeasedTo(row[r], t)]
  BY <1>2, <1>3, <1>4, OneRowNamed
<1>5. CASE row' = [row EXCEPT ![r] = ClaimedBy(row[r], t)]
  BY <1>2, <1>3, <1>5, OneRowNamed
<1> QED  BY <1>4, <1>5

LEMMA CoordinateNamed ==
  ASSUME TypeOK, ScalarNamesSidecar, NEW t \in Tasks, Coordinate(t)
  PROVE  ScalarNamesSidecar'
<1> DEFINE r == RowOf[t]
<1>0. r \in Rows /\ row[r] \in RowRecord /\ lease[r] \in [Tasks -> Left]
  BY ConstantsAssumption DEF TypeOK
<1>1. ASSUME UNCHANGED <<row, lease>> PROVE ScalarNamesSidecar'
  BY <1>1, SameLeases
<1>2. CASE Claim(t)
  <2>1. CASE Reservable(r) /\ ~Confirmed(r)
    <3>1. row' = [row EXCEPT ![r] = ClaimedBy(row[r], t)] /\ lease' = [lease EXCEPT ![r][t] = TTL]
      BY <1>2, <2>1 DEF Claim, GiveLease
    <3>2. \A u \in Tasks : ~(lease[r][u] > 0)
      BY <2>1 DEF Reservable, Leased, LiveOwners, Live
    <3> QED  BY <1>0, <3>1, <3>2, GrantKeepsNamed
  <2>2. CASE ~(Reservable(r) /\ ~Confirmed(r))
    BY <1>1, <1>2, <2>2 DEF Claim
  <2> QED  BY <2>1, <2>2
<1>3. CASE AdoptRead(t)
  BY <1>1, <1>3 DEF AdoptRead, AcquireFails
<1>4. CASE Adopt(t)
  <2>1. CASE op[t].fresh /\ LiveOwners(r) \subseteq {t}
    <3>1. row' = [row EXCEPT ![r] = LeasedTo(row[r], t)] /\ lease' = [lease EXCEPT ![r][t] = TTL]
      BY <1>4, <2>1 DEF Adopt
    <3>2. \A u \in Tasks : lease[r][u] > 0 => u = t
      BY <2>1 DEF LiveOwners, Live
    <3> QED  BY <1>0, <3>1, <3>2, GrantKeepsNamed
  <2>2. CASE ~(op[t].fresh /\ LiveOwners(r) \subseteq {t})
    BY <1>1, <1>4, <2>2 DEF Adopt, AcquireFails
  <2> QED  BY <2>1, <2>2
<1>5. CASE ConfirmStart(t) \/ ConfirmRead(t)
  BY <1>1, <1>5 DEF ConfirmStart, ConfirmRead
<1>6. CASE Confirm(t)
  <2>1. CASE row' = [row EXCEPT ![r] = [row[r] EXCEPT !.status = "running", !.marker = t,
                                                     !.batch = BatchOf[t]]]
    <3>1. \A s \in Rows : row'[s].owner = row[s].owner /\ row'[s].left = row[s].left
      BY <1>0, <2>1 DEF TypeOK, RowRecord
    <3>2. lease' = lease
      BY <1>6 DEF Confirm
    <3> QED  BY <3>1, <3>2, SameLeases
  <2> QED  BY <1>1, <1>6, <2>1 DEF Confirm
<1>7. CASE AbortStart(t) \/ AbortRead(t)
  BY <1>1, <1>7 DEF AbortStart, AbortRead
<1>8. CASE Abort(t)
  <2>1. CASE row' = [row EXCEPT ![r] = [row[r] EXCEPT !.status = "reserved",
                                                     !.marker = NoTask]]
    <3>1. \A s \in Rows : row'[s].owner = row[s].owner /\ row'[s].left = row[s].left
      BY <1>0, <2>1 DEF TypeOK, RowRecord
    <3>2. lease' = lease
      BY <1>8 DEF Abort
    <3> QED  BY <3>1, <3>2, SameLeases
  <2> QED  BY <1>1, <1>8, <2>1 DEF Abort
<1>9. CASE RenewStart(t) \/ RenewRead(t)
  BY <1>1, <1>9 DEF RenewStart, RenewRead
<1>10. CASE Renew(t)
  <2>1. CASE op[t].fresh /\ Live(r, t)
    \* the row already names the live lease it is about to lengthen
    <3>1. row[r].owner = t /\ \A u \in Tasks : lease[r][u] > 0 => u = t
      BY <1>0, <2>1 DEF ScalarNamesSidecar, Named, Live
    <3>2. row' = [row EXCEPT ![r] = LeasedTo(row[r], t)] /\ lease' = [lease EXCEPT ![r][t] = TTL]
      BY <1>10, <2>1, <3>1 DEF Renew
    <3> QED  BY <1>0, <3>1, <3>2, GrantKeepsNamed
  <2>2. CASE ~(op[t].fresh /\ Live(r, t))
    BY <1>1, <1>10, <2>2 DEF Renew
  <2> QED  BY <2>1, <2>2
<1>11. CASE ReleaseStart(t)
  BY <1>1, <1>11 DEF ReleaseStart
<1>12. CASE Release(t)
  <2>1. CASE lease[r][t] = NoLease
    BY <1>1, <1>12, <2>1 DEF Release
  <2>2. CASE lease[r][t] # NoLease
    <3> DEFINE ls  == [lease[r] EXCEPT ![t] = NoLease]
               new == IF Remaining(ls) # {} THEN Handed(row[r], ls)
                      ELSE Freed(row[r], ReleaseStatus(row[r]), row[r].batch)
    <3>1. row' = [row EXCEPT ![r] = new] /\ lease' = [lease EXCEPT ![r] = ls]
      BY <1>12, <2>2 DEF Release, ReleaseRow
    <3>2. ls \in [Tasks -> Left]
      BY <1>0, TTLInLeft
    <3>3. \A u \in Tasks : ls[u] > 0 => lease[r][u] > 0
      BY <1>0 DEF NoLease
    <3>4. \A u \in Tasks : ls[u] > 0 => row[r].owner = u
      BY <1>0, <3>3 DEF ScalarNamesSidecar, Named
    <3>5. Named(new, ls)
      <4>1. CASE Remaining(ls) # {}
        <5> HIDE DEF ls
        <5> QED  BY <1>0, <3>2, <3>4, <4>1, HandedNamed
      <4>2. CASE Remaining(ls) = {}
        <5> HIDE DEF ls
        <5>1. \A u \in Tasks : ~(ls[u] > 0)
          BY <3>2, <3>4, <4>2, RemainingLive
        <5> QED  BY <1>0, <3>2, <4>2, <5>1, FreedNamed
      <4> QED  BY <4>1, <4>2
    <3>6. \A s \in Rows : lease'[s] = IF s = r THEN ls ELSE lease[s]
      BY <3>1 DEF TypeOK
    <3> HIDE DEF ls, new
    <3> QED  BY <1>0, <3>1, <3>5, <3>6, OneRowNamed
  <2> QED  BY <2>1, <2>2
<1> QED
  BY <1>2, <1>3, <1>4, <1>5, <1>6, <1>7, <1>8, <1>9, <1>10, <1>11, <1>12 DEF Coordinate

LEMMA PersistFailureNamed ==
  ASSUME TypeOK, ScalarNamesSidecar, NEW t \in Tasks, NEW p, PersistFailure(t, p)
  PROVE  /\ \A s \in Rows : row'[s].owner = row[s].owner /\ row'[s].left = row[s].left
         /\ ScalarNamesSidecar'
<1>1. RowOf[t] \in Rows /\ row[RowOf[t]] \in RowRecord
  BY ConstantsAssumption DEF TypeOK
<1>2. row' = [row EXCEPT ![RowOf[t]] = Envelope(row[RowOf[t]])] /\ lease' = lease
  BY DEF PersistFailure
<1>3. \A s \in Rows : row'[s].owner = row[s].owner /\ row'[s].left = row[s].left
  BY <1>1, <1>2, EnvelopeRow DEF TypeOK
<1> QED  BY <1>2, <1>3, SameLeases

LEMMA RecoverNamed ==
  ASSUME TypeOK, ScalarNamesSidecar, Recover PROVE ScalarNamesSidecar'
<1>0. ASSUME NEW r \in Rows
      PROVE  row[r] \in RowRecord /\ Swept(r) \in [Tasks -> Left]
  BY SweptType DEF TypeOK
<1>1. CASE RecoverExpired
  <2>1. ASSUME NEW r \in Rows PROVE Named(Recovered(r), Swept(r))
    <3>1. CASE ~Expired(r)
      <4>1. \A t \in Tasks : Swept(r)[t] = lease[r][t]
        BY <3>1 DEF Expired, Swept
      <4>2. Recovered(r) = row[r]
        BY <3>1 DEF Recovered
      <4> QED  BY <1>0, <4>1, <4>2 DEF ScalarNamesSidecar, Named, RowRecord
    <3>2. CASE Expired(r)
      <4>1. \A t \in Tasks : Swept(r)[t] > 0 => row[r].owner = t
        BY DEF Swept, NoLease, ScalarNamesSidecar, Named
      <4>2. CASE Remaining(Swept(r)) # {}
        <5>1. Recovered(r) = Handed(row[r], Swept(r))
          BY <3>2, <4>2 DEF Recovered
        <5> QED  BY <1>0, <4>1, <4>2, <5>1, HandedNamed
      <4>3. CASE Remaining(Swept(r)) = {}
        <5>1. \A t \in Tasks : ~(Swept(r)[t] > 0)
          BY <1>0, <4>1, <4>3, RemainingLive
        <5>2. \E st, b : Recovered(r) = Freed(row[r], st, b)
          BY <3>2, <4>3 DEF Recovered
        <5> QED  BY <1>0, <5>1, <5>2, FreedNamed
      <4> QED  BY <4>2, <4>3
    <3> QED  BY <3>1, <3>2
  <2>2. \A r \in Rows : row'[r] = Recovered(r) /\ lease'[r] = Swept(r)
    BY <1>1 DEF RecoverExpired
  <2> QED  BY <2>1, <2>2 DEF ScalarNamesSidecar, Named
<1>2. CASE RecoverOrphaned
  <2>1. ASSUME NEW r \in Rows, Orphaned(r)
        PROVE  Named(Freed(row[r], "available", NoBatch), Swept(r))
    <3>1. \A t \in Tasks : ~(Swept(r)[t] > 0)
      BY <2>1 DEF Orphaned, Leased, LiveOwners, Live, Swept, NoLease
    <3> QED  BY <1>0, <3>1, FreedNamed
  <2>2. ASSUME NEW r \in Rows
        PROVE  /\ row'[r] = IF Orphaned(r) THEN Freed(row[r], "available", NoBatch)
                                            ELSE row[r]
               /\ lease'[r] = IF Orphaned(r) THEN Swept(r) ELSE lease[r]
    BY <1>2 DEF RecoverOrphaned
  <2>3. ASSUME NEW r \in Rows PROVE Named(row'[r], lease'[r])
    BY <2>1, <2>2 DEF ScalarNamesSidecar
  <2> QED  BY <2>3 DEF ScalarNamesSidecar, Named
<1>3. CASE RecoverReserved
  <2>1. ASSUME NEW r \in Rows
        PROVE  row'[r].owner = row[r].owner /\ row'[r].left = row[r].left
    <3>1. row'[r] = row[r] \/ row'[r] = Updated(r, "available", NoBatch, FALSE)
      BY <1>3 DEF RecoverReserved
    <3> QED  BY <1>0, <3>1 DEF Updated, RowRecord
  <2> QED  BY <1>3, <2>1, SameLeases DEF RecoverReserved
<1>4. ASSUME NEW t \in Tasks, RecoverTask(t) PROVE ScalarNamesSidecar'
  <2>1. RowOf[t] \in Rows /\ lease' = lease
    BY <1>4, ConstantsAssumption DEF RecoverTask
  <2>2. \A s \in Rows : row'[s].owner = row[s].owner /\ row'[s].left = row[s].left
    BY <1>4, <2>1, UpdateRowKeepsLease DEF RecoverTask
  <2> QED  BY <2>1, <2>2, SameLeases
<1>5. CASE BootDone
  BY <1>5, SameLeases DEF BootDone
<1>6. ASSUME NEW t \in Tasks, RecoverSave(t) PROVE ScalarNamesSidecar'
  BY <1>6, PersistFailureNamed DEF RecoverSave
<1> QED  BY <1>1, <1>2, <1>3, <1>4, <1>5, <1>6 DEF Recover

LEMMA WorkNamed ==
  ASSUME TypeOK, ScalarNamesSidecar, NEW t \in Tasks, Work(t) \/ Dispatch(t)
  PROVE  ScalarNamesSidecar'
<1>1. RowOf[t] \in Rows
  BY ConstantsAssumption
<1>2. lease' = lease
  BY DEF PersistFailure, SaveFailure, HaltQueued, Work, WorkerStart, Submit, SaveResult, MarkSuccess, Fail, RecordFailure, StopQueued,
     StoppedRuns, Dispatch, RerunRead, RerunRestore, ResetRow, NoteQueued
<1>3. \A s \in Rows : row'[s].owner = row[s].owner /\ row'[s].left = row[s].left
  <2>1. CASE SaveResult(t)
    BY <1>1, <2>1 DEF SaveResult, TypeOK, RowRecord
  <2>2. CASE WorkerStart(t) \/ Submit(t) \/ Fail(t) \/ RerunRead(t)
    BY <2>2 DEF WorkerStart, Submit, Fail, RerunRead
  <2>3. CASE MarkSuccess(t) \/ RecordFailure(t) \/ StopQueued(t) \/ StoppedRuns(t)
    BY <1>1, <2>3, UpdateRowKeepsLease
       DEF MarkSuccess, RecordFailure, StopQueued, StoppedRuns
  <2>4. CASE RerunRestore(t) \/ ResetRow(t) \/ NoteQueued(t)
    BY <1>1, <2>4, UpdateRowKeepsLease DEF RerunRestore, ResetRow, NoteQueued
  <2>5. CASE SaveFailure(t) \/ HaltQueued(t)
    BY <2>5, PersistFailureNamed DEF SaveFailure, HaltQueued
  <2> QED  BY <2>1, <2>2, <2>3, <2>4, <2>5 DEF Work, Dispatch
<1> QED  BY <1>2, <1>3, SameLeases

LEMMA ReserveNamed == ASSUME TypeOK, ScalarNamesSidecar, Reserve PROVE ScalarNamesSidecar'
<1> DEFINE S == Selection
<1>1. CASE \A t \in S : Reservable(RowOf[t])
  <2>1. ASSUME NEW r \in Rows PROVE Named(row'[r], lease'[r])
    <3>0. row[r] \in RowRecord /\ lease' = lease
      BY <1>1 DEF Reserve, TypeOK
    <3>1. CASE \E t \in S : RowOf[t] = r
      <4> DEFINE b == BatchOf[CHOOSE t \in S : RowOf[t] = r]
      <4>1. row'[r] = [row[r] EXCEPT !.status = "reserved", !.marker = NoTask,
                               !.batch = b, !.owner = NoTask, !.left = NoLease]
        BY <1>1, <3>1 DEF Reserve
      <4>2. row'[r].owner = NoTask /\ row'[r].left = NoLease
        <5> HIDE DEF b
        <5> QED  BY <3>0, <4>1 DEF RowRecord
      <4>3. \A u \in Tasks : ~(lease[r][u] > 0)
        BY <1>1, <3>1 DEF Reservable, Leased, LiveOwners, Live
      <4> QED  BY <3>0, <4>2, <4>3 DEF Named
    <3>2. CASE ~\E t \in S : RowOf[t] = r
      <4>1. row'[r] = row[r]
        BY <1>1, <3>2 DEF Reserve
      <4> QED  BY <3>0, <4>1 DEF ScalarNamesSidecar
    <3> QED  BY <3>1, <3>2
  <2> QED  BY <2>1 DEF ScalarNamesSidecar, Named
<1>2. CASE ~(\A t \in S : Reservable(RowOf[t]))
  BY <1>2, SameLeases DEF Reserve
<1> QED  BY <1>1, <1>2

LEMMA TickNamed == ASSUME TypeOK, ScalarNamesSidecar, Tick PROVE ScalarNamesSidecar'
<1>1. ASSUME NEW r \in Rows PROVE Named(row'[r], lease'[r])
  <2>1. /\ row'[r] = [row[r] EXCEPT !.left = Older(row[r].left)]
        /\ lease'[r] = [t \in Tasks |-> Older(lease[r][t])]
    BY DEF Tick
  <2>2. /\ row[r] \in RowRecord
        /\ row'[r].owner = row[r].owner /\ row'[r].left = Older(row[r].left)
    BY <2>1 DEF TypeOK, RowRecord
  <2>3. \A t \in Tasks : lease[r][t] \in Int /\ (lease'[r][t] > 0 => lease[r][t] > 0)
    BY <2>1, ConstantsAssumption DEF TypeOK, Left, NoLease, Older
  <2>4. row[r].owner # NoTask => row[r].owner \in Tasks
    BY <2>2 DEF RowRecord
  <2> QED  BY <2>1, <2>2, <2>3, <2>4 DEF ScalarNamesSidecar, Named, Older, NoLease
<1> QED  BY <1>1 DEF ScalarNamesSidecar, Named

LEMMA NextNamed == TypeOK /\ ScalarNamesSidecar /\ [Next]_vars => ScalarNamesSidecar'
<1> SUFFICES ASSUME TypeOK, ScalarNamesSidecar, [Next]_vars PROVE ScalarNamesSidecar'
  OBVIOUS
<1>1. ASSUME NEW t \in Tasks, Coordinate(t) \/ Work(t) \/ Dispatch(t)
      PROVE  ScalarNamesSidecar'
  BY <1>1, CoordinateNamed, WorkNamed
<1>2. CASE \/ SelectBatch \/ StartupFails \/ Enqueue \/ Crash
           \/ \E r \in Rows : SetStatusCheck(r)
  BY <1>2, SameLeases DEF SelectBatch, StartupFails, Enqueue, SetStatusCheck, Crash
<1>3. ASSUME NEW r \in Rows, SetStatusWrite(r) PROVE ScalarNamesSidecar'
  BY <1>3, UpdateRowKeepsLease, SameLeases DEF SetStatusWrite
<1>4. CASE UNCHANGED vars
  BY <1>4, SameLeases DEF vars
<1> QED  BY <1>1, <1>2, <1>3, <1>4, ReserveNamed, RecoverNamed, TickNamed DEF Next

LEMMA InitNamed == Init => ScalarNamesSidecar
  BY DEF Init, FreshRow, ScalarNamesSidecar, Named, NoLease

\* The row's own lease columns and the resource_leases table never disagree: both
\* are rewritten by every claim, renewal, hand-over, release and recovery.
THEOREM ScalarCorrect == Spec => []ScalarNamesSidecar
  BY InitNamed, NextNamed, TypeCorrect, PTL DEF Spec

\* At no time do two tasks hold a live lease on one address, however claims,
\* adoptions, expiries, restarts and foreign recoveries interleave.
THEOREM OneOwner == Spec => []OneLiveOwner
<1>1. ScalarNamesSidecar => OneLiveOwner
  BY DEF ScalarNamesSidecar, Named, OneLiveOwner
<1> QED  BY <1>1, ScalarCorrect, PTL

-----------------------------------------------------------------------------
(* Calls in flight.  A worker waits for its own call, so what a call does   *)
(* when it returns is done to a task that is still where it made the call.  *)

\* Where a task may be while its call c is in flight.
InPlace(c, p) ==
  /\ c \in {"claim", "adopt"} => p = "reserved"
  /\ c \in {"confirm", "confirmRead"} => p = "running"
  /\ c \in {"abort", "abortRead", "abortAgain"} => p = "granted"
  /\ c \in {"renew", "renewRead", "renewAgain"} =>
       p \in Working \cup Finishing \cup {"halted", "stopping"}
  /\ c = "release" => p \in {"closing", "rollback", "stopping"}

Acquires(c) == c \in {"claim", "adopt"}

CallsInv ==
  /\ \A t \in Tasks : InPlace(op[t].call, phase[t])
  /\ \A t, u \in Tasks : Acquires(op[t].call) /\ Acquires(op[u].call) => t = u

LEMMA OutdatedCalls ==
  ASSUME TypeOK, NEW R, NEW u \in Tasks PROVE Outdated(R)[u].call = op[u].call
  BY DEF TypeOK, Outdated

LEMMA UpdateRowCalls ==
  ASSUME TypeOK, NEW r, NEW st, NEW b, NEW o, UpdateRow(r, st, b, o)
  PROVE  \A u \in Tasks : op'[u].call = op[u].call
  BY OutdatedCalls DEF UpdateRow, Bump

LEMMA CallSets ==
  ASSUME TypeOK, NEW t \in Tasks, NEW c, Call(t, c)
  PROVE  op'[t].call = c /\ \A u \in Tasks \ {t} : op'[u].call = op[u].call
  BY DEF TypeOK, Call

LEMMA ReturnSets ==
  ASSUME TypeOK, NEW t \in Tasks, Return(t) \/ BumpReturn(t)
  PROVE  op'[t].call = "none" /\ \A u \in Tasks \ {t} : op'[u].call = op[u].call
<1> DEFINE stale == Outdated({RowOf[t]})
<1>1. stale \in CallValues /\ \A u \in Tasks : stale[u].call = op[u].call
  BY OutdatedType, OutdatedCalls
<1>2. CASE Return(t)
  BY <1>2 DEF TypeOK, Return, Idle
<1>3. CASE BumpReturn(t)
  <2>1. op' = [stale EXCEPT ![t] = Idle]
    BY <1>3 DEF BumpReturn
  <2> HIDE DEF stale
  <2> QED  BY <1>1, <2>1 DEF Idle, CallValues
<1> QED  BY <1>2, <1>3

LEMMA SetPhaseSets ==
  ASSUME TypeOK, NEW t \in Tasks, NEW p, SetPhase(t, p)
  PROVE  phase'[t] = p /\ \A u \in Tasks \ {t} : phase'[u] = phase[u]
  BY DEF TypeOK, SetPhase

\* A step of one task.
LEMMA OneCall ==
  ASSUME CallsInv, NEW t \in Tasks,
         \A u \in Tasks \ {t} : op'[u].call = op[u].call /\ phase'[u] = phase[u],
         InPlace(op'[t].call, phase'[t]),
         Acquires(op'[t].call) => \A u \in Tasks \ {t} : ~Acquires(op[u].call)
  PROVE  CallsInv'
<1>1. \A u \in Tasks : InPlace(op'[u].call, phase'[u])
  BY DEF CallsInv
<1>2. \A u, v \in Tasks : Acquires(op'[u].call) /\ Acquires(op'[v].call) => u = v
  BY DEF CallsInv
<1> QED  BY <1>1, <1>2 DEF CallsInv, InPlace, Acquires, Working, Finishing

\* A step of the manager, which makes no call.
LEMMA SameCalls ==
  ASSUME CallsInv, \A u \in Tasks : op'[u].call = op[u].call,
         \A u \in Tasks : phase'[u] = phase[u] \/ op[u].call = "none"
  PROVE  CallsInv'
<1>1. \A u \in Tasks : InPlace(op'[u].call, phase'[u])
  BY DEF CallsInv, InPlace
<1> QED  BY <1>1 DEF CallsInv, InPlace, Acquires, Working, Finishing

\* The undoing of a start finds nobody between two calls but the one that failed.
LEMMA RollbackCalls ==
  ASSUME TypeOK, CallsInv, Rollback, NEW u \in Tasks, ~Acquires(op[u].call)
  PROVE  phase'[u] = phase[u] \/ op[u].call = "none"
<1>1. op[u].call \in Calls
  BY DEF TypeOK
<1> QED  BY <1>1 DEF CallsInv, InPlace, Acquires, Rollback, TypeOK, Calls, Working, Finishing

LEMMA AcquireCalls ==
  ASSUME TypeOK, CallsInv, NEW t \in Tasks, Claim(t) \/ AdoptRead(t) \/ Adopt(t)
  PROVE  CallsInv'
<1> DEFINE r == RowOf[t]
<1>0. ASSUME AcquireFails(t), Acquires(op[t].call) PROVE CallsInv'
  <2>1. op'[t].call = "none" /\ \A u \in Tasks \ {t} : op'[u].call = op[u].call
    BY <1>0, ReturnSets DEF AcquireFails
  <2>2. \A u \in Tasks \ {t} : phase'[u] = phase[u] \/ op[u].call = "none"
    BY <1>0, RollbackCalls DEF AcquireFails, CallsInv
  <2>3. \A u \in Tasks : InPlace(op'[u].call, phase'[u])
    BY <2>1, <2>2 DEF CallsInv, InPlace
  <2>4. \A u, v \in Tasks : Acquires(op'[u].call) /\ Acquires(op'[v].call) => u = v
    BY <2>1 DEF CallsInv, Acquires
  <2> QED  BY <2>3, <2>4 DEF CallsInv, InPlace, Acquires, Working, Finishing
<1>1. CASE Claim(t)
  <2>0. phase[t] = "reserved" /\ op[t].call = "none"
        /\ \A u \in Tasks : ~Acquires(op[u].call)
    BY <1>1 DEF Claim, Idle, Acquires
  <2>1. CASE Reservable(r) /\ ~Confirmed(r)
    <3>1. \A u \in Tasks : op'[u].call = op[u].call
      BY <1>1, <2>1, OutdatedCalls DEF Claim, Bump
    <3>2. \A u \in Tasks : phase'[u] = phase[u] \/ op[u].call = "none"
      BY <1>1, <2>0, <2>1, SetPhaseSets DEF Claim
    <3> QED  BY <3>1, <3>2, SameCalls
  <2>2. CASE ~(Reservable(r) /\ ~Confirmed(r))
    <3>1. Call(t, "claim") /\ phase' = phase
      BY <1>1, <2>2 DEF Claim
    <3> QED  BY <2>0, <3>1, CallSets, OneCall DEF InPlace
  <2> QED  BY <2>1, <2>2
<1>2. CASE AdoptRead(t)
  <2>1. CASE row[r].status = "reserved" /\ row[r].batch = BatchOf[t]
    <3>1. Call(t, "adopt") /\ phase' = phase /\ op[t].call = "claim"
      BY <1>2, <2>1 DEF AdoptRead
    <3>2. phase[t] = "reserved" /\ \A u \in Tasks \ {t} : ~Acquires(op[u].call)
      BY <3>1 DEF CallsInv, InPlace, Acquires
    <3> QED  BY <3>1, <3>2, CallSets, OneCall DEF InPlace
  <2>2. CASE ~(row[r].status = "reserved" /\ row[r].batch = BatchOf[t])
    BY <1>0, <1>2, <2>2 DEF AdoptRead, Acquires
  <2> QED  BY <2>1, <2>2
<1>3. CASE Adopt(t)
  <2>1. CASE op[t].fresh /\ LiveOwners(r) \subseteq {t}
    <3>1. BumpReturn(t) /\ SetPhase(t, "leased")
      BY <1>3, <2>1 DEF Adopt
    <3> QED  BY <3>1, ReturnSets, SetPhaseSets, OneCall DEF InPlace, Acquires
  <2>2. CASE ~(op[t].fresh /\ LiveOwners(r) \subseteq {t})
    BY <1>0, <1>3, <2>2 DEF Adopt, Acquires
  <2> QED  BY <2>1, <2>2
<1> QED  BY <1>1, <1>2, <1>3

LEMMA ConfirmCalls ==
  ASSUME TypeOK, CallsInv, NEW t \in Tasks, ConfirmStart(t) \/ Confirm(t) \/ ConfirmRead(t)
  PROVE  CallsInv'
<1>1. CASE ConfirmStart(t)
  <2>1. CASE Resolves(t)
    <3>1. Call(t, "confirm") /\ phase' = phase /\ phase[t] = "running"
      BY <1>1, <2>1 DEF ConfirmStart
    <3> QED  BY <3>1, CallSets, OneCall DEF InPlace, Acquires
  <2>2. CASE ~Resolves(t)
    <3>1. op' = op /\ op[t].call = "none" /\ SetPhase(t, "failing")
      BY <1>1, <2>2 DEF ConfirmStart, Idle
    <3> QED  BY <3>1, SetPhaseSets, OneCall DEF InPlace, Acquires
  <2> QED  BY <2>1, <2>2
<1>2. CASE Confirm(t)
  <2>1. CASE SetPhase(t, "granted") /\ (BumpReturn(t) \/ Return(t))
    BY <2>1, ReturnSets, SetPhaseSets, OneCall DEF InPlace, Acquires
  <2>2. CASE Call(t, "confirmRead") /\ phase' = phase
    <3>1. phase[t] = "running"
      BY <1>2 DEF Confirm, CallsInv, InPlace
    <3> QED  BY <2>2, <3>1, CallSets, OneCall DEF InPlace, Acquires
  <2> QED  BY <1>2, <2>1, <2>2 DEF Confirm
<1>3. CASE ConfirmRead(t)
  <2>1. Return(t) /\ \E p : SetPhase(t, p)
    BY <1>3 DEF ConfirmRead
  <2> QED  BY <2>1, ReturnSets, SetPhaseSets, OneCall DEF InPlace, Acquires
<1> QED  BY <1>1, <1>2, <1>3

LEMMA AbortCalls ==
  ASSUME TypeOK, CallsInv, NEW t \in Tasks, AbortStart(t) \/ Abort(t) \/ AbortRead(t)
  PROVE  CallsInv'
<1>1. CASE AbortStart(t)
  <2>1. CASE Resolves(t) /\ Confirmed(RowOf[t])
    <3>1. Call(t, "abort") /\ phase' = phase /\ phase[t] = "granted"
      BY <1>1, <2>1 DEF AbortStart
    <3> QED  BY <3>1, CallSets, OneCall DEF InPlace, Acquires
  <2>2. CASE ~(Resolves(t) /\ Confirmed(RowOf[t]))
    <3>1. op' = op /\ op[t].call = "none" /\ SetPhase(t, "failing")
      BY <1>1, <2>2 DEF AbortStart, Idle
    <3> QED  BY <3>1, SetPhaseSets, OneCall DEF InPlace, Acquires
  <2> QED  BY <2>1, <2>2
<1>2. ASSUME (Return(t) \/ BumpReturn(t)) /\ \E p : SetPhase(t, p) PROVE CallsInv'
  BY <1>2, ReturnSets, SetPhaseSets, OneCall DEF InPlace, Acquires
<1>3. ASSUME op[t].call \in {"abort", "abortRead"}, phase' = phase,
             Call(t, "abortRead") \/ Call(t, "abortAgain")
      PROVE  CallsInv'
  <2>1. phase[t] = "granted"
    BY <1>3 DEF CallsInv, InPlace
  <2> QED  BY <1>3, <2>1, CallSets, OneCall DEF InPlace, Acquires
<1>4. CASE Abort(t)
  BY <1>2, <1>3, <1>4 DEF Abort
<1>5. CASE AbortRead(t)
  BY <1>2, <1>3, <1>5 DEF AbortRead
<1> QED  BY <1>1, <1>4, <1>5

LEMMA RenewCalls ==
  ASSUME TypeOK, CallsInv, NEW t \in Tasks, RenewStart(t) \/ Renew(t) \/ RenewRead(t)
  PROVE  CallsInv'
<1>1. phase' = phase
  BY DEF RenewStart, Renew, RenewRead
<1>2. phase[t] \in Working \cup Finishing \cup {"halted", "stopping"}
  BY DEF RenewStart, Renew, RenewRead, CallsInv, InPlace
<1>3. ASSUME NEW c \in {"renew", "renewRead", "renewAgain"}, Call(t, c) PROVE CallsInv'
  BY <1>1, <1>2, <1>3, CallSets, OneCall DEF InPlace, Acquires
<1>4. ASSUME Return(t) \/ BumpReturn(t) PROVE CallsInv'
  BY <1>1, <1>4, ReturnSets, OneCall DEF InPlace, Acquires
<1> QED  BY <1>3, <1>4 DEF RenewStart, Renew, RenewRead

LEMMA ReleaseCalls ==
  ASSUME TypeOK, CallsInv, NEW t \in Tasks, ReleaseStart(t) \/ Release(t) PROVE CallsInv'
<1>1. CASE ReleaseStart(t)
  <2>1. CASE Resolves(t)
    <3>1. /\ Call(t, "release") /\ phase' = phase
          /\ phase[t] \in {"closing", "rollback", "stopping"}
      BY <1>1, <2>1 DEF ReleaseStart
    <3> QED  BY <3>1, CallSets, OneCall DEF InPlace, Acquires
  <2>2. CASE ~Resolves(t)
    <3>1. op' = op /\ op[t].call = "none" /\ \E p : SetPhase(t, p)
      BY <1>1, <2>2 DEF ReleaseStart, Idle
    <3> QED  BY <3>1, SetPhaseSets, OneCall DEF InPlace, Acquires
  <2> QED  BY <2>1, <2>2
<1>2. CASE Release(t)
  <2>1. (Return(t) \/ BumpReturn(t)) /\ \E p : SetPhase(t, p)
    BY <1>2 DEF Release
  <2> QED  BY <2>1, ReturnSets, SetPhaseSets, OneCall DEF InPlace, Acquires
<1> QED  BY <1>1, <1>2

\* The worker leaves a place only when no call of its own, the heartbeat's apart, is
\* in flight there, and the places it leaves for suit a heartbeat as well.
LEMMA MoveCalls ==
  ASSUME TypeOK, CallsInv, NEW t \in Tasks, NEW p, SetPhase(t, p),
         \A u \in Tasks : op'[u].call = op[u].call,
         \/ /\ p \in Working \cup Finishing \cup {"halted", "stopping"}
            /\ op[t].call \in {"none", "renew", "renewRead", "renewAgain"}
         \/ op[t].call = "none"
  PROVE  CallsInv'
<1>1. phase'[t] = p /\ \A u \in Tasks \ {t} : phase'[u] = phase[u]
  BY SetPhaseSets
<1> QED  BY <1>1, OneCall DEF InPlace, Acquires

LEMMA WorkCalls ==
  ASSUME TypeOK, CallsInv, NEW t \in Tasks, Work(t) PROVE CallsInv'
<1>0. op[t].call \in Calls
  BY DEF TypeOK
<1>1. \A u \in Tasks : op'[u].call = op[u].call
  BY UpdateRowCalls DEF Work, WorkerStart, Submit, SaveResult, MarkSuccess, Fail,
     SaveFailure, RecordFailure, HaltQueued, StopQueued, StoppedRuns, PersistFailure
<1>2. CASE phase[t] \in {"queued", "submitted", "saved", "failing", "recorded", "halted",
                         "stopped"}
  <2>1. op[t].call \in {"none", "renew", "renewRead", "renewAgain"}
        /\ (phase[t] = "stopped" => op[t].call = "none")
    BY <1>0, <1>2 DEF CallsInv, InPlace, Calls, Working, Finishing
  <2>2. \E p \in Working \cup Finishing \cup {"halted", "stopping"} : SetPhase(t, p)
    BY <1>2 DEF Work, WorkerStart, Submit, SaveResult, MarkSuccess, Fail, SaveFailure,
       RecordFailure, HaltQueued, StopQueued, StoppedRuns, PersistFailure, Working, Finishing
  <2> QED  BY <1>1, <2>1, <2>2, MoveCalls
<1>3. CASE Submit(t) \/ Fail(t)
  <2>1. /\ op[t].call \in {"none", "renew", "renewRead", "renewAgain"}
        /\ \E p \in Working : SetPhase(t, p)
    BY <1>3 DEF Submit, Fail, Heartbeating, Working
  <2> QED  BY <1>1, <2>1, MoveCalls
<1>4. phase[t] \in {"queued", "submitted", "saved", "failing", "recorded", "halted", "stopped"}
      \/ Submit(t) \/ Fail(t)
  BY DEF Work, WorkerStart, SaveResult, MarkSuccess, SaveFailure, RecordFailure, HaltQueued,
     StopQueued, StoppedRuns
<1> QED  BY <1>2, <1>3, <1>4

LEMMA DispatchCalls ==
  ASSUME TypeOK, CallsInv, NEW t \in Tasks, Dispatch(t) PROVE CallsInv'
<1>0. op[t].call \in Calls
  BY DEF TypeOK
<1>1. \A u \in Tasks : op'[u].call = op[u].call
  BY UpdateRowCalls DEF Dispatch, RerunRead, RerunRestore, ResetRow, NoteQueued
<1>2. op[t].call = "none"
  BY <1>0 DEF Dispatch, RerunRead, RerunRestore, ResetRow, NoteQueued, CallsInv, InPlace,
     Calls, Working, Finishing
<1>3. \E p : SetPhase(t, p)
  BY DEF Dispatch, RerunRead, RerunRestore, ResetRow, NoteQueued
<1> QED  BY <1>1, <1>2, <1>3, MoveCalls

LEMMA ManagerCalls ==
  ASSUME TypeOK, CallsInv, SelectBatch \/ Reserve \/ StartupFails \/ Enqueue PROVE CallsInv'
<1>0. \A u \in Tasks : op[u].call \in Calls
  BY DEF TypeOK
<1>1. \A u \in Tasks : op'[u].call = op[u].call
  <2>1. op' = op \/ \E R : op' = Outdated(R)
    BY DEF SelectBatch, Reserve, StartupFails, Enqueue
  <2> QED  BY <2>1, OutdatedCalls
<1>2. \A u \in Tasks : phase[u] \in {"idle", "selected", "rerunning", "noted"}
                         => op[u].call = "none"
  BY <1>0 DEF CallsInv, InPlace, Calls, Working, Finishing
<1>3. CASE StartupFails
  <2> \A u \in Tasks : phase'[u] = phase[u] \/ op[u].call = "none"
    BY <1>3, RollbackCalls DEF StartupFails, Acquires
  <2> QED  BY <1>1, SameCalls
<1>4. CASE SelectBatch \/ Reserve \/ Enqueue
  <2> \A u \in Tasks : phase'[u] = phase[u] \/ op[u].call = "none"
    BY <1>2, <1>4 DEF SelectBatch, Reserve, Selection, Enqueue, TypeOK
  <2> QED  BY <1>1, SameCalls
<1> QED  BY <1>3, <1>4

LEMMA RecoverCalls == ASSUME TypeOK, CallsInv, Recover PROVE CallsInv'
<1>1. CASE RecoverExpired \/ RecoverOrphaned \/ RecoverReserved \/ BootDone
  <2>1. \A u \in Tasks : op'[u].call = op[u].call
    <3>1. op' = op \/ \E R : op' = Outdated(R)
      BY <1>1 DEF RecoverExpired, RecoverOrphaned, RecoverReserved, BootDone
    <3> QED  BY <3>1, OutdatedCalls
  <2>2. phase' = phase
    BY <1>1 DEF RecoverExpired, RecoverOrphaned, RecoverReserved, BootDone
  <2> QED  BY <2>1, <2>2, SameCalls
<1>2. ASSUME NEW t \in Tasks, RecoverSave(t) \/ RecoverTask(t) PROVE CallsInv'
  <2>0. op[t].call \in Calls
    BY DEF TypeOK
  <2>1. \A u \in Tasks : op'[u].call = op[u].call
    BY <1>2, UpdateRowCalls DEF RecoverSave, RecoverTask, PersistFailure
  <2>2. op[t].call = "none" /\ \E p : SetPhase(t, p)
    BY <1>2, <2>0 DEF RecoverSave, RecoverTask, PersistFailure, Crashed, Recovering,
       CallsInv, InPlace, Calls, Working, Finishing
  <2> QED  BY <2>1, <2>2, MoveCalls
<1> QED  BY <1>1, <1>2 DEF Recover

LEMMA NextCalls == TypeOK /\ CallsInv /\ [Next]_vars => CallsInv'
<1> SUFFICES ASSUME TypeOK, CallsInv, [Next]_vars PROVE CallsInv'
  OBVIOUS
<1>1. ASSUME NEW t \in Tasks, Coordinate(t) PROVE CallsInv'
  BY <1>1, AcquireCalls, ConfirmCalls, AbortCalls, RenewCalls, ReleaseCalls DEF Coordinate
<1>2. ASSUME NEW t \in Tasks, Work(t) \/ Dispatch(t) PROVE CallsInv'
  BY <1>2, WorkCalls, DispatchCalls
<1>3. ASSUME \/ \E r \in Rows : SetStatusCheck(r) \/ SetStatusWrite(r)
             \/ Tick \/ UNCHANGED vars
      PROVE  CallsInv'
  <2>1. \A u \in Tasks : op'[u].call = op[u].call
    BY <1>3, UpdateRowCalls DEF SetStatusCheck, SetStatusWrite, Tick, vars
  <2>2. phase' = phase
    BY <1>3 DEF SetStatusCheck, SetStatusWrite, Tick, vars
  <2> QED  BY <2>1, <2>2, SameCalls
<1>4. CASE Crash
  BY <1>4 DEF Crash, Idle, CallsInv, InPlace, Acquires
<1> QED  BY <1>1, <1>2, <1>3, <1>4, ManagerCalls, RecoverCalls DEF Next

\* Every call in flight is about a task that still waits for it, and a start claims
\* one row at a time.
THEOREM CallsStayInPlace == Spec => []CallsInv
<1>1. Init => CallsInv
  BY DEF Init, Idle, CallsInv, InPlace, Acquires
<1> QED  BY <1>1, NextCalls, TypeCorrect, PTL DEF Spec

-----------------------------------------------------------------------------
(* What a step does.  The properties below ask about the status and the     *)
(* marker of a row, about the lease a task has on it, and about where the   *)
(* task is; the next definitions say how any step changes each of them.     *)

\* Status and marker of a row: kept, or, while nobody holds the row, settled;
Kept(r)   == row'[r].status = row[r].status /\ row'[r].marker = row[r].marker
Settled(r) == /\ ~Leased(r)
              /\ row'[r].status \notin Transient /\ row'[r].marker = row[r].marker
\* or moved by the task t: its row is noted as queued, its end is told, its address is
\* confirmed or the confirmation taken back, it claims or reserves the row, or lets go.
Notes(t)  == phase[t] = "leased" /\ ~Leased(RowOf[t]) /\ row'[RowOf[t]].status = "queued"
Tells(t)  == /\ phase[t] \in {"saved", "recorded", "halted"} /\ phase'[t] # phase[t]
             /\ row'[RowOf[t]].status \notin Transient
Grants(t) == /\ phase[t] = "running" /\ phase'[t] = "granted" /\ Live(RowOf[t], t)
             /\ row[RowOf[t]].status \in {"reserved", "running"} /\ ~Confirmed(RowOf[t])
             /\ row'[RowOf[t]].status = "running"
Aborts(t) == /\ phase[t] = "granted" /\ phase'[t] = "running" /\ Live(RowOf[t], t)
             /\ row[RowOf[t]].status = "running" /\ row[RowOf[t]].marker = t
             /\ row'[RowOf[t]].status = "reserved"
Claims(t) == /\ phase[t] = "reserved" /\ phase'[t] = "leased" /\ ~Leased(RowOf[t])
             /\ lease'[RowOf[t]][t] # NoLease /\ row'[RowOf[t]].status = "reserved"
Reserves(t) == /\ phase[t] \in {"selected", "rerunning"} /\ phase'[t] = "reserved"
               /\ ~Leased(RowOf[t]) /\ row'[RowOf[t]].status = "reserved"
LetsGo(t) == /\ op[t].call = "release" /\ phase'[t] = Released(t)
             /\ LiveOwners(RowOf[t]) \subseteq {t}
             /\ row'[RowOf[t]].status \notin Transient

Marks(t) ==
  \/ (Notes(t) \/ Tells(t) \/ Claims(t) \/ LetsGo(t))
       /\ row'[RowOf[t]].marker = row[RowOf[t]].marker
  \/ Grants(t) /\ row'[RowOf[t]].marker = t
  \/ (Aborts(t) \/ Reserves(t)) /\ row'[RowOf[t]].marker = NoTask

\* The account result appears when the owner of the submitted address saves it.
ResultStep(r) ==
  row'[r].result = "account" /\ row[r].result # "account" =>
    \E t \in Tasks : RowOf[t] = r /\ phase[t] = "submitted" /\ phase'[t] = "saved"

RowStep(r) ==
  /\ Kept(r) \/ Settled(r) \/ \E t \in Tasks : RowOf[t] = r /\ Marks(t)
  /\ ResultStep(r)

\* A lease: granted, renewed, dropped by its owner, swept when expired, or a tick older.
Gives(t) ==
  /\ lease'[RowOf[t]][t] = TTL
  /\ \/ /\ phase[t] = "reserved" /\ phase'[t] = "leased"
        /\ LiveOwners(RowOf[t]) \subseteq {t}
     \/ /\ op[t].call \in {"renew", "renewAgain"} /\ Live(RowOf[t], t)
        /\ phase'[t] = phase[t]
Drops(t) == /\ lease'[RowOf[t]][t] = NoLease
            /\ op[t].call = "release" /\ phase'[t] = Released(t)

LeaseStep(r, t) ==
  \/ lease'[r][t] = lease[r][t]
  \/ lease[r][t] = 0 /\ lease'[r][t] = NoLease
  \/ Tick /\ lease'[r][t] = Older(lease[r][t])
  \/ RowOf[t] = r /\ (Gives(t) \/ Drops(t))

RowsStep ==
  /\ \A r \in Rows : RowStep(r)
  /\ \A r \in Rows, t \in Tasks : LeaseStep(r, t)

\* The new value of a row, seen by the fields that matter.
Fields(me, st, m, me0) == me.status = st /\ me.marker = m /\ me.result = me0.result

LEMMA UpdatedFields ==
  ASSUME TypeOK, NEW r \in Rows, NEW st, NEW b, NEW o
  PROVE  Fields(Updated(r, st, b, o), IF Leased(r) /\ ~o THEN row[r].status ELSE st,
                row[r].marker, row[r])
<1>1. row[r] \in RowRecord
  BY DEF TypeOK
<1> QED  BY <1>1 DEF Updated, RowRecord, Fields

LEMMA HandedFields ==
  ASSUME NEW me \in RowRecord, NEW ls PROVE Fields(Handed(me, ls), me.status, me.marker, me)
<1> DEFINE u == CHOOSE t \in Remaining(ls) : TRUE
<1>1. Handed(me, ls) = [me EXCEPT !.owner = u, !.left = ls[u]]
  BY DEF Handed
<1> HIDE DEF u
<1> QED  BY <1>1 DEF RowRecord, Fields

LEMMA FreedFields ==
  ASSUME NEW me \in RowRecord, NEW st, NEW b PROVE Fields(Freed(me, st, b), st, me.marker, me)
  BY DEF Freed, RowRecord, Fields

LEMMA LeasedToFields ==
  ASSUME NEW me \in RowRecord, NEW t
  PROVE  Fields(LeasedTo(me, t), me.status, me.marker, me)
  BY DEF LeasedTo, RowRecord, Fields

LEMMA ClaimedByFields ==
  ASSUME NEW me \in RowRecord, NEW t, me.status = "available"
  PROVE  Fields(ClaimedBy(me, t), "reserved", me.marker, me)
  BY DEF ClaimedBy, RowRecord, Fields

LEMMA EnvelopeFields ==
  ASSUME NEW me \in RowRecord
  PROVE  /\ Envelope(me).status = me.status /\ Envelope(me).marker = me.marker
         /\ Envelope(me).result = "account" => me.result = "account"
  BY DEF Envelope, RowRecord

\* A step that leaves the rows, or the leases, or all rows but one, alone.
LEMMA RowsKept == ASSUME row' = row PROVE \A r \in Rows : RowStep(r)
  BY DEF RowStep, Kept, ResultStep

LEMMA LeasesKept ==
  ASSUME lease' = lease PROVE \A r \in Rows, t \in Tasks : LeaseStep(r, t)
  BY DEF LeaseStep

LEMMA OneRowStep ==
  ASSUME TypeOK, NEW r \in Rows, NEW me, row' = [row EXCEPT ![r] = me],
         row'[r] = me => RowStep(r)
  PROVE  \A s \in Rows : RowStep(s)
<1>1. row'[r] = me /\ \A s \in Rows \ {r} : row'[s] = row[s]
  BY DEF TypeOK
<1> QED  BY <1>1 DEF RowStep, Kept, ResultStep

LEMMA OneLeaseStep ==
  ASSUME TypeOK, NEW t \in Tasks, NEW l, lease' = [lease EXCEPT ![RowOf[t]][t] = l],
         lease'[RowOf[t]][t] = l => LeaseStep(RowOf[t], t)
  PROVE  \A r \in Rows, u \in Tasks : LeaseStep(r, u)
<1>1. RowOf[t] \in Rows
  BY ConstantsAssumption
<1>2. /\ lease'[RowOf[t]][t] = l
      /\ \A r \in Rows, u \in Tasks : r # RowOf[t] \/ u # t => lease'[r][u] = lease[r][u]
  BY <1>1 DEF TypeOK
<1> QED  BY <1>2 DEF LeaseStep

\* update_mailbox that yields to a live lease.
LEMMA YieldingUpdate ==
  ASSUME TypeOK, NEW r \in Rows, NEW st, NEW b, UpdateRow(r, st, b, FALSE),
         st \in Transient =>
           st = "queued" /\ \E t \in Tasks : RowOf[t] = r /\ phase[t] = "leased"
  PROVE  \A s \in Rows : RowStep(s)
<1> DEFINE me == Updated(r, st, b, FALSE)
<1>1. row' = [row EXCEPT ![r] = me]
  BY DEF UpdateRow
<1>2. Fields(me, IF Leased(r) THEN row[r].status ELSE st, row[r].marker, row[r])
  BY UpdatedFields
<1> HIDE DEF me
<1>3. ASSUME row'[r] = me PROVE RowStep(r)
  <2>1. ResultStep(r)
    BY <1>2, <1>3 DEF Fields, ResultStep
  <2>2. CASE Leased(r)
    BY <1>2, <1>3, <2>1, <2>2 DEF Fields, RowStep, Kept
  <2>3. CASE ~Leased(r) /\ st \notin Transient
    BY <1>2, <1>3, <2>1, <2>3 DEF Fields, RowStep, Settled
  <2>4. CASE ~Leased(r) /\ st \in Transient
    BY <1>2, <1>3, <2>1, <2>4 DEF Fields, RowStep, Marks, Notes
  <2> QED  BY <2>2, <2>3, <2>4
<1> QED  BY <1>1, <1>3, OneRowStep

\* update_mailbox with allow_active_status: the end of a worker.
LEMMA ForcedUpdate ==
  ASSUME TypeOK, NEW t \in Tasks, NEW st, NEW b, UpdateRow(RowOf[t], st, b, TRUE),
         st \notin Transient, phase[t] \in {"saved", "recorded", "halted"},
         phase'[t] # phase[t]
  PROVE  \A s \in Rows : RowStep(s)
<1> DEFINE r == RowOf[t]
           me == Updated(r, st, b, TRUE)
<1>0. r \in Rows
  BY ConstantsAssumption
<1>1. row' = [row EXCEPT ![r] = me]
  BY DEF UpdateRow
<1>2. Fields(me, st, row[r].marker, row[r])
  BY <1>0, UpdatedFields
<1> HIDE DEF me
<1>3. ASSUME row'[r] = me PROVE RowStep(r)
  BY <1>2, <1>3 DEF Fields, RowStep, ResultStep, Marks, Tells
<1> QED  BY <1>0, <1>1, <1>3, OneRowStep

LEMMA PersistStep ==
  ASSUME TypeOK, NEW t \in Tasks, NEW p, PersistFailure(t, p) PROVE RowsStep
<1> DEFINE r == RowOf[t]
           me == Envelope(row[r])
<1>0. r \in Rows /\ row[r] \in RowRecord
  BY ConstantsAssumption DEF TypeOK
<1>1. row' = [row EXCEPT ![r] = me] /\ lease' = lease
  BY DEF PersistFailure
<1>2. ASSUME row'[r] = me PROVE RowStep(r)
  BY <1>0, <1>2, EnvelopeFields DEF RowStep, ResultStep, Kept
<1> HIDE DEF me
<1> QED  BY <1>0, <1>1, <1>2, OneRowStep, LeasesKept DEF RowsStep

LEMMA CoordinateStep ==
  ASSUME TypeOK, CallsInv, ScalarNamesSidecar, NEW t \in Tasks, Coordinate(t)
  PROVE  RowsStep
<1> DEFINE r == RowOf[t]
<1>0. /\ r \in Rows /\ row[r] \in RowRecord /\ lease[r] \in [Tasks -> Left]
      /\ InPlace(op[t].call, phase[t]) /\ TTL # NoLease
  BY ConstantsAssumption DEF TypeOK, CallsInv, NoLease
<1>1. ASSUME UNCHANGED <<row, lease>> PROVE RowsStep
  BY <1>1, RowsKept, LeasesKept DEF RowsStep
<1>2. CASE Claim(t)
  <2>1. CASE Reservable(r) /\ ~Confirmed(r)
    <3> DEFINE me == ClaimedBy(row[r], t)
    <3>1. /\ row' = [row EXCEPT ![r] = me] /\ lease' = [lease EXCEPT ![r][t] = TTL]
          /\ phase[t] = "reserved" /\ phase'[t] = "leased"
      BY <1>2, <2>1, SetPhaseSets DEF Claim, GiveLease
    <3>2. ~Leased(r) /\ row[r].status = "available" /\ LiveOwners(r) \subseteq {t}
      BY <2>1 DEF Reservable, Leased
    <3>3. Fields(me, "reserved", row[r].marker, row[r])
      BY <1>0, <3>2, ClaimedByFields
    <3>4. lease'[r][t] = TTL
      BY <1>0, <3>1 DEF TypeOK
    <3> HIDE DEF me
    <3>5. ASSUME row'[r] = me PROVE RowStep(r)
      BY <1>0, <3>1, <3>2, <3>3, <3>4, <3>5
         DEF RowStep, ResultStep, Marks, Claims, Fields
    <3>6. LeaseStep(r, t)
      BY <3>1, <3>2, <3>4 DEF LeaseStep, Gives
    <3> QED  BY <1>0, <3>1, <3>5, <3>6, OneRowStep, OneLeaseStep DEF RowsStep
  <2>2. CASE ~(Reservable(r) /\ ~Confirmed(r))
    BY <1>1, <1>2, <2>2 DEF Claim
  <2> QED  BY <2>1, <2>2
<1>3. CASE AdoptRead(t)
  BY <1>1, <1>3 DEF AdoptRead, AcquireFails
<1>4. CASE Adopt(t)
  <2>1. CASE op[t].fresh /\ LiveOwners(r) \subseteq {t}
    <3> DEFINE me == LeasedTo(row[r], t)
    <3>1. /\ row' = [row EXCEPT ![r] = me] /\ lease' = [lease EXCEPT ![r][t] = TTL]
          /\ phase[t] = "reserved" /\ phase'[t] = "leased"
      BY <1>0, <1>4, <2>1, SetPhaseSets DEF Adopt, InPlace
    <3>2. Fields(me, row[r].status, row[r].marker, row[r])
      BY <1>0, LeasedToFields
    <3>3. lease'[r][t] = TTL
      BY <1>0, <3>1 DEF TypeOK
    <3> HIDE DEF me
    <3>4. ASSUME row'[r] = me PROVE RowStep(r)
      BY <3>2, <3>4 DEF RowStep, ResultStep, Kept, Fields
    <3>5. LeaseStep(r, t)
      BY <2>1, <3>1, <3>3 DEF LeaseStep, Gives
    <3> QED  BY <1>0, <3>1, <3>4, <3>5, OneRowStep, OneLeaseStep DEF RowsStep
  <2>2. CASE ~(op[t].fresh /\ LiveOwners(r) \subseteq {t})
    BY <1>1, <1>4, <2>2 DEF Adopt, AcquireFails
  <2> QED  BY <2>1, <2>2
<1>5. CASE ConfirmStart(t) \/ ConfirmRead(t) \/ AbortStart(t) \/ AbortRead(t)
           \/ RenewStart(t) \/ RenewRead(t) \/ ReleaseStart(t)
  BY <1>1, <1>5 DEF ConfirmStart, ConfirmRead, AbortStart, AbortRead, RenewStart, RenewRead,
     ReleaseStart
<1>6. CASE Confirm(t)
  <2> DEFINE me == [row[r] EXCEPT !.status = "running", !.marker = t, !.batch = BatchOf[t]]
  <2>1. CASE row' = [row EXCEPT ![r] = me] /\ Confirmable(t) /\ ~Confirmed(r)
               /\ SetPhase(t, "granted")
    <3>1. Fields(me, "running", t, row[r])
      BY <1>0 DEF RowRecord, Fields
    <3> HIDE DEF me
    <3>2. phase[t] = "running" /\ phase'[t] = "granted" /\ lease' = lease
      BY <1>0, <1>6, <2>1, SetPhaseSets DEF Confirm, InPlace
    <3>3. ASSUME row'[r] = me PROVE RowStep(r)
      BY <1>0, <2>1, <3>1, <3>2, <3>3
         DEF RowStep, ResultStep, Marks, Grants, Fields, Confirmable
    <3> QED  BY <1>0, <2>1, <3>2, <3>3, OneRowStep, LeasesKept DEF RowsStep
  <2>2. CASE row' = row
    BY <1>1, <1>6, <2>2 DEF Confirm
  <2> QED  BY <1>6, <2>1, <2>2 DEF Confirm
<1>7. CASE Abort(t)
  <2>1. CASE Abortable(t)
    <3> DEFINE me == [row[r] EXCEPT !.status = "reserved", !.marker = NoTask]
    <3>1. /\ row' = [row EXCEPT ![r] = me] /\ lease' = lease
          /\ phase[t] = "granted" /\ phase'[t] = "running"
      BY <1>0, <1>7, <2>1, SetPhaseSets DEF Abort, InPlace
    <3>2. Fields(me, "reserved", NoTask, row[r])
      BY <1>0 DEF RowRecord, Fields
    <3> HIDE DEF me
    <3>3. ASSUME row'[r] = me PROVE RowStep(r)
      BY <1>0, <2>1, <3>1, <3>2, <3>3
         DEF RowStep, ResultStep, Marks, Aborts, Fields, Abortable
    <3> QED  BY <1>0, <3>1, <3>3, OneRowStep, LeasesKept DEF RowsStep
  <2>2. CASE ~Abortable(t)
    BY <1>1, <1>7, <2>2 DEF Abort
  <2> QED  BY <2>1, <2>2
<1>8. CASE Renew(t)
  <2>1. CASE op[t].fresh /\ Live(r, t)
    \* the row already names the live lease it is about to lengthen
    <3> DEFINE me == LeasedTo(row[r], t)
    <3>0. row[r].owner = t
      BY <1>0, <2>1 DEF ScalarNamesSidecar, Named, Live
    <3>1. /\ row' = [row EXCEPT ![r] = me] /\ lease' = [lease EXCEPT ![r][t] = TTL]
          /\ op[t].call \in {"renew", "renewAgain"} /\ phase' = phase
      BY <1>8, <2>1, <3>0 DEF Renew
    <3>2. Fields(me, row[r].status, row[r].marker, row[r])
      BY <1>0, LeasedToFields
    <3>3. lease'[r][t] = TTL
      BY <1>0, <3>1 DEF TypeOK
    <3> HIDE DEF me
    <3>4. ASSUME row'[r] = me PROVE RowStep(r)
      BY <3>2, <3>4 DEF RowStep, ResultStep, Kept, Fields
    <3>5. LeaseStep(r, t)
      BY <2>1, <3>1, <3>3 DEF LeaseStep, Gives
    <3> QED  BY <1>0, <3>1, <3>4, <3>5, OneRowStep, OneLeaseStep DEF RowsStep
  <2>2. CASE ~(op[t].fresh /\ Live(r, t))
    BY <1>1, <1>8, <2>2 DEF Renew
  <2> QED  BY <2>1, <2>2
<1>9. CASE Release(t)
  <2>1. CASE lease[r][t] = NoLease
    BY <1>1, <1>9, <2>1 DEF Release
  <2>2. CASE lease[r][t] # NoLease
    <3> DEFINE ls == [lease[r] EXCEPT ![t] = NoLease]
               me == IF Remaining(ls) # {} THEN Handed(row[r], ls)
                     ELSE Freed(row[r], ReleaseStatus(row[r]), row[r].batch)
    <3>1. /\ row' = [row EXCEPT ![r] = me] /\ lease' = [lease EXCEPT ![r] = ls]
          /\ op[t].call = "release" /\ phase'[t] = Released(t)
      BY <1>9, <2>2, SetPhaseSets DEF Release, ReleaseRow
    <3>2. \/ Fields(me, row[r].status, row[r].marker, row[r])
          \/ Fields(me, ReleaseStatus(row[r]), row[r].marker, row[r]) /\ Remaining(ls) = {}
      <4> HIDE DEF ls
      <4> QED  BY <1>0, HandedFields, FreedFields
    <3>7. Remaining(ls) = {} => LiveOwners(r) \subseteq {t}
      <4>1. /\ ls \in [Tasks -> Left] /\ \A u \in Tasks : u # t => ls[u] = lease[r][u]
            /\ ls[t] = NoLease
        BY <1>0, TTLInLeft
      <4>2. \A u, v \in Tasks : ls[u] > 0 /\ ls[v] > 0 => u = v
        BY <1>0, <4>1 DEF ScalarNamesSidecar, Named, NoLease
      <4> HIDE DEF ls
      <4>3. ASSUME NEW u \in Tasks, u # t, Live(r, u) PROVE Remaining(ls) # {}
        BY <4>1, <4>2, <4>3, RemainingLive DEF Live
      <4> QED  BY <4>3 DEF LiveOwners
    <3>3. ReleaseStatus(row[r]) \notin Transient
      BY <1>0 DEF ReleaseStatus, RowRecord, Statuses, Transient, Terminal
    <3>4. ASSUME row'[r] = me PROVE RowStep(r)
      <4> HIDE DEF ls, me
      <4>1. CASE Fields(me, row[r].status, row[r].marker, row[r])
        BY <3>4, <4>1 DEF RowStep, ResultStep, Kept, Fields
      <4>2. CASE Fields(me, ReleaseStatus(row[r]), row[r].marker, row[r]) /\ Remaining(ls) = {}
        BY <1>0, <3>1, <3>3, <3>4, <3>7, <4>2 DEF RowStep, ResultStep, Marks, LetsGo, Fields
      <4> QED  BY <3>2, <4>1, <4>2
    <3>5. lease' = [lease EXCEPT ![r][t] = NoLease]
      BY <1>0, <3>1 DEF TypeOK
    <3>6. ASSUME lease'[r][t] = NoLease PROVE LeaseStep(r, t)
      BY <3>1, <3>6 DEF LeaseStep, Drops
    <3> HIDE DEF ls, me
    <3> QED  BY <1>0, <3>1, <3>4, <3>5, <3>6, OneRowStep, OneLeaseStep DEF RowsStep
  <2> QED  BY <2>1, <2>2
<1> QED  BY <1>2, <1>3, <1>4, <1>5, <1>6, <1>7, <1>8, <1>9 DEF Coordinate

LEMMA WorkStep == ASSUME TypeOK, NEW t \in Tasks, Work(t) \/ Dispatch(t) PROVE RowsStep
<1> DEFINE r == RowOf[t]
<1>0. r \in Rows /\ row[r] \in RowRecord
  BY ConstantsAssumption DEF TypeOK
<1>1. CASE WorkerStart(t) \/ Submit(t) \/ Fail(t) \/ RerunRead(t)
  BY <1>1, RowsKept, LeasesKept DEF WorkerStart, Submit, Fail, RerunRead, RowsStep
<1>2. CASE SaveFailure(t) \/ HaltQueued(t)
  BY <1>2, PersistStep DEF SaveFailure, HaltQueued
<1>3. CASE SaveResult(t)
  <2> DEFINE me == [row[r] EXCEPT !.result = "account"]
  <2>1. /\ row' = [row EXCEPT ![r] = me] /\ lease' = lease
        /\ phase[t] = "submitted" /\ phase'[t] = "saved"
    BY <1>3, SetPhaseSets DEF SaveResult
  <2>2. me.status = row[r].status /\ me.marker = row[r].marker
    BY <1>0 DEF RowRecord
  <2> HIDE DEF me
  <2>3. ASSUME row'[r] = me PROVE RowStep(r)
    BY <2>1, <2>2, <2>3 DEF RowStep, ResultStep, Kept
  <2> QED  BY <1>0, <2>1, <2>3, OneRowStep, LeasesKept DEF RowsStep
<1>4. CASE MarkSuccess(t) \/ StopQueued(t)
  <2>0. /\ MarkSuccess(t) => phase[t] = "saved" /\ phase'[t] = "closing"
        /\ StopQueued(t) => phase[t] = "halted" /\ phase'[t] = "stopping"
    BY SetPhaseSets DEF MarkSuccess, StopQueued
  <2>1. /\ phase[t] \in {"saved", "halted"} /\ phase'[t] # phase[t] /\ lease' = lease
        /\ \/ UpdateRow(r, "success", row[r].batch, TRUE)
           \/ UpdateRow(r, "failed", row[r].batch, TRUE)
    BY <1>4, <2>0 DEF MarkSuccess, StopQueued
  <2> QED  BY <2>1, ForcedUpdate, LeasesKept DEF RowsStep, Transient
<1>5. CASE RecordFailure(t)
  <2>1. phase[t] = "recorded" /\ phase'[t] # phase[t] /\ lease' = lease
    BY <1>5, SetPhaseSets DEF RecordFailure
  <2>2. CASE UpdateRow(r, "pending_rerun", row[r].batch, TRUE)
    BY <2>1, <2>2, ForcedUpdate, LeasesKept DEF RowsStep, Transient
  <2>3. CASE UpdateRow(r, "available", NoBatch, FALSE)
    BY <1>0, <2>1, <2>3, YieldingUpdate, LeasesKept DEF RowsStep, Transient
  <2>4. CASE row' = row
    BY <2>1, <2>4, RowsKept, LeasesKept DEF RowsStep
  <2> QED  BY <1>5, <2>2, <2>3, <2>4 DEF RecordFailure
<1>6. CASE StoppedRuns(t) \/ RerunRestore(t) \/ ResetRow(t)
  <2>1. UpdateRow(r, "available", NoBatch, FALSE) /\ lease' = lease
    BY <1>6 DEF StoppedRuns, RerunRestore, ResetRow
  <2> QED  BY <1>0, <2>1, YieldingUpdate, LeasesKept DEF RowsStep, Transient
<1>7. CASE NoteQueued(t)
  <2>1. /\ UpdateRow(r, "queued", BatchOf[t], FALSE) /\ lease' = lease
        /\ phase[t] = "leased"
    BY <1>7 DEF NoteQueued
  <2> QED  BY <1>0, <2>1, YieldingUpdate, LeasesKept DEF RowsStep
<1> QED  BY <1>1, <1>2, <1>3, <1>4, <1>5, <1>6, <1>7 DEF Work, Dispatch

LEMMA ReserveStep == ASSUME TypeOK, Reserve PROVE RowsStep
<1> DEFINE S == Selection
<1>1. CASE \A t \in S : Reservable(RowOf[t])
  <2>1. ASSUME NEW r \in Rows PROVE RowStep(r)
    <3>0. row[r] \in RowRecord
      BY DEF TypeOK
    <3>1. CASE \E t \in S : RowOf[t] = r
      <4> DEFINE b == BatchOf[CHOOSE t \in S : RowOf[t] = r]
      <4>1. row'[r] = [row[r] EXCEPT !.status = "reserved", !.marker = NoTask,
                               !.batch = b, !.owner = NoTask, !.left = NoLease]
        BY <1>1, <3>1 DEF Reserve
      <4>2. Fields(row'[r], "reserved", NoTask, row[r])
        <5> HIDE DEF b
        <5> QED  BY <3>0, <4>1 DEF RowRecord, Fields
      <4>3. PICK t \in S : RowOf[t] = r
        BY <3>1
      <4>4. /\ t \in Tasks /\ phase[t] \in {"selected", "rerunning"}
            /\ phase'[t] = "reserved" /\ ~Leased(r)
        BY <1>1, <4>3 DEF Reserve, Selection, Reservable
      <4> QED  BY <4>2, <4>3, <4>4 DEF RowStep, ResultStep, Marks, Reserves, Fields
    <3>2. CASE ~\E t \in S : RowOf[t] = r
      <4>1. row'[r] = row[r]
        BY <1>1, <3>2 DEF Reserve
      <4> QED  BY <4>1 DEF RowStep, Kept, ResultStep
    <3> QED  BY <3>1, <3>2
  <2> QED  BY <2>1, LeasesKept DEF RowsStep, Reserve
<1>2. CASE ~(\A t \in S : Reservable(RowOf[t]))
  BY <1>2, RowsKept, LeasesKept DEF Reserve, RowsStep
<1> QED  BY <1>1, <1>2

LEMMA SweptStep ==
  ASSUME NEW r \in Rows, lease'[r] = lease[r] \/ lease'[r] = Swept(r)
  PROVE  \A t \in Tasks : LeaseStep(r, t)
  BY DEF Swept, LeaseStep

LEMMA RecoverStep == ASSUME TypeOK, ScalarNamesSidecar, Recover PROVE RowsStep
<1>0. ASSUME NEW r \in Rows PROVE row[r] \in RowRecord /\ Swept(r) \in [Tasks -> Left]
  BY SweptType DEF TypeOK
<1>1. CASE RecoverExpired
  <2>1. ASSUME NEW r \in Rows PROVE RowStep(r)
    <3> DEFINE me == row[r]
               st == IF me.status \in Transient
                     THEN IF Confirmed(r) THEN "pending_rerun" ELSE "available"
                     ELSE me.status
               b  == IF Confirmed(r) THEN me.batch ELSE NoBatch
    <3>0. row'[r] = Recovered(r)
      BY <1>1 DEF RecoverExpired
    <3>1. CASE ~Expired(r) \/ Remaining(Swept(r)) # {}
      <4>1. row'[r] = me \/ row'[r] = Handed(me, Swept(r))
        BY <3>0, <3>1 DEF Recovered
      <4>2. Fields(row'[r], me.status, me.marker, me)
        BY <1>0, <4>1, HandedFields DEF Fields
      <4> QED  BY <4>2 DEF Fields, RowStep, ResultStep, Kept
    <3>2. CASE Expired(r) /\ Remaining(Swept(r)) = {}
      <4>1. row'[r] = Freed(me, st, b)
        BY <3>0, <3>2 DEF Recovered
      <4>2. Fields(row'[r], st, me.marker, me)
        <5> HIDE DEF st, b
        <5> QED  BY <1>0, <4>1, FreedFields
      <4>3. st \notin Transient
        BY DEF Transient
      <4>4. ~Leased(r)
        <5>1. \A t \in Tasks : Swept(r)[t] > 0 => row[r].owner = t
          BY DEF Swept, NoLease, ScalarNamesSidecar, Named
        <5>2. \A t \in Tasks : ~(Swept(r)[t] > 0)
          BY <1>0, <3>2, <5>1, RemainingLive
        <5> QED  BY <5>2 DEF Leased, LiveOwners, Live, Swept
      <4> HIDE DEF st
      <4> QED  BY <4>2, <4>3, <4>4 DEF Fields, RowStep, ResultStep, Settled
    <3> QED  BY <3>1, <3>2
  <2>2. ASSUME NEW r \in Rows PROVE \A t \in Tasks : LeaseStep(r, t)
    <3> lease'[r] = Swept(r)
      BY <1>1 DEF RecoverExpired
    <3> QED  BY SweptStep
  <2> QED  BY <2>1, <2>2 DEF RowsStep
<1>2. CASE RecoverOrphaned
  <2>1. ASSUME NEW r \in Rows PROVE RowStep(r)
    <3>1. row'[r] = IF Orphaned(r) THEN Freed(row[r], "available", NoBatch) ELSE row[r]
      BY <1>2 DEF RecoverOrphaned
    <3>2. CASE Orphaned(r)
      <4>1. Fields(row'[r], "available", row[r].marker, row[r])
        BY <1>0, <3>1, <3>2, FreedFields
      <4> QED  BY <3>2, <4>1 DEF Orphaned, Fields, RowStep, ResultStep, Settled, Transient
    <3>3. CASE ~Orphaned(r)
      BY <3>1, <3>3 DEF RowStep, ResultStep, Kept
    <3> QED  BY <3>2, <3>3
  <2>2. ASSUME NEW r \in Rows PROVE \A t \in Tasks : LeaseStep(r, t)
    <3> lease'[r] = lease[r] \/ lease'[r] = Swept(r)
      BY <1>2 DEF RecoverOrphaned
    <3> QED  BY SweptStep
  <2> QED  BY <2>1, <2>2 DEF RowsStep
<1>3. CASE RecoverReserved
  <2>1. ASSUME NEW r \in Rows PROVE RowStep(r)
    <3>1. row'[r] = row[r] \/ row'[r] = Updated(r, "available", NoBatch, FALSE)
      BY <1>3 DEF RecoverReserved
    <3>2. Fields(Updated(r, "available", NoBatch, FALSE),
                 IF Leased(r) THEN row[r].status ELSE "available", row[r].marker, row[r])
      BY UpdatedFields
    <3> QED  BY <3>1, <3>2 DEF Fields, RowStep, ResultStep, Kept, Settled, Transient
  <2> QED  BY <1>3, <2>1, LeasesKept DEF RecoverReserved, RowsStep
<1>4. ASSUME NEW t \in Tasks, RecoverTask(t) PROVE RowsStep
  <2>1. RowOf[t] \in Rows /\ lease' = lease
    BY <1>4, ConstantsAssumption DEF RecoverTask
  <2>2. row' = row \/ \E st \in {"available", "failed"} : UpdateRow(RowOf[t], st, NoBatch, FALSE)
    BY <1>4 DEF RecoverTask
  <2> QED  BY <2>1, <2>2, YieldingUpdate, RowsKept, LeasesKept DEF RowsStep, Transient
<1>5. CASE BootDone
  BY <1>5, RowsKept, LeasesKept DEF BootDone, RowsStep
<1>6. ASSUME NEW t \in Tasks, RecoverSave(t) PROVE RowsStep
  BY <1>6, PersistStep DEF RecoverSave
<1> QED  BY <1>1, <1>2, <1>3, <1>4, <1>5, <1>6 DEF Recover

LEMMA TickStep == ASSUME TypeOK, Tick PROVE RowsStep
<1>1. ASSUME NEW r \in Rows PROVE RowStep(r)
  <2>1. row[r] \in RowRecord /\ row'[r] = [row[r] EXCEPT !.left = Older(row[r].left)]
    BY DEF Tick, TypeOK
  <2>2. Fields(row'[r], row[r].status, row[r].marker, row[r])
    BY <2>1 DEF RowRecord, Fields
  <2> QED  BY <2>2 DEF Fields, RowStep, ResultStep, Kept
<1>2. ASSUME NEW r \in Rows, NEW t \in Tasks PROVE LeaseStep(r, t)
  BY DEF Tick, LeaseStep
<1> QED  BY <1>1, <1>2 DEF RowsStep

LEMMA NextStep ==
  ASSUME TypeOK, CallsInv, ScalarNamesSidecar, [Next]_vars PROVE RowsStep
<1>1. ASSUME NEW t \in Tasks, Coordinate(t) \/ Work(t) \/ Dispatch(t) PROVE RowsStep
  BY <1>1, CoordinateStep, WorkStep
<1>2. CASE \/ SelectBatch \/ StartupFails \/ Enqueue \/ Crash
           \/ \E r \in Rows : SetStatusCheck(r)
  BY <1>2, RowsKept, LeasesKept
     DEF SelectBatch, StartupFails, Enqueue, SetStatusCheck, Crash, RowsStep
<1>3. ASSUME NEW r \in Rows, SetStatusWrite(r) PROVE RowsStep
  BY <1>3, YieldingUpdate, LeasesKept DEF SetStatusWrite, RowsStep, Transient
<1>4. CASE UNCHANGED vars
  BY <1>4, RowsKept, LeasesKept DEF vars, RowsStep
<1> QED  BY <1>1, <1>2, <1>3, <1>4, ReserveStep, RecoverStep, TickStep DEF Next

-----------------------------------------------------------------------------
(* Where a step takes a task.                                              *)

\* The moves of a task that need no more than where it is;
Moves == {<<"restoring", "rerunning">>, <<"selected", "idle">>, <<"rerunning", "idle">>,
          <<"reserved", "reset">>, <<"leased", "noted">>, <<"leased", "rollback">>,
          <<"noted", "rollback">>, <<"queued", "running">>,
          <<"queued", "halted">>, <<"running", "failing">>, <<"granted", "failing">>,
          <<"submitted", "failing">>, <<"failing", "recorded">>, <<"recorded", "closing">>,
          <<"saved", "closing">>, <<"halted", "stopping">>, <<"stopped", "closing">>,
          <<"recoverQueued", "closing">>, <<"recoverRunning", "closing">>}

Moved(t, p, q) == phase[t] = p /\ phase'[t] = q

\* and those that need more: a start opens with nobody else being started,
Opens(t) ==
  /\ phase[t] = "idle" /\ phase'[t] \in {"selected", "restoring", "rerunning"}
  /\ Starting = {} /\ row' = row /\ lease' = lease
  /\ row[RowOf[t]].result # "account"
  /\ \A u \in Tasks : phase'[u] # phase[u] /\ RowOf[u] = RowOf[t] => u = t
  /\ phase'[t] = "selected" => ~Confirmed(RowOf[t]) /\ \A u \in Tasks : phase[u] \notin Working
  /\ phase'[t] # "selected" => row[RowOf[t]].status \in {"pending_rerun", "available"}

\* and a task that lets go has dropped its lease or finds it is not its own any more.
Ends(t) ==
  /\ phase[t] \in {"closing", "rollback", "stopping"} /\ phase'[t] = Released(t)
  /\ \/ lease'[RowOf[t]][t] = NoLease
     \/ ~Resolves(t) /\ lease' = lease

PhaseStep(t) ==
  \/ phase'[t] = phase[t]
  \/ <<phase[t], phase'[t]>> \in Moves
  \/ Opens(t)
  \/ /\ phase[t] \in {"selected", "rerunning"} /\ phase'[t] = "reserved"
     /\ ~Leased(RowOf[t]) /\ lease' = lease
  \/ Moved(t, "reserved", "leased") /\ lease'[RowOf[t]][t] = TTL
  \/ /\ Moved(t, "reset", "dropped") /\ lease' = lease
     /\ Leased(RowOf[t]) \/ row'[RowOf[t]].status \notin Transient
  \/ Moved(t, "noted", "queued") /\ \A u \in Starting : phase[u] = "noted"
  \/ /\ Moved(t, "running", "granted") /\ row'[RowOf[t]].marker = t
     /\ row'[RowOf[t]].status = "running" \/ row[RowOf[t]].marker = t
  \/ Moved(t, "granted", "running") /\ row'[RowOf[t]].marker = NoTask
  \/ Moved(t, "granted", "submitted") /\ row' = row
  \/ Moved(t, "submitted", "saved") /\ row'[RowOf[t]].marker = row[RowOf[t]].marker
  \/ Ends(t)
  \/ /\ boot = "tasks" /\ boot' = boot
     /\ Moved(t, "crashedQueued", "recoverQueued") \/ Moved(t, "crashedRunning", "recoverRunning")

LEMMA OnePhase ==
  ASSUME TypeOK, NEW t \in Tasks, NEW p, SetPhase(t, p), phase'[t] = p => PhaseStep(t)
  PROVE  \A u \in Tasks : PhaseStep(u)
  BY SetPhaseSets DEF PhaseStep

LEMMA PhasesKept == ASSUME phase' = phase PROVE \A u \in Tasks : PhaseStep(u)
  BY DEF PhaseStep

LEMMA RollbackPhases == ASSUME TypeOK, Rollback PROVE \A u \in Tasks : PhaseStep(u)
<1> SUFFICES ASSUME NEW u \in Tasks PROVE PhaseStep(u)
  OBVIOUS
<1>1. phase'[u] = phase[u] \/ <<phase[u], phase'[u]>> \in Moves
  BY DEF Rollback, TypeOK, Moves
<1> QED  BY <1>1 DEF PhaseStep

\* A move that needs no more than where the task is.
LEMMA PlainPhase ==
  ASSUME TypeOK, NEW t \in Tasks, NEW p, SetPhase(t, p), <<phase[t], p>> \in Moves
  PROVE  \A u \in Tasks : PhaseStep(u)
  BY OnePhase DEF PhaseStep

LEMMA CoordinatePhases ==
  ASSUME TypeOK, CallsInv, NEW t \in Tasks, Coordinate(t) PROVE \A u \in Tasks : PhaseStep(u)
<1> DEFINE r == RowOf[t]
<1>0. r \in Rows /\ row[r] \in RowRecord /\ InPlace(op[t].call, phase[t])
  BY ConstantsAssumption DEF TypeOK, CallsInv
<1>1. CASE Claim(t)
  <2>1. CASE Reservable(r) /\ ~Confirmed(r)
    <3>1. /\ SetPhase(t, "leased") /\ lease' = [lease EXCEPT ![r][t] = TTL]
          /\ phase[t] = "reserved"
      BY <1>1, <2>1 DEF Claim, GiveLease
    <3>2. lease'[r][t] = TTL
      BY <1>0, <3>1 DEF TypeOK
    <3> QED  BY <3>1, <3>2, OnePhase DEF PhaseStep, Moved
  <2>2. CASE ~(Reservable(r) /\ ~Confirmed(r))
    BY <1>1, <2>2, PhasesKept DEF Claim
  <2> QED  BY <2>1, <2>2
<1>2. CASE AdoptRead(t)
  BY <1>2, PhasesKept, RollbackPhases DEF AdoptRead, AcquireFails
<1>3. CASE Adopt(t)
  <2>1. CASE op[t].fresh /\ LiveOwners(r) \subseteq {t}
    <3>1. /\ SetPhase(t, "leased") /\ lease' = [lease EXCEPT ![r][t] = TTL]
          /\ phase[t] = "reserved"
      BY <1>0, <1>3, <2>1 DEF Adopt, InPlace
    <3>2. lease'[r][t] = TTL
      BY <1>0, <3>1 DEF TypeOK
    <3> QED  BY <3>1, <3>2, OnePhase DEF PhaseStep, Moved
  <2>2. CASE ~(op[t].fresh /\ LiveOwners(r) \subseteq {t})
    BY <1>3, <2>2, RollbackPhases DEF Adopt, AcquireFails
  <2> QED  BY <2>1, <2>2
<1>4. CASE RenewStart(t) \/ Renew(t) \/ RenewRead(t)
  BY <1>4, PhasesKept DEF RenewStart, Renew, RenewRead
<1>5. CASE ConfirmStart(t) \/ AbortStart(t) \/ AbortRead(t)
  <2>1. phase' = phase \/ (phase[t] \in {"running", "granted"} /\ SetPhase(t, "failing"))
    BY <1>0, <1>5 DEF ConfirmStart, AbortStart, AbortRead, InPlace
  <2> QED  BY <2>1, PhasesKept, PlainPhase DEF Moves
<1>6. CASE Confirm(t)
  <2> DEFINE me == [row[r] EXCEPT !.status = "running", !.marker = t, !.batch = BatchOf[t]]
  <2>0. phase[t] = "running"
    BY <1>0, <1>6 DEF Confirm, InPlace
  <2>1. CASE row' = [row EXCEPT ![r] = me] /\ SetPhase(t, "granted")
    <3>1. row'[r].status = "running" /\ row'[r].marker = t
      BY <1>0, <2>1 DEF TypeOK, RowRecord
    <3> QED  BY <2>0, <2>1, <3>1, OnePhase DEF PhaseStep, Moved
  <2>2. CASE row' = row /\ row[r].marker = t /\ SetPhase(t, "granted")
    BY <2>0, <2>2, OnePhase DEF PhaseStep, Moved
  <2>3. CASE phase' = phase
    BY <2>3, PhasesKept
  <2> QED  BY <1>6, <2>1, <2>2, <2>3 DEF Confirm
<1>7. CASE ConfirmRead(t)
  <2>0. phase[t] = "running" /\ row' = row
    BY <1>0, <1>7 DEF ConfirmRead, InPlace
  <2>1. CASE row[r].marker = t /\ SetPhase(t, "granted")
    BY <2>0, <2>1, OnePhase DEF PhaseStep, Moved
  <2>2. CASE SetPhase(t, "failing")
    BY <2>0, <2>2, PlainPhase DEF Moves
  <2> QED  BY <1>7, <2>1, <2>2 DEF ConfirmRead
<1>8. CASE Abort(t)
  <2>0. phase[t] = "granted"
    BY <1>0, <1>8 DEF Abort, InPlace
  <2>1. CASE Abortable(t)
    <3>1. /\ SetPhase(t, "running")
          /\ row' = [row EXCEPT ![r] = [row[r] EXCEPT !.status = "reserved", !.marker = NoTask]]
      BY <1>8, <2>1 DEF Abort
    <3>2. row'[r].marker = NoTask
      BY <1>0, <3>1 DEF TypeOK, RowRecord
    <3> QED  BY <2>0, <3>1, <3>2, OnePhase DEF PhaseStep, Moved
  <2>2. CASE ~Abortable(t)
    <3>1. phase' = phase \/ SetPhase(t, "failing")
      BY <1>8, <2>2 DEF Abort
    <3> QED  BY <2>0, <3>1, PhasesKept, PlainPhase DEF Moves
  <2> QED  BY <2>1, <2>2
<1>9. CASE ReleaseStart(t)
  <2>1. CASE ~Resolves(t)
    <3>1. /\ phase[t] \in {"closing", "rollback", "stopping"} /\ lease' = lease
          /\ SetPhase(t, Released(t))
      BY <1>9, <2>1 DEF ReleaseStart
    <3> QED  BY <2>1, <3>1, OnePhase DEF PhaseStep, Ends
  <2>2. CASE Resolves(t)
    BY <1>9, <2>2, PhasesKept DEF ReleaseStart
  <2> QED  BY <2>1, <2>2
<1>10. CASE Release(t)
  <2>1. phase[t] \in {"closing", "rollback", "stopping"} /\ SetPhase(t, Released(t))
    BY <1>0, <1>10 DEF Release, InPlace
  <2>2. lease'[r][t] = NoLease
    <3>1. CASE lease[r][t] = NoLease
      BY <1>10, <3>1 DEF Release
    <3>2. CASE lease[r][t] # NoLease
      <4>1. lease' = [lease EXCEPT ![r] = [lease[r] EXCEPT ![t] = NoLease]]
        BY <1>10, <3>2 DEF Release, ReleaseRow
      <4> QED  BY <1>0, <4>1 DEF TypeOK
    <3> QED  BY <3>1, <3>2
  <2> QED  BY <2>1, <2>2, OnePhase DEF PhaseStep, Ends
<1> QED
  BY <1>1, <1>2, <1>3, <1>4, <1>5, <1>6, <1>7, <1>8, <1>9, <1>10 DEF Coordinate

LEMMA WorkPhases ==
  ASSUME TypeOK, NEW t \in Tasks, Work(t) \/ Dispatch(t) PROVE \A u \in Tasks : PhaseStep(u)
<1> DEFINE r == RowOf[t]
<1>0. r \in Rows /\ row[r] \in RowRecord
  BY ConstantsAssumption DEF TypeOK
<1>1. CASE Submit(t)
  BY <1>1, OnePhase DEF Submit, PhaseStep, Moved
<1>2. CASE SaveResult(t)
  <2>1. /\ row' = [row EXCEPT ![r] = [row[r] EXCEPT !.result = "account"]]
        /\ phase[t] = "submitted" /\ SetPhase(t, "saved")
    BY <1>2 DEF SaveResult
  <2>2. row'[r].marker = row[r].marker
    BY <1>0, <2>1 DEF TypeOK, RowRecord
  <2> QED  BY <2>1, <2>2, OnePhase DEF PhaseStep, Moved
<1>3. CASE WorkerStart(t) \/ MarkSuccess(t) \/ SaveFailure(t) \/ RecordFailure(t)
           \/ StoppedRuns(t)
  <2> \E p : SetPhase(t, p) /\ <<phase[t], p>> \in Moves
    BY <1>3 DEF WorkerStart, MarkSuccess, SaveFailure, RecordFailure, StoppedRuns,
       PersistFailure, Moves
  <2> QED  BY PlainPhase
<1>4. CASE Fail(t) \/ HaltQueued(t) \/ StopQueued(t)
  <2> \E p : SetPhase(t, p) /\ <<phase[t], p>> \in Moves
    BY <1>4 DEF Fail, HaltQueued, StopQueued, PersistFailure, Moves
  <2> QED  BY PlainPhase
<1>5. CASE RerunRestore(t) \/ NoteQueued(t)
  <2> \E p : SetPhase(t, p) /\ <<phase[t], p>> \in Moves
    BY <1>5 DEF RerunRestore, NoteQueued, Moves
  <2> QED  BY PlainPhase
<1>7. CASE ResetRow(t)
  <2> DEFINE me == Updated(r, "available", NoBatch, FALSE)
  <2>1. /\ row' = [row EXCEPT ![r] = me] /\ lease' = lease
        /\ phase[t] = "reset" /\ SetPhase(t, "dropped")
    BY <1>7 DEF ResetRow, UpdateRow
  <2>2. ~Leased(r) => me.status = "available"
    <3>1. Fields(me, IF Leased(r) /\ ~FALSE THEN row[r].status ELSE "available",
                 row[r].marker, row[r])
      BY <1>0, UpdatedFields
    <3> HIDE DEF me
    <3> QED  BY <3>1 DEF Fields
  <2> HIDE DEF me
  <2>3. row'[r] = me
    BY <1>0, <2>1 DEF TypeOK
  <2> QED  BY <2>1, <2>2, <2>3, OnePhase DEF PhaseStep, Moved, Transient
<1>6. CASE RerunRead(t)
  <2>1. PICK p \in {"restoring", "rerunning"} :
          SetPhase(t, p) /\ row[r].status \in {"pending_rerun", "available"}
    BY <1>6 DEF RerunRead
  <2>2. phase'[t] = p /\ \A u \in Tasks \ {t} : phase'[u] = phase[u]
    BY <2>1, SetPhaseSets
  <2>3. phase[t] = "idle" /\ Starting = {} /\ row' = row /\ lease' = lease
        /\ row[r].result # "account"
    BY <1>6 DEF RerunRead
  <2>4. Opens(t)
    BY <2>1, <2>2, <2>3 DEF Opens
  <2> QED  BY <2>2, <2>4 DEF PhaseStep
<1> QED  BY <1>1, <1>2, <1>3, <1>4, <1>5, <1>6, <1>7 DEF Work, Dispatch

LEMMA ManagerPhases ==
  ASSUME TypeOK, SelectBatch \/ Reserve \/ StartupFails \/ Enqueue
  PROVE  \A u \in Tasks : PhaseStep(u)
<1>1. CASE SelectBatch
  <2>1. PICK S \in (SUBSET Tasks) \ {{}} :
         /\ \A t \in S : /\ phase[t] = "idle" /\ ~Confirmed(RowOf[t])
                         /\ row[RowOf[t]].result # "account"
         /\ \A t, u \in S : RowOf[t] = RowOf[u] => t = u
         /\ phase' = [t \in Tasks |-> IF t \in S THEN "selected" ELSE phase[t]]
    BY <1>1 DEF SelectBatch
  <2>2. Starting = {} /\ row' = row /\ lease' = lease /\ \A u \in Tasks : phase[u] \notin Working
    BY <1>1 DEF SelectBatch, IsRunning
  <2>3. ASSUME NEW t \in S PROVE Opens(t)
    BY <2>1, <2>2 DEF Opens
  <2> QED  BY <2>1, <2>3 DEF PhaseStep
<1>2. CASE Reserve
  <2>1. CASE \A t \in Selection : Reservable(RowOf[t])
    <3>1. /\ phase' = [t \in Tasks |-> IF t \in Selection THEN "reserved" ELSE phase[t]]
          /\ lease' = lease
      BY <1>2, <2>1 DEF Reserve
    <3>2. \A t \in Selection : phase[t] \in {"selected", "rerunning"} /\ ~Leased(RowOf[t])
      BY <2>1 DEF Selection, Reservable
    <3> QED  BY <3>1, <3>2 DEF PhaseStep
  <2>2. CASE ~(\A t \in Selection : Reservable(RowOf[t]))
    <3>1. phase' = [t \in Tasks |-> IF t \in Selection THEN "idle" ELSE phase[t]]
      BY <1>2, <2>2 DEF Reserve
    <3>2. \A t \in Selection : phase[t] \in {"selected", "rerunning"}
      BY DEF Selection
    <3> QED  BY <3>1, <3>2 DEF PhaseStep, Moves
  <2> QED  BY <2>1, <2>2
<1>3. CASE StartupFails
  BY <1>3, RollbackPhases DEF StartupFails
<1>4. CASE Enqueue
  BY <1>4 DEF Enqueue, PhaseStep, Moved
<1> QED  BY <1>1, <1>2, <1>3, <1>4

LEMMA NextPhases ==
  ASSUME TypeOK, CallsInv, [Next]_vars, ~Crash PROVE \A u \in Tasks : PhaseStep(u)
<1>1. ASSUME NEW t \in Tasks, Coordinate(t) \/ Work(t) \/ Dispatch(t)
      PROVE  \A u \in Tasks : PhaseStep(u)
  BY <1>1, CoordinatePhases, WorkPhases
<1>2. ASSUME \/ \E r \in Rows : SetStatusCheck(r) \/ SetStatusWrite(r)
             \/ Tick \/ UNCHANGED vars
      PROVE  \A u \in Tasks : PhaseStep(u)
  BY <1>2, PhasesKept DEF SetStatusCheck, SetStatusWrite, Tick, vars
<1>3. CASE Recover
  <2>1. CASE RecoverExpired \/ RecoverOrphaned \/ RecoverReserved \/ BootDone
    BY <2>1, PhasesKept DEF RecoverExpired, RecoverOrphaned, RecoverReserved, BootDone
  <2>2. ASSUME NEW t \in Tasks, RecoverSave(t) PROVE \A u \in Tasks : PhaseStep(u)
    BY <2>2, OnePhase DEF RecoverSave, PersistFailure, Crashed, PhaseStep, Moved
  <2>3. ASSUME NEW t \in Tasks, RecoverTask(t) PROVE \A u \in Tasks : PhaseStep(u)
    BY <2>3, PlainPhase DEF RecoverTask, Recovering, Moves
  <2> QED  BY <1>3, <2>1, <2>2, <2>3 DEF Recover
<1> QED  BY <1>1, <1>2, <1>3, ManagerPhases DEF Next

\* A crash takes every task of the process out of the way.
LEMMA CrashPhases ==
  ASSUME TypeOK, Crash, NEW t \in Tasks
  PROVE  /\ row' = row /\ lease' = lease /\ boot' = "leases"
         /\ \/ phase'[t] = phase[t] /\ phase[t] \in {"idle"} \cup Over \cup Crashed
            \/ /\ phase[t] \notin {"idle"} \cup Over \cup Crashed
               /\ phase'[t] \in {"unreleased", "lost"} \cup Crashed
         /\ phase[t] \in {"reserved", "reset"} => phase'[t] = "lost"
  BY DEF Crash, TypeOK, Over, Crashed, Working, Finishing, Stopping, Recovering

-----------------------------------------------------------------------------
(* The manager's boot, and the rows that lose their last sidecar row.      *)

BootStep ==
  \/ boot' = boot
  \/ /\ boot = "leases" /\ boot' = "orphans" /\ phase' = phase
     /\ \A r \in Rows, t \in Tasks : lease'[r][t] # 0
  \/ boot \in {"orphans", "reserved"} /\ boot' \in {"reserved", "tasks"} /\ phase' = phase
  \/ /\ boot = "tasks" /\ boot' = "up" /\ phase' = phase
     /\ \A t \in Tasks : phase[t] \notin Crashed \cup Recovering \cup {"closing"}

LEMMA NextBoot == ASSUME TypeOK, [Next]_vars, ~Crash PROVE BootStep
<1>1. ASSUME NEW t \in Tasks, Coordinate(t) PROVE boot' = boot
  BY <1>1 DEF Coordinate, Claim, AdoptRead, Adopt, ConfirmStart, Confirm, ConfirmRead,
     AbortStart, Abort, AbortRead, RenewStart, Renew, RenewRead, ReleaseStart, Release
<1>2. ASSUME NEW t \in Tasks, Work(t) \/ Dispatch(t) PROVE boot' = boot
  BY <1>2 DEF Work, Dispatch, WorkerStart, Submit, SaveResult, MarkSuccess, Fail, SaveFailure,
     RecordFailure, HaltQueued, StopQueued, StoppedRuns, RerunRead, RerunRestore, ResetRow,
     NoteQueued, PersistFailure
<1>3. ASSUME \/ SelectBatch \/ Reserve \/ StartupFails \/ Enqueue
             \/ \E r \in Rows : SetStatusCheck(r) \/ SetStatusWrite(r)
             \/ Tick \/ UNCHANGED vars
      PROVE  boot' = boot
  BY <1>3 DEF SelectBatch, Reserve, StartupFails, Enqueue, SetStatusCheck, SetStatusWrite,
     Tick, vars
<1>4. CASE Recover
  <2>1. CASE RecoverExpired
    <3>1. ASSUME NEW r \in Rows, NEW t \in Tasks PROVE lease'[r][t] # 0
      <4>1. lease'[r] = Swept(r)
        BY <2>1 DEF RecoverExpired
      <4> QED  BY <4>1 DEF Swept, NoLease
    <3> QED  BY <2>1, <3>1 DEF RecoverExpired, BootStep
  <2>2. CASE RecoverOrphaned \/ RecoverReserved \/ BootDone
    BY <2>2 DEF RecoverOrphaned, RecoverReserved, BootDone, BootStep
  <2>3. ASSUME NEW t \in Tasks, RecoverSave(t) \/ RecoverTask(t) PROVE boot' = boot
    BY <2>3 DEF RecoverSave, RecoverTask, PersistFailure
  <2> QED  BY <1>4, <2>1, <2>2, <2>3 DEF Recover, BootStep
<1> QED  BY <1>1, <1>2, <1>3, <1>4 DEF Next, BootStep

\* A row that stays reserved, queued or running keeps a sidecar row if it had one.
Linked(r) ==
  row'[r].status \in Transient /\ (\E v \in Tasks : lease[r][v] # NoLease) =>
    \E v \in Tasks : lease'[r][v] # NoLease

LEMMA GiveLinked ==
  ASSUME TypeOK, NEW t \in Tasks, lease' = [lease EXCEPT ![RowOf[t]][t] = TTL],
         NEW r \in Rows
  PROVE  Linked(r)
<1>1. RowOf[t] \in Rows /\ TTL # NoLease
  BY ConstantsAssumption DEF NoLease
<1>2. /\ lease'[RowOf[t]][t] = TTL
      /\ \A s \in Rows \ {RowOf[t]} : lease'[s] = lease[s]
  BY <1>1 DEF TypeOK
<1> QED  BY <1>1, <1>2 DEF Linked

LEMMA NextLinked ==
  ASSUME TypeOK, [Next]_vars, NEW r \in Rows PROVE Linked(r)
<1>1. CASE lease' = lease
  BY <1>1 DEF Linked
<1>2. ASSUME NEW t \in Tasks, Claim(t) \/ Adopt(t) \/ Renew(t) PROVE Linked(r)
  <2>1. lease' = lease \/ lease' = [lease EXCEPT ![RowOf[t]][t] = TTL]
    BY <1>2 DEF Claim, GiveLease, Adopt, AcquireFails, Renew
  <2> QED  BY <1>1, <2>1, GiveLinked
<1>3. ASSUME NEW t \in Tasks, Release(t) PROVE Linked(r)
  <2> DEFINE ls == [lease[RowOf[t]] EXCEPT ![t] = NoLease]
  <2>0. RowOf[t] \in Rows /\ row[RowOf[t]] \in RowRecord /\ lease[RowOf[t]] \in [Tasks -> Left]
    BY ConstantsAssumption DEF TypeOK
  <2>1. CASE lease[RowOf[t]][t] # NoLease
    <3>1. /\ lease' = [lease EXCEPT ![RowOf[t]] = ls]
          /\ row' = [row EXCEPT ![RowOf[t]] =
               IF Remaining(ls) # {} THEN Handed(row[RowOf[t]], ls)
               ELSE Freed(row[RowOf[t]], ReleaseStatus(row[RowOf[t]]), row[RowOf[t]].batch)]
      BY <1>3, <2>1 DEF Release, ReleaseRow
    <3>2. Remaining(ls) # {} => \E v \in Tasks : ls[v] # NoLease
      BY DEF Remaining, NoLease
    <3>3. ReleaseStatus(row[RowOf[t]]) \notin Transient
      BY <2>0 DEF ReleaseStatus, RowRecord, Statuses, Transient, Terminal
    <3>4. Remaining(ls) = {} => row'[RowOf[t]].status \notin Transient
      <4> HIDE DEF ls
      <4> QED  BY <2>0, <3>1, <3>3, FreedFields DEF Fields, TypeOK
    <3>5. /\ lease'[RowOf[t]] = ls
          /\ \A s \in Rows \ {RowOf[t]} : lease'[s] = lease[s]
      <4> HIDE DEF ls
      <4> QED  BY <2>0, <3>1 DEF TypeOK
    <3> HIDE DEF ls
    <3> QED  BY <3>2, <3>4, <3>5 DEF Linked
  <2> QED  BY <1>1, <1>3, <2>1 DEF Release
<1>4. CASE Tick
  <2> \A v \in Tasks : lease'[r][v] = Older(lease[r][v]) /\ lease[r][v] \in Int
    BY <1>4, TTLInLeft, ConstantsAssumption DEF Tick, TypeOK, Left, NoLease
  <2> QED  BY DEF Linked, Older, NoLease
<1>5. CASE RecoverExpired
  <2>1. row'[r] = Recovered(r) /\ lease'[r] = Swept(r) /\ row[r] \in RowRecord
    BY <1>5 DEF RecoverExpired, TypeOK
  <2>2. Remaining(Swept(r)) # {} => \E v \in Tasks : Swept(r)[v] # NoLease
    BY DEF Remaining, NoLease
  <2>3. ~Expired(r) => Swept(r) = [v \in Tasks |-> lease[r][v]]
    BY DEF Swept, Expired
  <2>4. CASE Expired(r) /\ Remaining(Swept(r)) = {}
    <3> DEFINE me == row[r]
               st == IF me.status \in Transient
                     THEN IF Confirmed(r) THEN "pending_rerun" ELSE "available"
                     ELSE me.status
               b  == IF Confirmed(r) THEN me.batch ELSE NoBatch
    <3>1. row'[r] = Freed(me, st, b)
      BY <2>1, <2>4 DEF Recovered
    <3>2. st \notin Transient
      BY DEF Transient
    <3>3. row'[r].status = st
      <4> HIDE DEF st, b
      <4> QED  BY <2>1, <3>1, FreedFields DEF Fields
    <3> QED  BY <3>2, <3>3 DEF Linked
  <2> QED  BY <2>1, <2>2, <2>3, <2>4 DEF Linked
<1>6. CASE RecoverOrphaned
  <2>1. CASE Orphaned(r)
    <3>1. row'[r] = Freed(row[r], "available", NoBatch) /\ row[r] \in RowRecord
      BY <1>6, <2>1 DEF RecoverOrphaned, TypeOK
    <3> QED  BY <3>1, FreedFields DEF Fields, Linked, Transient
  <2>2. CASE ~Orphaned(r)
    BY <1>6, <2>2 DEF RecoverOrphaned, Linked
  <2> QED  BY <2>1, <2>2
<1>7. ASSUME NEW t \in Tasks, Coordinate(t) PROVE Linked(r)
  <2>1. Claim(t) \/ Adopt(t) \/ Renew(t) \/ Release(t) \/ lease' = lease
    BY <1>7 DEF Coordinate, AdoptRead, AcquireFails, ConfirmStart, Confirm, ConfirmRead,
       AbortStart, Abort, AbortRead, RenewStart, RenewRead, ReleaseStart
  <2> QED  BY <1>1, <1>2, <1>3, <2>1
<1>8. ASSUME NEW t \in Tasks, Work(t) \/ Dispatch(t) PROVE lease' = lease
  BY <1>8 DEF Work, Dispatch, WorkerStart, Submit, SaveResult, MarkSuccess, Fail, SaveFailure,
     RecordFailure, HaltQueued, StopQueued, StoppedRuns, RerunRead, RerunRestore, ResetRow,
     NoteQueued, PersistFailure
<1>9. ASSUME \/ SelectBatch \/ Reserve \/ StartupFails \/ Enqueue
             \/ \E s \in Rows : SetStatusCheck(s) \/ SetStatusWrite(s)
             \/ Crash \/ RecoverReserved \/ BootDone
             \/ \E t \in Tasks : RecoverSave(t) \/ RecoverTask(t)
             \/ UNCHANGED vars
      PROVE  lease' = lease
  BY <1>9 DEF SelectBatch, Reserve, StartupFails, Enqueue, SetStatusCheck, SetStatusWrite,
     Crash, RecoverReserved, BootDone, RecoverSave, RecoverTask, PersistFailure, vars
<1> QED  BY <1>1, <1>4, <1>5, <1>6, <1>7, <1>8, <1>9 DEF Next, Recover

-----------------------------------------------------------------------------
(* The door.  One start at a time brings a task to a row, and nobody else   *)
(* holds the row from its reservation on; this needs no punctual heartbeat. *)

\* Where a task has no lease to hold.
Unheld == {"idle", "selected", "restoring", "rerunning", "reserved", "reset",
           "ended", "dropped", "stopped"}

OwnRows  == \A r \in Rows, t \in Tasks : lease[r][t] # NoLease => RowOf[t] = r
OneStart == \A t, u \in Tasks :
              /\ phase[t] \in Dispatching \cup Undoing /\ phase[u] \in Dispatching \cup Undoing
              /\ RowOf[t] = RowOf[u]
              => t = u
Alone    == \A t \in Tasks : phase[t] \in {"reserved", "leased", "noted"} \cup Undoing =>
              LiveOwners(RowOf[t]) \subseteq {t}
LetGo    == \A t \in Tasks : phase[t] \in Unheld => ~Live(RowOf[t], t)
Chosen   == \A t \in Tasks : phase[t] = "selected" =>
              /\ ~Confirmed(RowOf[t])
              /\ \A u \in Tasks : phase[u] \notin Working
Marked   == \A t \in Tasks : row[RowOf[t]].marker = t =>
              phase[t] \notin Dispatching \cup Undoing \cup {"idle", "queued", "running"}
Fallow   == \A t \in Tasks : phase[t] \in {"restoring", "rerunning"} =>
              row[RowOf[t]].status \notin {"reserved", "running"}

DoorInv == OwnRows /\ OneStart /\ Alone /\ LetGo /\ Chosen /\ Marked /\ Fallow

\* A lease only comes to life when its task is granted it.
LEMMA LiveStep ==
  ASSUME TypeOK, RowsStep, NEW r \in Rows, NEW t \in Tasks, lease'[r][t] > 0
  PROVE  lease[r][t] > 0 \/ (RowOf[t] = r /\ Moved(t, "reserved", "leased"))
<1>1. lease[r][t] \in Int
  BY ConstantsAssumption DEF TypeOK, Left, NoLease
<1>2. LeaseStep(r, t)
  BY DEF RowsStep
<1>3. CASE RowOf[t] = r /\ Gives(t)
  BY <1>3 DEF Gives, Live, Moved
<1>4. CASE RowOf[t] = r /\ Drops(t)
  BY <1>4 DEF Drops, NoLease
<1> QED  BY <1>1, <1>2, <1>3, <1>4 DEF LeaseStep, Older, NoLease

\* A task that lets go is not live any more.
LEMMA EndsUnheld ==
  ASSUME TypeOK, ScalarNamesSidecar, NEW t \in Tasks, Ends(t)
  PROVE  ~Live(RowOf[t], t)'
<1>1. RowOf[t] \in Rows /\ t # NoTask
  BY ConstantsAssumption
<1>2. CASE lease'[RowOf[t]][t] = NoLease
  BY <1>2 DEF Live, NoLease
<1>3. CASE ~Resolves(t) /\ lease' = lease
  BY <1>1, <1>3 DEF Resolves, ScalarNamesSidecar, Named, Live
<1> QED  BY <1>2, <1>3 DEF Ends

LEMMA OwnRowsStep == ASSUME TypeOK, OwnRows, RowsStep PROVE OwnRows'
<1>1. ASSUME NEW r \in Rows, NEW t \in Tasks, lease'[r][t] # NoLease PROVE RowOf[t] = r
  <2>1. LeaseStep(r, t) /\ (lease[r][t] = NoLease => Older(lease[r][t]) = NoLease)
    BY DEF RowsStep, Older, NoLease
  <2> QED  BY <1>1, <2>1 DEF LeaseStep, OwnRows, NoLease
<1> QED  BY <1>1 DEF OwnRows

LEMMA OneStartStep ==
  ASSUME TypeOK, OneStart, \A u \in Tasks : PhaseStep(u) PROVE OneStart'
<1> SUFFICES ASSUME NEW t \in Tasks, NEW u \in Tasks, RowOf[t] = RowOf[u],
                    phase'[t] \in Dispatching \cup Undoing,
                    phase'[u] \in Dispatching \cup Undoing
             PROVE  t = u
  BY DEF OneStart
<1>1. ASSUME NEW v \in {t, u} PROVE phase[v] \in Dispatching \cup Undoing \/ Opens(v)
  BY <1>1 DEF PhaseStep, Moves, Moved, Ends, Released, Dispatching, Undoing
<1>2. CASE Opens(t) \/ Opens(u)
  BY <1>1, <1>2 DEF Opens, Starting, Dispatching
<1>3. CASE ~Opens(t) /\ ~Opens(u)
  BY <1>1, <1>3 DEF OneStart
<1> QED  BY <1>2, <1>3

LEMMA AloneStep ==
  ASSUME TypeOK, OneStart, Alone, RowsStep, \A u \in Tasks : PhaseStep(u) PROVE Alone'
<1> SUFFICES ASSUME NEW t \in Tasks, NEW u \in Tasks,
                    phase'[t] \in {"reserved", "leased", "noted"} \cup Undoing,
                    lease'[RowOf[t]][u] > 0
             PROVE  u = t
  BY DEF Alone, LiveOwners, Live
<1>0. RowOf[t] \in Rows
  BY ConstantsAssumption
<1>1. \/ phase[t] \in {"reserved", "leased", "noted"} \cup Undoing
      \/ /\ phase[t] \in {"selected", "rerunning"} /\ phase'[t] = "reserved"
         /\ ~Leased(RowOf[t])
  BY DEF PhaseStep, Moves, Moved, Opens, Ends, Released, Undoing
<1>2. CASE lease[RowOf[t]][u] > 0
  BY <1>1, <1>2 DEF Alone, Leased, LiveOwners, Live
<1>3. CASE RowOf[u] = RowOf[t] /\ Moved(u, "reserved", "leased")
  BY <1>1, <1>3 DEF OneStart, Moved, Dispatching, Undoing
<1> QED  BY <1>0, <1>2, <1>3, LiveStep

LEMMA LetGoStep ==
  ASSUME TypeOK, ScalarNamesSidecar, Alone, LetGo, RowsStep, \A u \in Tasks : PhaseStep(u)
  PROVE  LetGo'
<1> SUFFICES ASSUME NEW t \in Tasks, phase'[t] \in Unheld PROVE ~Live(RowOf[t], t)'
  BY DEF LetGo, Live
<1>0. RowOf[t] \in Rows
  BY ConstantsAssumption
<1>1. phase[t] \in Unheld \/ Ends(t)
  BY DEF PhaseStep, Moves, Moved, Opens, Unheld
<1>2. CASE phase[t] \in Unheld
  <2>1. ~Live(RowOf[t], t) /\ ~Moved(t, "reserved", "leased")
    BY <1>2 DEF LetGo, Moved, Unheld
  <2> QED  BY <1>0, <2>1, LiveStep DEF Live
<1> QED  BY <1>1, <1>2, EndsUnheld

LEMMA ChosenStep ==
  ASSUME TypeOK, Chosen, RowsStep, \A u \in Tasks : PhaseStep(u) PROVE Chosen'
<1> SUFFICES ASSUME NEW t \in Tasks, phase'[t] = "selected"
             PROVE  /\ row'[RowOf[t]].marker = NoTask
                    /\ \A u \in Tasks : phase'[u] \notin Working
  BY DEF Chosen, Confirmed, Working
<1>0. RowOf[t] \in Rows
  BY ConstantsAssumption
<1>1. phase[t] = "selected" \/ Opens(t)
  BY DEF PhaseStep, Moves, Moved, Ends, Released
<1>2. /\ row[RowOf[t]].marker = NoTask
      /\ \A u \in Tasks : phase[u] \notin Working
  BY <1>1 DEF Chosen, Confirmed, Opens
<1>3. ASSUME NEW u \in Tasks, phase'[u] \in Working PROVE FALSE
  <2>1. \A v \in Starting : phase[v] = "noted"
    BY <1>2, <1>3 DEF PhaseStep, Moves, Moved, Opens, Ends, Released, Working
  <2>2. Moved(u, "noted", "queued")
    BY <1>2, <1>3 DEF PhaseStep, Moves, Moved, Opens, Ends, Released, Working
  <2> QED  BY <1>1, <2>1, <2>2 DEF Starting, Opens, Moved, Dispatching
<1>4. row'[RowOf[t]].marker = NoTask
  <2>1. ASSUME NEW u \in Tasks, RowOf[u] = RowOf[t], Marks(u)
        PROVE  row'[RowOf[t]].marker = NoTask
    BY <1>2, <2>1 DEF Marks, Grants, Working
  <2> QED  BY <1>0, <1>2, <2>1 DEF RowsStep, RowStep, Kept, Settled
<1> QED  BY <1>3, <1>4

LEMMA MarkedStep ==
  ASSUME TypeOK, Marked, RowsStep, \A u \in Tasks : PhaseStep(u) PROVE Marked'
<1> SUFFICES ASSUME NEW t \in Tasks, row'[RowOf[t]].marker = t
             PROVE  phase'[t] \notin Dispatching \cup Undoing \cup {"idle", "queued", "running"}
  BY DEF Marked, Dispatching, Undoing
<1>0. RowOf[t] \in Rows /\ t # NoTask
  BY ConstantsAssumption
<1>1. row[RowOf[t]].marker = t \/ Grants(t)
  BY <1>0 DEF RowsStep, RowStep, Kept, Settled, Marks
<1>2. CASE row[RowOf[t]].marker = t
  <2>1. phase[t] \notin Dispatching \cup Undoing \cup {"idle", "queued", "running"}
    BY <1>2 DEF Marked
  <2> QED  BY <1>0, <2>1
           DEF PhaseStep, Moves, Moved, Opens, Ends, Released, Dispatching, Undoing
<1>3. CASE Grants(t)
  BY <1>3 DEF Grants, Dispatching, Undoing
<1> QED  BY <1>1, <1>2, <1>3

LEMMA FallowStep ==
  ASSUME TypeOK, OneStart, Fallow, RowsStep, \A u \in Tasks : PhaseStep(u) PROVE Fallow'
<1> SUFFICES ASSUME NEW t \in Tasks, phase'[t] \in {"restoring", "rerunning"},
                    row'[RowOf[t]].status \in {"reserved", "running"}
             PROVE  FALSE
  BY DEF Fallow
<1>0. RowOf[t] \in Rows
  BY ConstantsAssumption
<1>1. phase[t] \in {"restoring", "rerunning"} \/ Opens(t)
  BY DEF PhaseStep, Moves, Moved, Ends, Released
<1>2. CASE Opens(t)
  BY <1>2 DEF Opens
<1>3. CASE phase[t] \in {"restoring", "rerunning"}
  <2>1. row[RowOf[t]].status \notin {"reserved", "running"}
    BY <1>3 DEF Fallow
  <2>2. PICK u \in Tasks : RowOf[u] = RowOf[t] /\ Marks(u)
    BY <1>0, <2>1 DEF RowsStep, RowStep, Kept, Settled, Transient
  <2>3. Claims(u) \/ Reserves(u)
    BY <2>1, <2>2 DEF Marks, Notes, Tells, Grants, Aborts, LetsGo, Transient
  <2>4. u = t
    BY <1>3, <2>2, <2>3 DEF OneStart, Claims, Reserves, Dispatching
  <2> QED  BY <1>3, <2>3, <2>4 DEF Claims, Reserves
<1> QED  BY <1>1, <1>2, <1>3

LEMMA CrashDoor == ASSUME TypeOK, DoorInv, Crash PROVE DoorInv'
<1>1. row' = row /\ lease' = lease
  BY DEF Crash
<1>2. ASSUME NEW t \in Tasks
      PROVE  \/ phase'[t] = phase[t] /\ phase[t] \in {"idle"} \cup Over \cup Crashed
             \/ phase'[t] \in {"unreleased", "lost"} \cup Crashed
  BY CrashPhases
<1>3. OwnRows' /\ OneStart' /\ Alone'
  BY <1>1, <1>2 DEF DoorInv, OwnRows, OneStart, Alone, Dispatching, Undoing, Over, Crashed
<1>4. LetGo'
  BY <1>1, <1>2 DEF DoorInv, LetGo, Unheld, Live, Over, Crashed
<1>5. Chosen' /\ Fallow'
  BY <1>1, <1>2 DEF DoorInv, Chosen, Fallow, Over, Crashed
<1>6. Marked'
  BY <1>1, <1>2 DEF DoorInv, Marked, Dispatching, Undoing, Over, Crashed
<1> QED  BY <1>3, <1>4, <1>5, <1>6 DEF DoorInv

\* What every later argument starts from.
BaseInv == TypeOK /\ ScalarNamesSidecar /\ CallsInv

LEMMA NextDoor == ASSUME BaseInv, DoorInv, [Next]_vars PROVE DoorInv'
<1>1. CASE Crash
  BY <1>1, CrashDoor DEF BaseInv
<1>2. CASE ~Crash
  <2>1. RowsStep /\ \A u \in Tasks : PhaseStep(u)
    BY <1>2, NextStep, NextPhases DEF BaseInv
  <2> QED  BY <2>1, OwnRowsStep, OneStartStep, AloneStep, LetGoStep, ChosenStep, MarkedStep,
              FallowStep DEF BaseInv, DoorInv
<1> QED  BY <1>1, <1>2

LEMMA InitDoor == Init => DoorInv
<1> SUFFICES ASSUME Init PROVE DoorInv
  OBVIOUS
<1>1. ASSUME NEW t \in Tasks
      PROVE  /\ RowOf[t] \in Rows /\ phase[t] = "idle" /\ t # NoTask
             /\ row[RowOf[t]].marker = NoTask /\ lease[RowOf[t]][t] = NoLease
             /\ lease[RowOf[t]] = [u \in Tasks |-> NoLease]
  BY ConstantsAssumption DEF Init, FreshRow
<1>2. OwnRows
  BY DEF Init, OwnRows
<1>3. OneStart /\ Alone
  BY <1>1 DEF OneStart, Alone, Dispatching, Undoing
<1>4. LetGo
  BY <1>1 DEF LetGo, Live, NoLease
<1>5. Chosen /\ Fallow /\ Marked
  BY <1>1 DEF Chosen, Fallow, Marked
<1> QED  BY <1>2, <1>3, <1>4, <1>5 DEF DoorInv

LEMMA BaseHolds == Spec => []BaseInv
<1>1. TypeOK /\ ScalarNamesSidecar /\ CallsInv => BaseInv
  BY DEF BaseInv
<1> QED  BY <1>1, TypeCorrect, ScalarCorrect, CallsStayInPlace, PTL

\* No two starts meet on a row, and whoever was started there is its only owner.
THEOREM DoorHolds == Spec => []DoorInv
  BY InitDoor, NextDoor, BaseHolds, PTL DEF Spec

\* MarkerErasedOnlyByAbortOrRerun: a confirmation is the durable record that the
\* address may have been submitted; only its own task, before the submit, or a rerun
\* takes it away, whichever calls, sweeps and operators run in between.
THEOREM MarkerErasure == Spec => MarkerErasedOnlyByAbortOrRerun
<1> DEFINE Step == \A r \in Rows : Confirmed(r) /\ row'[r].marker # row[r].marker
                    => /\ row'[r].marker = NoTask
                       /\ \/ \E t \in Tasks : RowOf[t] = r /\ phase[t] = "rerunning"
                          \/ phase[row[r].marker] = "granted"
<1>1. ASSUME BaseInv, DoorInv, [Next]_vars PROVE Step
  <2> SUFFICES ASSUME NEW r \in Rows, Confirmed(r), row'[r].marker # row[r].marker
               PROVE  /\ row'[r].marker = NoTask
                      /\ \/ \E t \in Tasks : RowOf[t] = r /\ phase[t] = "rerunning"
                         \/ phase[row[r].marker] = "granted"
    OBVIOUS
  <2>1. RowsStep
    BY <1>1, NextStep DEF BaseInv
  <2>2. PICK t \in Tasks : RowOf[t] = r /\ Marks(t)
    BY <2>1 DEF RowsStep, RowStep, Kept, Settled
  <2>3. /\ Aborts(t) \/ Reserves(t)
        /\ row'[r].marker = NoTask
    BY <2>2 DEF Marks, Grants
  <2>4. phase[t] # "selected"
    BY <1>1, <2>2 DEF DoorInv, Chosen
  <2> QED  BY <2>2, <2>3, <2>4 DEF Aborts, Reserves
<1>2. BaseInv /\ DoorInv /\ [Next]_vars => [Step]_vars
  BY <1>1
<1> QED  BY <1>2, BaseHolds, DoorHolds, PTL DEF Spec, MarkerErasedOnlyByAbortOrRerun

-----------------------------------------------------------------------------
(* The lease under a punctual heartbeat: a task that is worked on never     *)
(* sees its lease run out, so what its phase says of the row stays true.    *)

Held == {"leased", "noted", "rollback", "recorded", "saved", "halted", "stopping"} \cup Working

Booting == \A t \in Tasks :
  /\ phase[t] \in Crashed => boot # "up"
  /\ phase[t] \in Recovering => boot = "tasks"

Unswept(t) == phase[t] \in Crashed \cup Recovering /\ boot \in {"orphans", "reserved", "tasks"}

HoldsLease == \A t \in Tasks :
  /\ phase[t] \in Held => lease[RowOf[t]][t] > 0
  /\ phase[t] = "closing" \/ Unswept(t) => lease[RowOf[t]][t] # 0
  /\ phase[t] \in Unheld => lease[RowOf[t]][t] = NoLease

RunsOn  == \A t \in Tasks : phase[t] \in {"granted", "submitted"} => row[RowOf[t]].status = "running"
Granted == \A t \in Tasks : phase[t] \in {"granted", "submitted", "saved"} => row[RowOf[t]].marker = t
Undone  == \A t \in Tasks :
  phase[t] \in Dispatching \cup {"queued", "running", "granted", "submitted"} =>
    row[RowOf[t]].result # "account"
\* A row is reserved, queued or running for a sidecar row or a task without one.
Carried == \A r \in Rows : row[r].status \in Transient =>
  \/ \E v \in Tasks : lease[r][v] # NoLease
  \/ \E t \in Tasks : RowOf[t] = r /\ phase[t] \in {"reserved", "reset", "lost"}

HoldInv == Booting /\ HoldsLease /\ RunsOn /\ Granted /\ Undone /\ Carried

\* The lease of an attended task, and of one that has none.
LEMMA LeaseMoves ==
  ASSUME Punctual, BaseInv, RowsStep, NEW t \in Tasks
  PROVE  /\ Attended(t) /\ lease[RowOf[t]][t] > 0 =>
              \/ lease'[RowOf[t]][t] > 0
              \/ phase[t] \in {"closing", "rollback", "stopping"} /\ phase'[t] = Released(t)
         /\ Attended(t) /\ lease[RowOf[t]][t] # 0 => lease'[RowOf[t]][t] # 0
         /\ lease[RowOf[t]][t] = NoLease =>
              lease'[RowOf[t]][t] = NoLease \/ Moved(t, "reserved", "leased")
<1> DEFINE l == lease[RowOf[t]][t]
           n == lease'[RowOf[t]][t]
<1>1. /\ RowOf[t] \in Rows /\ l \in Int /\ l >= -1 /\ TTL \in Int /\ TTL > 0
      /\ InPlace(op[t].call, phase[t])
  BY ConstantsAssumption DEF BaseInv, TypeOK, Left, NoLease, CallsInv
<1>2. LeaseStep(RowOf[t], t)
  BY <1>1 DEF RowsStep
<1>3. CASE Tick /\ n = Older(l)
  <2>1. Attended(t) => l # 1
    BY <1>3 DEF Tick
  <2> QED  BY <1>1, <1>3, <2>1 DEF Older, NoLease
<1>4. CASE Gives(t)
  BY <1>1, <1>4 DEF Gives, Live, NoLease, Moved
<1>5. CASE Drops(t)
  BY <1>1, <1>5 DEF Drops, InPlace, NoLease
<1>6. CASE n = l \/ (l = 0 /\ n = NoLease)
  BY <1>1, <1>6 DEF NoLease
<1> QED  BY <1>2, <1>3, <1>4, <1>5, <1>6 DEF LeaseStep

LEMMA BootingStep ==
  ASSUME Booting, BootStep, \A u \in Tasks : PhaseStep(u) PROVE Booting'
<1> SUFFICES ASSUME NEW t \in Tasks
             PROVE  /\ phase'[t] \in Crashed => boot' # "up"
                    /\ phase'[t] \in Recovering => boot' = "tasks"
  BY DEF Booting, Crashed, Recovering
<1>1. phase'[t] \in Crashed => phase'[t] = phase[t]
  BY DEF PhaseStep, Moves, Moved, Opens, Ends, Released, Crashed
<1>2. \/ phase'[t] \in Recovering => phase'[t] = phase[t]
      \/ boot = "tasks" /\ boot' = boot
  BY DEF PhaseStep, Moves, Moved, Opens, Ends, Released, Recovering
<1> QED  BY <1>1, <1>2 DEF Booting, BootStep, Crashed, Recovering

\* A task that lets go of a lease it holds has no sidecar row any more.
LEMMA EndsDropped ==
  ASSUME BaseInv, HoldsLease, NEW t \in Tasks, Ends(t)
  PROVE  lease'[RowOf[t]][t] = NoLease
<1>1. /\ RowOf[t] \in Rows /\ t # NoTask /\ lease[RowOf[t]][t] \in Int
      /\ lease[RowOf[t]][t] >= -1
  BY ConstantsAssumption DEF BaseInv, TypeOK, Left, NoLease
<1>2. CASE ~Resolves(t) /\ lease' = lease
  <2>1. ~(lease[RowOf[t]][t] > 0)
    BY <1>1, <1>2 DEF BaseInv, ScalarNamesSidecar, Named, Resolves
  <2>2. lease[RowOf[t]][t] # 0
    BY <2>1 DEF Ends, HoldsLease, Held
  <2> QED  BY <1>1, <1>2, <2>1, <2>2 DEF NoLease
<1> QED  BY <1>2 DEF Ends

LEMMA HoldsLeaseStep ==
  ASSUME Punctual, BaseInv, Booting, HoldsLease, RowsStep, BootStep,
         \A u \in Tasks : PhaseStep(u)
  PROVE  HoldsLease'
<1> SUFFICES ASSUME NEW t \in Tasks
             PROVE  /\ phase'[t] \in Held => lease'[RowOf[t]][t] > 0
                    /\ phase'[t] = "closing" \/ Unswept(t)' => lease'[RowOf[t]][t] # 0
                    /\ phase'[t] \in Unheld => lease'[RowOf[t]][t] = NoLease
  BY DEF HoldsLease, Held, Unheld, Working
<1> DEFINE l == lease[RowOf[t]][t]
           n == lease'[RowOf[t]][t]
<1>0. /\ l \in Int /\ TTL \in Int /\ TTL > 0 /\ RowOf[t] \in Rows
  BY ConstantsAssumption DEF BaseInv, TypeOK, Left, NoLease
<1>1. /\ phase[t] \in Held => l > 0
      /\ phase[t] = "closing" \/ Unswept(t) => l # 0
      /\ phase[t] \in Unheld => l = NoLease
  BY DEF HoldsLease
<1>2. /\ Attended(t) /\ l > 0 =>
           \/ n > 0
           \/ phase[t] \in {"closing", "rollback", "stopping"} /\ phase'[t] = Released(t)
      /\ Attended(t) /\ l # 0 => n # 0
      /\ l = NoLease => n = NoLease \/ Moved(t, "reserved", "leased")
  BY LeaseMoves
<1>3. phase'[t] \in Held => n > 0
  <2>1. ASSUME phase'[t] \in Held, phase[t] \notin Held PROVE n = TTL
    BY <2>1 DEF PhaseStep, Moves, Moved, Opens, Ends, Released, Held, Working
  <2>2. ASSUME phase'[t] \in Held, phase[t] \in Held PROVE n > 0
    <3>1. Attended(t)
      BY <2>2 DEF Attended, Held, Working, Dispatching, Undoing, Finishing
    <3>2. ~(phase[t] \in {"closing", "rollback", "stopping"} /\ phase'[t] = Released(t))
      BY <2>2 DEF Released, Held, Working
    <3> QED  BY <1>1, <1>2, <2>2, <3>1, <3>2
  <2> QED  BY <1>0, <2>1, <2>2
<1>4. phase'[t] = "closing" => n # 0
  <2> SUFFICES ASSUME phase'[t] = "closing" PROVE n # 0
    OBVIOUS
  <2>1. phase[t] \in {"closing", "recorded", "saved", "stopped"} \cup Recovering
    BY DEF PhaseStep, Moves, Moved, Opens, Ends, Released, Recovering
  <2>2. CASE phase[t] \in {"closing", "recorded", "saved"} \cup Recovering
    <3>1. Attended(t)
      BY <2>2 DEF Attended, Finishing, Booting, Recovering
    <3>2. l # 0
      BY <1>0, <1>1, <2>2 DEF Unswept, Held, Booting, Recovering
    <3> QED  BY <1>2, <3>1, <3>2
  <2>3. CASE phase[t] = "stopped"
    BY <1>1, <1>2, <2>3 DEF Unheld, Moved, NoLease
  <2> QED  BY <2>1, <2>2, <2>3
<1>5. Unswept(t)' => n # 0
  <2> SUFFICES ASSUME phase'[t] \in Crashed \cup Recovering,
                      boot' \in {"orphans", "reserved", "tasks"}
               PROVE  n # 0
    BY DEF Unswept, Crashed, Recovering
  <2>1. phase[t] \in Crashed \cup Recovering
    BY DEF PhaseStep, Moves, Moved, Opens, Ends, Released, Crashed, Recovering
  <2>2. CASE boot \in {"orphans", "reserved", "tasks"}
    BY <1>1, <1>2, <2>1, <2>2 DEF Unswept, Attended
  <2>3. CASE boot \notin {"orphans", "reserved", "tasks"}
    BY <1>0, <2>3 DEF BootStep
  <2> QED  BY <2>2, <2>3
<1>6. phase'[t] \in Unheld => n = NoLease
  <2>1. CASE phase[t] \in Unheld /\ phase'[t] \in Unheld
    BY <1>1, <1>2, <2>1 DEF Moved, Unheld
  <2>2. CASE Ends(t)
    BY <2>2, EndsDropped
  <2>3. phase'[t] \in Unheld /\ phase[t] \notin Unheld => Ends(t)
    BY DEF PhaseStep, Moves, Moved, Opens, Unheld
  <2> QED  BY <2>1, <2>2, <2>3
<1> QED  BY <1>3, <1>4, <1>5, <1>6

\* While a task is live on its row, the row only changes by a move of that task.
LEMMA Shield ==
  ASSUME Punctual, BaseInv, DoorInv, HoldsLease, RowsStep, NEW t \in Tasks, Live(RowOf[t], t)
  PROVE  Kept(RowOf[t]) \/ phase'[t] # phase[t]
<1>0. RowOf[t] \in Rows
  BY ConstantsAssumption
<1>1. ASSUME NEW u \in Tasks, RowOf[u] = RowOf[t], Live(RowOf[u], u) PROVE u = t
  BY <1>0, <1>1 DEF BaseInv, ScalarNamesSidecar, Named, Live
<1>2. Leased(RowOf[t])
  BY DEF Leased, LiveOwners
<1>3. CASE Settled(RowOf[t])
  BY <1>2, <1>3 DEF Settled
<1>4. ASSUME NEW u \in Tasks, RowOf[u] = RowOf[t], Marks(u) PROVE phase'[t] # phase[t]
  <2>1. CASE Grants(u) \/ Aborts(u)
    BY <1>1, <1>4, <2>1 DEF Grants, Aborts
  <2>2. CASE Tells(u)
    <3> Live(RowOf[u], u)
      BY <2>2 DEF Tells, HoldsLease, Held, Live
    <3> QED  BY <1>1, <1>4, <2>2 DEF Tells
  <2>3. CASE LetsGo(u)
    <3>1. u = t
      BY <1>4, <2>3 DEF LetsGo, LiveOwners
    <3>2. InPlace(op[t].call, phase[t])
      BY DEF BaseInv, CallsInv
    <3> QED  BY <2>3, <3>1, <3>2 DEF LetsGo, InPlace, Released
  <2>4. CASE Notes(u) \/ Claims(u) \/ Reserves(u)
    BY <1>2, <1>4, <2>4 DEF Notes, Claims, Reserves
  <2> QED  BY <1>4, <2>1, <2>2, <2>3, <2>4 DEF Marks
<1> QED  BY <1>0, <1>3, <1>4 DEF RowsStep, RowStep

LEMMA RunsOnStep ==
  ASSUME Punctual, BaseInv, DoorInv, HoldsLease, RunsOn, RowsStep,
         \A u \in Tasks : PhaseStep(u)
  PROVE  RunsOn'
<1> SUFFICES ASSUME NEW t \in Tasks, phase'[t] \in {"granted", "submitted"}
             PROVE  row'[RowOf[t]].status = "running"
  BY DEF RunsOn
<1>1. CASE phase'[t] = phase[t]
  <2>1. Live(RowOf[t], t) /\ row[RowOf[t]].status = "running"
    BY <1>1 DEF HoldsLease, Held, Working, Live, RunsOn
  <2> QED  BY <1>1, <2>1, Shield DEF Kept
<1>2. CASE phase'[t] # phase[t]
  <2>1. \/ /\ Moved(t, "running", "granted")
           /\ row'[RowOf[t]].status = "running" \/ row[RowOf[t]].marker = t
        \/ Moved(t, "granted", "submitted") /\ row' = row
    BY <1>2 DEF PhaseStep, Moves, Moved, Opens, Ends, Released
  <2>2. phase[t] = "running" => row[RowOf[t]].marker # t
    BY DEF DoorInv, Marked
  <2> QED  BY <2>1, <2>2 DEF Moved, RunsOn
<1> QED  BY <1>1, <1>2

LEMMA GrantedStep ==
  ASSUME Punctual, BaseInv, DoorInv, HoldsLease, Granted, RowsStep,
         \A u \in Tasks : PhaseStep(u)
  PROVE  Granted'
<1> SUFFICES ASSUME NEW t \in Tasks, phase'[t] \in {"granted", "submitted", "saved"}
             PROVE  row'[RowOf[t]].marker = t
  BY DEF Granted
<1>1. CASE phase'[t] = phase[t]
  <2>1. Live(RowOf[t], t) /\ row[RowOf[t]].marker = t
    BY <1>1 DEF HoldsLease, Held, Working, Live, Granted
  <2> QED  BY <1>1, <2>1, Shield DEF Kept
<1>2. CASE phase'[t] # phase[t]
  <2>1. \/ row'[RowOf[t]].marker = t
        \/ Moved(t, "granted", "submitted") /\ row' = row
        \/ Moved(t, "submitted", "saved") /\ row'[RowOf[t]].marker = row[RowOf[t]].marker
    BY <1>2 DEF PhaseStep, Moves, Moved, Opens, Ends, Released
  <2> QED  BY <2>1 DEF Moved, Granted
<1> QED  BY <1>1, <1>2

LEMMA UndoneStep ==
  ASSUME Punctual, BaseInv, DoorInv, HoldsLease, RunsOn, Undone, RowsStep,
         \A u \in Tasks : PhaseStep(u)
  PROVE  Undone'
<1> DEFINE Before == Dispatching \cup {"queued", "running", "granted", "submitted"}
<1> SUFFICES ASSUME NEW t \in Tasks, phase'[t] \in Before, row'[RowOf[t]].result = "account"
             PROVE  FALSE
  BY DEF Undone, Dispatching
<1>0. RowOf[t] \in Rows
  BY ConstantsAssumption
<1>1. CASE Opens(t)
  BY <1>1 DEF Opens
<1>2. CASE ~Opens(t)
  <2>1. phase[t] \in Before
    BY <1>2 DEF PhaseStep, Moves, Moved, Ends, Released, Dispatching
  <2>2. row[RowOf[t]].result # "account"
    BY <2>1 DEF Undone
  <2>3. PICK u \in Tasks : RowOf[u] = RowOf[t] /\ phase[u] = "submitted" /\ phase'[u] = "saved"
    BY <1>0, <2>2 DEF RowsStep, RowStep, ResultStep
  <2>4. Live(RowOf[u], u) /\ row[RowOf[u]].status = "running" /\ phase[u] \in Working
    BY <2>3 DEF HoldsLease, Held, Working, Live, RunsOn
  <2>5. u # t
    BY <2>3 DEF Dispatching
  <2>6. CASE phase[t] \in Working
    <3>1. Live(RowOf[t], t)
      BY <2>6 DEF HoldsLease, Held, Live
    <3> QED  BY <1>0, <2>3, <2>4, <2>5, <3>1 DEF BaseInv, ScalarNamesSidecar, Named, Live
  <2>7. CASE phase[t] = "selected"
    BY <2>4, <2>7 DEF DoorInv, Chosen
  <2>8. CASE phase[t] \in {"restoring", "rerunning"}
    BY <2>3, <2>4, <2>8 DEF DoorInv, Fallow
  <2>9. CASE phase[t] \in {"reserved", "leased", "noted"}
    BY <2>3, <2>4, <2>5, <2>9 DEF DoorInv, Alone, LiveOwners
  <2> QED  BY <2>1, <2>6, <2>7, <2>8, <2>9 DEF Dispatching, Working
<1> QED  BY <1>1, <1>2

LEMMA CarriedStep ==
  ASSUME Punctual, BaseInv, HoldsLease, Carried, RowsStep, \A r \in Rows : Linked(r),
         \A u \in Tasks : PhaseStep(u)
  PROVE  Carried'
<1> SUFFICES ASSUME NEW r \in Rows, row'[r].status \in Transient
             PROVE  \/ \E v \in Tasks : lease'[r][v] # NoLease
                    \/ \E t \in Tasks : RowOf[t] = r /\ phase'[t] \in {"reserved", "reset", "lost"}
  BY DEF Carried, Transient
<1>1. CASE \E v \in Tasks : lease[r][v] # NoLease
  BY <1>1 DEF Linked
<1>2. ASSUME NEW t \in Tasks, RowOf[t] = r, phase[t] \in {"reserved", "reset", "lost"}
      PROVE  \/ \E v \in Tasks : lease'[r][v] # NoLease
             \/ phase'[t] \in {"reserved", "reset", "lost"}
  <2>1. \/ phase'[t] \in {"reserved", "reset", "lost"}
        \/ lease'[r][t] = TTL
        \/ lease' = lease /\ Leased(r)
    BY <1>2 DEF PhaseStep, Moves, Moved, Opens, Ends, Released
  <2>2. Leased(r) => \E v \in Tasks : lease[r][v] # NoLease
    BY DEF Leased, LiveOwners, Live, NoLease
  <2> QED  BY <2>1, <2>2, ConstantsAssumption DEF NoLease
<1>3. CASE row[r].status \in Transient
  BY <1>1, <1>2, <1>3 DEF Carried
<1>4. CASE row[r].status \notin Transient
  <2>1. PICK u \in Tasks : RowOf[u] = r /\ Marks(u)
    BY <1>4 DEF RowsStep, RowStep, Kept, Settled
  <2>2. ~Notes(u)
    BY DEF Notes, HoldsLease, Held, Leased, LiveOwners, Live
  <2>3. Claims(u) \/ Reserves(u)
    BY <1>4, <2>1, <2>2 DEF Marks, Tells, Grants, Aborts, LetsGo, Transient
  <2> QED  BY <2>1, <2>3 DEF Claims, Reserves
<1> QED  BY <1>3, <1>4

LEMMA CrashHold == ASSUME BaseInv, HoldInv, Crash PROVE HoldInv'
<1>1. row' = row /\ lease' = lease /\ boot' = "leases"
  BY DEF Crash
<1>2. ASSUME NEW t \in Tasks
      PROVE  /\ \/ phase'[t] = phase[t] /\ phase[t] \in {"idle"} \cup Over \cup Crashed
                \/ phase'[t] \in {"unreleased", "lost"} \cup Crashed
             /\ phase[t] \in {"reserved", "reset", "lost"} => phase'[t] = "lost"
  BY CrashPhases DEF BaseInv, Over, Crashed
<1>3. Booting'
  BY <1>1, <1>2 DEF Booting, Over, Crashed, Recovering
<1>4. HoldsLease'
  <2>1. ASSUME NEW t \in Tasks
        PROVE  /\ phase'[t] \notin Held /\ phase'[t] # "closing" /\ ~Unswept(t)'
               /\ phase'[t] \in Unheld => phase[t] = phase'[t]
    BY <1>1, <1>2 DEF Unswept, Held, Unheld, Over, Crashed, Working
  <2> QED  BY <1>1, <2>1 DEF HoldInv, HoldsLease
<1>5. RunsOn' /\ Granted'
  BY <1>1, <1>2 DEF HoldInv, RunsOn, Granted, Over, Crashed
<1>6. Undone'
  BY <1>1, <1>2 DEF HoldInv, Undone, Dispatching, Over, Crashed
<1>7. Carried'
  BY <1>1, <1>2 DEF HoldInv, Carried
<1> QED  BY <1>3, <1>4, <1>5, <1>6, <1>7 DEF HoldInv

LEMMA NextHold ==
  ASSUME Punctual, BaseInv, DoorInv, HoldInv, [Next]_vars PROVE HoldInv'
<1>1. CASE Crash
  BY <1>1, CrashHold
<1>2. CASE ~Crash
  <2>1. RowsStep /\ BootStep /\ (\A u \in Tasks : PhaseStep(u)) /\ \A r \in Rows : Linked(r)
    BY <1>2, NextStep, NextPhases, NextBoot, NextLinked DEF BaseInv
  <2>2. Booting' /\ HoldsLease'
    BY <2>1, BootingStep, HoldsLeaseStep DEF HoldInv
  <2>3. RunsOn' /\ Granted' /\ Undone' /\ Carried'
    BY <2>1, RunsOnStep, GrantedStep, UndoneStep, CarriedStep DEF HoldInv
  <2> QED  BY <2>2, <2>3 DEF HoldInv
<1> QED  BY <1>1, <1>2

LEMMA InitHold == Init => HoldInv
<1> SUFFICES ASSUME Init PROVE HoldInv
  OBVIOUS
<1>1. ASSUME NEW t \in Tasks
      PROVE  /\ RowOf[t] \in Rows /\ phase[t] = "idle" /\ lease[RowOf[t]][t] = NoLease
             /\ row[RowOf[t]].result = "none"
  BY ConstantsAssumption DEF Init, FreshRow
<1>2. Booting
  BY <1>1 DEF Booting, Crashed, Recovering
<1>3. HoldsLease
  BY <1>1 DEF HoldsLease, Unswept, Held, Working, Crashed, Recovering
<1>4. RunsOn /\ Granted /\ Undone
  BY <1>1 DEF RunsOn, Granted, Undone
<1>5. Carried
  BY DEF Init, FreshRow, Carried, Transient
<1> QED  BY <1>2, <1>3, <1>4, <1>5 DEF HoldInv

LEMMA HoldHolds == ASSUME Punctual PROVE Spec => []HoldInv
<1>1. BaseInv /\ DoorInv /\ HoldInv /\ [Next]_vars => HoldInv'
  BY NextHold
<1> QED  BY <1>1, InitHold, BaseHolds, DoorHolds, PTL DEF Spec

\* GrantIsDurable: whoever is confirmed, or has submitted, keeps its marker on the row
\* through expiries, recovery passes, operators, foreign processes and other workers,
\* as long as the heartbeat is punctual.
THEOREM GrantDurable == ASSUME Punctual PROVE Spec => []GrantIsDurable
<1>1. HoldInv => GrantIsDurable
  BY DEF HoldInv, Granted, GrantIsDurable
<1> QED  BY <1>1, HoldHolds, PTL

\* HandedBack: no live lease outlives its worker, and with the manager up a reserved,
\* queued or running row always has a task that accounts for it.
THEOREM RowsHandedBack == ASSUME Punctual PROVE Spec => []HandedBack
<1>1. ASSUME DoorInv PROVE EndedHoldsNothing
  BY <1>1 DEF DoorInv, LetGo, Unheld, EndedHoldsNothing
<1>2. ASSUME DoorInv, HoldInv PROVE NoLeakedRow
  <2> SUFFICES ASSUME NEW r \in Rows, row[r].status \in Transient
               PROVE  \E t \in Tasks : /\ RowOf[t] = r
                                       /\ phase[t] \notin {"idle", "ended", "dropped", "stopped"}
    BY DEF NoLeakedRow
  <2>1. CASE \E v \in Tasks : lease[r][v] # NoLease
    <3>1. PICK v \in Tasks : lease[r][v] # NoLease
      BY <2>1
    <3>2. RowOf[v] = r
      BY <1>2, <3>1 DEF DoorInv, OwnRows
    <3>3. phase[v] \notin Unheld
      BY <1>2, <3>1, <3>2 DEF HoldInv, HoldsLease
    <3> QED  BY <3>2, <3>3 DEF Unheld
  <2>2. CASE \E t \in Tasks : RowOf[t] = r /\ phase[t] \in {"reserved", "reset", "lost"}
    BY <2>2
  <2> QED  BY <1>2, <2>1, <2>2 DEF HoldInv, Carried
<1>3. DoorInv /\ HoldInv => HandedBack
  BY <1>1, <1>2 DEF HandedBack
<1> QED  BY <1>3, DoorHolds, HoldHolds, PTL

\* NoGrantOverResult: the task that is confirmed on a row is never one whose account is
\* already saved; the selection, the rerun and the reservation leave no way round it.
THEOREM NoSecondGrant == ASSUME Punctual PROVE Spec => NoGrantOverResult
<1> DEFINE Step == \A t \in Tasks : phase[t] # "granted" /\ phase'[t] = "granted"
                     => row[RowOf[t]].result # "account"
<1>1. ASSUME BaseInv, HoldInv, [Next]_vars PROVE Step
  <2> SUFFICES ASSUME NEW t \in Tasks, phase[t] # "granted", phase'[t] = "granted"
               PROVE  row[RowOf[t]].result # "account"
    OBVIOUS
  <2>1. CASE Crash
    BY <1>1, <2>1, CrashPhases DEF BaseInv, Over, Crashed
  <2>2. CASE ~Crash
    <3>1. PhaseStep(t)
      BY <1>1, <2>2, NextPhases DEF BaseInv
    <3>2. phase[t] = "running"
      BY <3>1 DEF PhaseStep, Moves, Moved, Opens, Ends, Released
    <3> QED  BY <1>1, <3>2 DEF HoldInv, Undone
  <2> QED  BY <2>1, <2>2
<1>2. BaseInv /\ HoldInv /\ [Next]_vars => [Step]_vars
  BY <1>1
<1> QED  BY <1>2, BaseHolds, HoldHolds, PTL DEF Spec, NoGrantOverResult

\* Only its own release, or a crash, moves a worker that has told the pool its end.
LEMMA RollbackStays ==
  ASSUME TypeOK, Rollback, NEW t \in Tasks, phase[t] \in {"closing", "stopping"}
  PROVE  phase'[t] = phase[t]
  BY DEF Rollback, TypeOK

LEMMA OthersStay ==
  ASSUME TypeOK, CallsInv, NEW u \in Tasks, Coordinate(u) \/ Work(u) \/ Dispatch(u),
         NEW t \in Tasks, phase[t] \in {"closing", "stopping"}, phase'[t] # phase[t]
  PROVE  u = t /\ (row' = row \/ Release(t))
<1>0. /\ \A p : SetPhase(u, p) /\ u # t => phase'[t] = phase[t]
      /\ ~Rollback /\ phase' # phase /\ InPlace(op[u].call, phase[u])
  BY SetPhaseSets, RollbackStays DEF CallsInv
<1>1. CASE Claim(u) \/ AdoptRead(u) \/ Adopt(u) \/ Confirm(u) \/ ConfirmRead(u)
  BY <1>0, <1>1 DEF Claim, AdoptRead, Adopt, AcquireFails, Confirm, ConfirmRead, InPlace
<1>2. CASE ConfirmStart(u) \/ AbortStart(u) \/ Abort(u) \/ AbortRead(u)
  BY <1>0, <1>2 DEF ConfirmStart, AbortStart, Abort, AbortRead, InPlace
<1>3. CASE RenewStart(u) \/ Renew(u) \/ RenewRead(u)
  BY <1>0, <1>3 DEF RenewStart, Renew, RenewRead
<1>4. CASE ReleaseStart(u)
  BY <1>0, <1>4 DEF ReleaseStart
<1>5. CASE Release(u)
  BY <1>0, <1>5 DEF Release
<1>6. CASE Work(u)
  BY <1>0, <1>6 DEF Work, WorkerStart, Submit, SaveResult, MarkSuccess, Fail, SaveFailure,
     RecordFailure, HaltQueued, StopQueued, StoppedRuns, PersistFailure
<1>7. CASE Dispatch(u)
  BY <1>0, <1>7 DEF Dispatch, RerunRead, RerunRestore, ResetRow, NoteQueued
<1> QED  BY <1>1, <1>2, <1>3, <1>4, <1>5, <1>6, <1>7 DEF Coordinate

LEMMA Closes ==
  ASSUME TypeOK, CallsInv, [Next]_vars, NEW t \in Tasks,
         phase[t] \in {"closing", "stopping"}, phase'[t] # phase[t]
  PROVE  row' = row \/ Release(t)
<1>1. CASE \E u \in Tasks : Coordinate(u) \/ Work(u) \/ Dispatch(u)
  BY <1>1, OthersStay
<1>2. CASE SelectBatch \/ Reserve \/ StartupFails \/ Enqueue
  BY <1>2, RollbackStays DEF SelectBatch, Reserve, StartupFails, Enqueue, Selection, TypeOK
<1>3. CASE \/ \E r \in Rows : SetStatusCheck(r) \/ SetStatusWrite(r)
           \/ Tick \/ UNCHANGED vars
  BY <1>3 DEF SetStatusCheck, SetStatusWrite, Tick, vars
<1>4. CASE Crash
  BY <1>4 DEF Crash
<1>5. CASE Recover
  <2>1. CASE RecoverExpired \/ RecoverOrphaned \/ RecoverReserved \/ BootDone
    BY <2>1 DEF RecoverExpired, RecoverOrphaned, RecoverReserved, BootDone
  <2>2. ASSUME NEW u \in Tasks, RecoverSave(u) \/ RecoverTask(u) PROVE phase'[t] = phase[t]
    <3>1. phase[u] \in Crashed \cup Recovering /\ \E p : SetPhase(u, p)
      BY <2>2 DEF RecoverSave, RecoverTask, PersistFailure
    <3>2. u # t
      BY <3>1 DEF Crashed, Recovering
    <3> QED  BY <3>1, <3>2, SetPhaseSets
  <2> QED  BY <1>5, <2>1, <2>2 DEF Recover
<1> QED  BY <1>1, <1>2, <1>3, <1>4, <1>5 DEF Next

\* The release keeps an outcome the pool was told.
LEMMA ReleaseKeepsTold ==
  ASSUME TypeOK, NEW t \in Tasks, Release(t), Told(RowOf[t])
  PROVE  row'[RowOf[t]].status = row[RowOf[t]].status
<1> DEFINE r == RowOf[t]
           ls == [lease[r] EXCEPT ![t] = NoLease]
           me == IF Remaining(ls) # {} THEN Handed(row[r], ls)
                 ELSE Freed(row[r], ReleaseStatus(row[r]), row[r].batch)
<1>1. r \in Rows /\ row[r] \in RowRecord
  BY ConstantsAssumption DEF TypeOK
<1>2. ReleaseStatus(row[r]) = row[r].status
  BY DEF Told, Confirmed, ReleaseStatus, Terminal, Transient
<1>3. Handed(row[r], ls).status = row[r].status
  <2> HIDE DEF ls
  <2> QED  BY <1>1, HandedFields DEF Fields
<1>4. Freed(row[r], ReleaseStatus(row[r]), row[r].batch).status = row[r].status
  BY <1>1, <1>2, FreedFields DEF Fields
<1>5. me.status = row[r].status
  <2> HIDE DEF ls
  <2> QED  BY <1>3, <1>4
<1>6. CASE lease[r][t] = NoLease
  BY <1>6 DEF Release
<1>7. CASE lease[r][t] # NoLease
  <2>1. row' = [row EXCEPT ![r] = me]
    BY <1>7 DEF Release, ReleaseRow
  <2> HIDE DEF me
  <2> QED  BY <1>1, <1>5, <2>1 DEF TypeOK
<1> QED  BY <1>6, <1>7

\* LeaseShields: sweeps, operators, reruns and the pool adapter of other tasks leave the
\* row of a live worker alone, its lease stays its own, and its release keeps the outcome
\* the pool was told.
THEOREM Shields == ASSUME Punctual PROVE Spec => LeaseShields
<1> DEFINE Step == \A r \in Rows : \A t \in LiveOwners(r) :
                     \/ row'[r].status = row[r].status /\ row'[r].marker = row[r].marker
                        /\ row'[r].owner = t
                     \/ /\ phase'[t] # phase[t]
                        /\ phase[t] \in {"closing", "stopping"} /\ Told(r)
                           => row'[r].status = row[r].status
<1>1. ASSUME BaseInv, BaseInv', DoorInv, HoldInv, [Next]_vars PROVE Step
  <2>0. ASSUME NEW r \in Rows, NEW t \in LiveOwners(r)
        PROVE  t \in Tasks /\ lease[r][t] > 0 /\ RowOf[t] = r
    BY <1>1, <2>0 DEF LiveOwners, Live, DoorInv, OwnRows, NoLease
  <2>5. ASSUME NEW r \in Rows, NEW t \in LiveOwners(r), phase'[t] # phase[t],
               phase[t] \in {"closing", "stopping"}, Told(r)
        PROVE  row'[r].status = row[r].status
    BY <1>1, <2>0, <2>5, Closes, ReleaseKeepsTold DEF BaseInv
  <2> SUFFICES ASSUME NEW r \in Rows, NEW t \in LiveOwners(r), phase'[t] = phase[t]
               PROVE  Kept(r) /\ row'[r].owner = t
    BY <2>5 DEF Kept
  <2>1. t \in Tasks /\ lease[r][t] > 0 /\ RowOf[t] = r
    BY <2>0
  <2>2. RowsStep
    BY <1>1, NextStep DEF BaseInv
  <2>3. Kept(r)
    BY <1>1, <2>1, <2>2, Shield DEF HoldInv, Live
  <2>4. row'[r].owner = t
    <3>1. CASE lease'[r][t] > 0
      BY <1>1, <2>1, <3>1 DEF BaseInv, ScalarNamesSidecar, Named
    <3>2. CASE Tick
      <4>1. row[r].owner = t /\ row[r] \in RowRecord
        BY <1>1, <2>1 DEF BaseInv, TypeOK, ScalarNamesSidecar, Named
      <4>2. row'[r] = [row[r] EXCEPT !.left = Older(row[r].left)]
        BY <3>2 DEF Tick
      <4> QED  BY <4>1, <4>2 DEF RowRecord
    <3>3. CASE Drops(t)
      <4>1. InPlace(op[t].call, phase[t])
        BY <1>1, <2>1 DEF BaseInv, CallsInv
      <4> QED  BY <3>3, <4>1 DEF Drops, InPlace, Released
    <3>4. CASE Gives(t)
      BY <2>1, <3>1, <3>4, ConstantsAssumption DEF Gives
    <3>5. LeaseStep(r, t)
      BY <2>1, <2>2 DEF RowsStep
    <3> QED  BY <2>1, <3>1, <3>2, <3>3, <3>4, <3>5 DEF LeaseStep
  <2> QED  BY <2>3, <2>4
<1>2. BaseInv /\ BaseInv' /\ DoorInv /\ HoldInv /\ [Next]_vars => [Step]_vars
  BY <1>1
<1> QED  BY <1>2, BaseHolds, DoorHolds, HoldHolds, PTL DEF Spec, LeaseShields

=============================================================================
