-------------------------- MODULE AccountChecksProofs --------------------------
(***************************************************************************)
(* The two queues of account checks keep their jobs through crashes, for   *)
(* every number of accounts and jobs: no account has two active jobs of    *)
(* one service, no live check is lost, and the gate's limit is kept.  The  *)
(* argument: what a thread or a call has in hand tells the job's status,   *)
(* and the file is kept as sound as the memory it is written from.         *)
(***************************************************************************)
EXTENDS AccountChecks, FiniteSetTheorems, TLAPS

Types == /\ jobs \in [Services -> [JobIds -> JobRecord]]
         /\ file \in [Services -> [JobIds -> JobRecord]]
         /\ result \in [Accounts -> Document]
         /\ thread \in [Services -> [JobIds -> RunSteps]]
         /\ copy \in [Services -> [JobIds -> Document]]
         /\ calling \in [Services -> [step : {"none", "marking", "keeping", "submitting"},
                                      job : 0..MaxJobs]]
         /\ healthy \in 0..MaxHealthy /\ up \in BOOLEAN /\ crashes \in 0..MaxCheckCrashes

\* Only a job that exists names an account.
Named(row) == \A j \in JobIds : row[j].status # "none" => row[j].account \in Accounts

\* One active job per account in a service's jobs or file.
OneActive(row) == \A i, j \in JobIds :
  row[i].status \in Active /\ row[j].status \in Active /\ row[i].account = row[j].account => i = j

\* What a thread knows of its job.
ThreadTells(s) == \A j \in JobIds :
  /\ thread[s][j] \in {"submitted", "admitted"} => jobs[s][j].status = "queued"
  /\ jobs[s][j].status = "none" => thread[s][j] = "none"
  /\ s = "live" /\ thread[s][j] = "reporting" => jobs[s][j].status \notin Active

\* What an enqueue call knows of the job it has made.
CallTells(s) ==
  /\ calling[s].step = "none" <=> calling[s].job = 0
  /\ calling[s].step # "none" => /\ up
                                 /\ calling[s].job \in JobIds
                                 /\ jobs[s][calling[s].job].status = "queued"
                                 /\ thread[s][calling[s].job] = "none"

LiveHeld(s) == s = "live" => \A j \in JobIds : ~Stranded(s, j)

GateHeld(s) == Cardinality(InsideGate(s)) <= Greater(1, MaxHealthy)

ServiceInv(s) == /\ Named(jobs[s]) /\ Named(file[s])
                 /\ OneActive(jobs[s]) /\ OneActive(file[s])
                 /\ ThreadTells(s) /\ CallTells(s) /\ LiveHeld(s) /\ GateHeld(s)

ChecksInv == Types /\ \A s \in Services : ServiceInv(s)

-------------------------------------------------------------------------------
\* A job record with another status.
LEMMA RecordSet ==
  ASSUME NEW r \in JobRecord, NEW status \in Active \cup Final
  PROVE  LET q == [r EXCEPT !.status = status]
         IN  q \in JobRecord /\ q.status = status /\ q.account = r.account
  BY DEF JobRecord

LEMMA RecordFields ==
  ASSUME Types, NEW s \in Services, NEW j \in JobIds
  PROVE  /\ jobs[s][j] \in JobRecord /\ file[s][j] \in JobRecord
         /\ jobs[s][j].status \in {"none"} \cup Active \cup Final
         /\ file[s][j].status \in {"none"} \cup Active \cup Final
         /\ thread[s][j] \in RunSteps /\ copy[s][j] \in Document
  BY DEF Types, JobRecord

\* A function of functions that changes at one point.
LEMMA PointSet ==
  ASSUME NEW S, NEW J, NEW V, NEW f \in [S -> [J -> V]], NEW s \in S, NEW j \in J, NEW v \in V,
         NEW g, g = [f EXCEPT ![s][j] = v]
  PROVE  /\ g \in [S -> [J -> V]]
         /\ g[s][j] = v
         /\ \A i \in J \ {j} : g[s][i] = f[s][i]
         /\ \A r \in S \ {s} : g[r] = f[r]
<1>1. [f[s] EXCEPT ![j] = v] \in [J -> V]
  OBVIOUS
<1> QED BY <1>1

\* Written, Read and SetStatus at the type of their variables.
LEMMA StatusSet ==
  ASSUME Types, NEW s \in Services, NEW j \in JobIds, NEW status \in Active \cup Final,
         SetStatus(s, j, status)
  PROVE  /\ jobs' \in [Services -> [JobIds -> JobRecord]]
         /\ jobs'[s][j].status = status /\ jobs'[s][j].account = jobs[s][j].account
         /\ \A i \in JobIds \ {j} : jobs'[s][i] = jobs[s][i]
         /\ \A r \in Services \ {s} : jobs'[r] = jobs[r]
<1> DEFINE q == [jobs[s][j] EXCEPT !.status = status]
<1>1. q \in JobRecord /\ q.status = status /\ q.account = jobs[s][j].account
  BY RecordFields, RecordSet
<1>2. jobs' = [jobs EXCEPT ![s][j] = q]
  BY DEF SetStatus, Types
<1> HIDE DEF q
<1> QED BY <1>1, <1>2, PointSet DEF Types

LEMMA RunSet ==
  ASSUME Types, NEW s \in Services, NEW j \in JobIds, NEW step \in RunSteps, SetRun(s, j, step)
  PROVE  /\ thread' \in [Services -> [JobIds -> RunSteps]]
         /\ thread'[s][j] = step
         /\ \A i \in JobIds \ {j} : thread'[s][i] = thread[s][i]
         /\ \A r \in Services \ {s} : thread'[r] = thread[r]
  BY PointSet DEF SetRun, Types

LEMMA FileSet ==
  ASSUME Types, NEW s \in Services, NEW row \in [JobIds -> JobRecord],
         file' = [file EXCEPT ![s] = row]
  PROVE  /\ file' \in [Services -> [JobIds -> JobRecord]] /\ file'[s] = row
         /\ \A r \in Services \ {s} : file'[r] = file[r]
  BY DEF Types

LEMMA ReadTyped ==
  ASSUME Types, NEW s \in Services, NEW j \in JobIds, Named(jobs[s]),
         jobs[s][j].status # "none", Read(s, j)
  PROVE  copy' \in [Services -> [JobIds -> Document]]
<1>1. result[jobs[s][j].account] \in Document
  BY DEF Named, Types
<1> QED BY <1>1, PointSet DEF Read, Types

LEMMA WrittenTyped ==
  ASSUME Types, NEW s \in Services, NEW j \in JobIds,
         NEW part \in {"none", "queued", "finished", "failed"}, Written(s, j, part)
  PROVE  /\ result' \in [Accounts -> Document]
         /\ copy' \in [Services -> [JobIds -> Document]]
<1>1. copy[s][j] \in Document
  BY RecordFields
<1>2. [copy[s][j] EXCEPT ![s] = part] \in Document /\ Unchecked \in Document
  BY <1>1 DEF Document, Unchecked
<1>3. result' \in [Accounts -> Document]
  BY <1>2 DEF Written, Types
<1>4. copy' \in [Services -> [JobIds -> Document]]
  BY <1>2, PointSet DEF Written, Types
<1> QED BY <1>3, <1>4

LEMMA CallSet ==
  ASSUME Types, NEW s \in Services, NEW c \in [step : {"none", "marking", "keeping", "submitting"}, job : 0..MaxJobs],
         calling' = [calling EXCEPT ![s] = c]
  PROVE  /\ calling' \in [Services -> [step : {"none", "marking", "keeping", "submitting"}, job : 0..MaxJobs]]
         /\ calling'[s] = c
         /\ \A r \in Services \ {s} : calling'[r] = calling[r]
  BY DEF Types

\* What is not touched of a service stays right.
LEMMA Untouched ==
  ASSUME NEW r, ServiceInv(r), jobs'[r] = jobs[r], file'[r] = file[r],
         thread'[r] = thread[r], calling'[r] = calling[r], up' = up
  PROVE  ServiceInv(r)'
  BY DEF ServiceInv, Named, OneActive, ThreadTells, CallTells, LiveHeld, Stranded, GateHeld, InsideGate

\* The threads of a service that are not waiting for the gate.
LEMMA InsideFinite == ASSUME NEW s PROVE IsFiniteSet(InsideGate(s)) /\ Cardinality(InsideGate(s)) \in Nat
<1>1. MaxJobs \in Nat
  BY CheckAssumption
<1>2. IsFiniteSet(JobIds)
  BY <1>1, FS_Interval DEF JobIds
<1>3. InsideGate(s) \subseteq JobIds
  BY DEF InsideGate, Outside
<1> QED BY <1>2, <1>3, FS_Subset, FS_CardinalityType

\* A thread that stays inside, or leaves, keeps the gate's limit.
LEMMA GateShrinks ==
  ASSUME NEW s, GateHeld(s),
         \A j \in JobIds : thread'[s][j] \notin Outside => thread[s][j] \notin Outside
  PROVE  GateHeld(s)'
<1>1. InsideGate(s)' \subseteq InsideGate(s)
  BY DEF InsideGate, Outside
<1>2. Cardinality(InsideGate(s)') <= Cardinality(InsideGate(s)) /\ Cardinality(InsideGate(s)') \in Nat
  BY <1>1, InsideFinite, FS_Subset, FS_CardinalityType
<1>3. Greater(1, MaxHealthy) \in Nat
  BY CheckAssumption DEF Greater
<1> QED BY <1>2, <1>3, InsideFinite DEF GateHeld

\* A job that changes its status and was active, or no longer is.
LEMMA RowKept ==
  ASSUME Types, NEW s \in Services, NEW j \in JobIds, NEW status \in Active \cup Final,
         SetStatus(s, j, status), Named(jobs[s]), OneActive(jobs[s]),
         jobs[s][j].status # "none", status \in Active => jobs[s][j].status \in Active
  PROVE  Named(jobs'[s]) /\ OneActive(jobs'[s])
<1>1. /\ jobs'[s][j].status = status /\ jobs'[s][j].account = jobs[s][j].account
      /\ \A i \in JobIds \ {j} : jobs'[s][i] = jobs[s][i]
  BY StatusSet
<1>2. ASSUME NEW i \in JobIds
      PROVE  /\ jobs'[s][i].account = jobs[s][i].account
             /\ jobs'[s][i].status \in Active => jobs[s][i].status \in Active
             /\ jobs'[s][i].status # "none" => jobs[s][i].status # "none"
  BY <1>1
<1>3. Named(jobs'[s])
  BY <1>2 DEF Named
<1>4. OneActive(jobs'[s])
  BY <1>2 DEF OneActive
<1> QED BY <1>3, <1>4

\* A thread that has its job in hand moves on, and nothing else changes.
LEMMA ThreadMoves ==
  ASSUME Types, NEW s \in Services, NEW j \in JobIds, NEW step \in RunSteps, ServiceInv(s),
         SetRun(s, j, step), thread[s][j] \notin Outside,
         step \notin {"submitted", "admitted"},
         s = "live" /\ step \in {"none", "reporting"} => jobs[s][j].status \notin Active,
         jobs' = jobs, file' = file, calling' = calling, up' = up
  PROVE  ServiceInv(s)'
<1>1. /\ thread'[s][j] = step
      /\ \A i \in JobIds \ {j} : thread'[s][i] = thread[s][i]
  BY RunSet
<1>2. ThreadTells(s) /\ CallTells(s) /\ LiveHeld(s) /\ GateHeld(s)
  BY DEF ServiceInv
<1>3. jobs[s][j].status # "none"
  BY <1>2 DEF ThreadTells, Outside
<1>4. ThreadTells(s)'
  BY <1>1, <1>2, <1>3 DEF ThreadTells, Outside
<1>5. CallTells(s)'
  BY <1>1, <1>2 DEF CallTells, Outside
<1>6. LiveHeld(s)'
  BY <1>1, <1>2 DEF LiveHeld, Stranded, Outside
<1>7. GateHeld(s)'
  BY <1>1, <1>2, GateShrinks DEF Outside
<1> QED BY <1>4, <1>5, <1>6, <1>7 DEF ServiceInv

\* A thread closes its job.
LEMMA JobCloses ==
  ASSUME Types, NEW s \in Services, NEW j \in JobIds, NEW status \in Final,
         NEW step \in {"none", "reporting"}, ServiceInv(s),
         CloseJob(s, j, status), SetRun(s, j, step), thread[s][j] \notin Outside,
         calling' = calling, up' = up
  PROVE  /\ jobs' \in [Services -> [JobIds -> JobRecord]]
         /\ file' \in [Services -> [JobIds -> JobRecord]]
         /\ ServiceInv(s)'
         /\ \A r \in Services \ {s} : jobs'[r] = jobs[r] /\ file'[r] = file[r]
<1>1. /\ thread'[s][j] = step
      /\ \A i \in JobIds \ {j} : thread'[s][i] = thread[s][i]
  BY RunSet DEF RunSteps
<1>2. ThreadTells(s) /\ CallTells(s) /\ LiveHeld(s) /\ GateHeld(s)
  BY DEF ServiceInv
<1>3. jobs[s][j].status # "none"
  BY <1>2 DEF ThreadTells, Outside
<1>4. /\ SetStatus(s, j, status) /\ file' = [file EXCEPT ![s] = jobs'[s]]
      /\ status \in Active \cup Final /\ status \notin Active
  BY DEF CloseJob, Active, Final
<1>5. /\ jobs' \in [Services -> [JobIds -> JobRecord]]
      /\ jobs'[s][j].status = status
      /\ \A i \in JobIds \ {j} : jobs'[s][i] = jobs[s][i]
      /\ \A r \in Services \ {s} : jobs'[r] = jobs[r]
  BY <1>4, StatusSet
<1>6. /\ file' \in [Services -> [JobIds -> JobRecord]] /\ file'[s] = jobs'[s]
      /\ \A r \in Services \ {s} : file'[r] = file[r]
  <2>1. jobs'[s] \in [JobIds -> JobRecord]
    BY <1>5
  <2> QED BY <1>4, <2>1, FileSet
<1>7. Named(jobs'[s]) /\ OneActive(jobs'[s])
  BY <1>3, <1>4, RowKept DEF ServiceInv
<1>8. status # "none" /\ status # "queued"
  BY DEF Final
<1>9. ThreadTells(s)'
  BY <1>1, <1>2, <1>4, <1>5, <1>8 DEF ThreadTells, Outside
<1>10. CallTells(s)'
  BY <1>1, <1>2, <1>5 DEF CallTells, Outside
<1>11. LiveHeld(s)'
  BY <1>1, <1>2, <1>4, <1>5 DEF LiveHeld, Stranded, Outside
<1>12. GateHeld(s)'
  BY <1>1, <1>2, GateShrinks DEF Outside
<1>13. Named(jobs[s])' /\ Named(file[s])' /\ OneActive(jobs[s])' /\ OneActive(file[s])'
  BY <1>6, <1>7 DEF Named, OneActive
<1> QED BY <1>5, <1>6, <1>9, <1>10, <1>11, <1>12, <1>13 DEF ServiceInv

\* An invariant step: one service's part is right again, the other's is untouched.
LEMMA OnlyThis ==
  ASSUME ChecksInv, NEW s \in Services, Types', ServiceInv(s)',
         \A r \in Services \ {s} : /\ jobs'[r] = jobs[r] /\ file'[r] = file[r]
                                   /\ thread'[r] = thread[r] /\ calling'[r] = calling[r],
         up' = up
  PROVE  ChecksInv'
<1>1. \A r \in Services \ {s} : ServiceInv(r)'
  BY Untouched DEF ChecksInv
<1> QED BY <1>1 DEF ChecksInv

LEMMA EnqueueKeeps ==
  ASSUME ChecksInv, NEW s \in Services, NEW a \in Accounts, EnqueueCheck(s, a) PROVE ChecksInv'
<1> USE DEF ChecksInv
<1>1. PICK j \in JobIds :
        /\ jobs[s][j].status = "none"
        /\ jobs' = [jobs EXCEPT ![s][j] = [account |-> a, status |-> "queued"]]
        /\ copy' = [copy EXCEPT ![s][j] = result[a]]
        /\ calling' = [calling EXCEPT ![s] = [step |-> "marking", job |-> j]]
  BY DEF EnqueueCheck
<1>2. calling[s].step = "none" /\ up /\ FreeFor(s, a) /\ UNCHANGED <<file, result, thread, healthy, up, crashes>>
  BY DEF EnqueueCheck
<1>3. [account |-> a, status |-> "queued"] \in JobRecord
  BY DEF JobRecord, Active
<1>4. /\ jobs' \in [Services -> [JobIds -> JobRecord]]
      /\ jobs'[s][j] = [account |-> a, status |-> "queued"]
      /\ \A i \in JobIds \ {j} : jobs'[s][i] = jobs[s][i]
      /\ \A r \in Services \ {s} : jobs'[r] = jobs[r]
  BY <1>1, <1>3, PointSet DEF Types
<1>5. copy' \in [Services -> [JobIds -> Document]]
  BY <1>1, PointSet DEF Types
<1>6. j \in 0..MaxJobs /\ j # 0
  BY CheckAssumption DEF JobIds
<1>7. [step |-> "marking", job |-> j] \in [step : {"none", "marking", "keeping", "submitting"}, job : 0..MaxJobs]
  BY <1>6
<1>8. /\ calling' \in [Services -> [step : {"none", "marking", "keeping", "submitting"}, job : 0..MaxJobs]]
      /\ calling'[s] = [step |-> "marking", job |-> j]
      /\ \A r \in Services \ {s} : calling'[r] = calling[r]
  BY <1>1, <1>7, CallSet
<1>9. Types'
  BY <1>2, <1>4, <1>5, <1>8 DEF Types
<1>10. ServiceInv(s)
  OBVIOUS
<1>11. Named(jobs[s])'
  BY <1>4, <1>10 DEF Named, ServiceInv
<1>12. OneActive(jobs[s])'
  <2>1. \A i \in JobIds : jobs[s][i].status \in Active => jobs[s][i].account # a
    BY <1>2 DEF FreeFor, ActiveAccounts
  <2>2. OneActive(jobs[s])
    BY <1>10 DEF ServiceInv
  <2> QED BY <1>4, <2>1, <2>2 DEF OneActive
<1>13. ThreadTells(s) /\ CallTells(s) /\ LiveHeld(s)
  BY <1>10 DEF ServiceInv
<1>14. thread[s][j] = "none"
  BY <1>1, <1>13 DEF ThreadTells
<1>15. ThreadTells(s)'
  BY <1>2, <1>4, <1>13, <1>14 DEF ThreadTells
<1>16. CallTells(s)'
  BY <1>2, <1>4, <1>6, <1>8, <1>14 DEF CallTells
<1>17. LiveHeld(s)'
  <2>1. calling[s].job = 0
    BY <1>2, <1>13 DEF CallTells
  <2>2. \A i \in JobIds : i # 0
    BY CheckAssumption DEF JobIds
  <2> QED BY <1>2, <1>4, <1>8, <1>13, <2>1, <2>2 DEF LiveHeld, Stranded
<1>18. GateHeld(s)' /\ Named(file[s])' /\ OneActive(file[s])'
  BY <1>2, <1>10 DEF ServiceInv, GateHeld, InsideGate, Named, OneActive
<1>19. ServiceInv(s)'
  BY <1>11, <1>12, <1>15, <1>16, <1>17, <1>18 DEF ServiceInv
<1> QED BY <1>2, <1>4, <1>8, <1>9, <1>19, OnlyThis

\* MarkQueued, KeepJobs, SubmitJob and RefuseJob, the rest of an enqueue call.
LEMMA CallKeeps ==
  ASSUME ChecksInv, NEW s \in Services, MarkQueued(s) \/ KeepJobs(s) \/ SubmitJob(s) \/ RefuseJob(s)
  PROVE  ChecksInv'
<1> USE DEF ChecksInv
<1>1. Named(jobs[s]) /\ OneActive(jobs[s]) /\ Named(file[s]) /\ OneActive(file[s])
      /\ ThreadTells(s) /\ CallTells(s) /\ LiveHeld(s) /\ GateHeld(s) /\ Types
  BY DEF ServiceInv
<1>2. calling[s].step # "none"
  BY DEF MarkQueued, KeepJobs, SubmitJob, RefuseJob
<1>3. up /\ calling[s].job \in JobIds /\ calling[s].job # 0
      /\ jobs[s][calling[s].job].status = "queued" /\ thread[s][calling[s].job] = "none"
  BY <1>1, <1>2 DEF CallTells
<1>4. calling[s] \in [step : {"none", "marking", "keeping", "submitting"}, job : 0..MaxJobs]
  BY <1>1 DEF Types
<1>5. ASSUME NEW step \in {"keeping", "submitting"}, calling' = [calling EXCEPT ![s].step = step]
      PROVE  /\ calling' \in [Services -> [step : {"none", "marking", "keeping", "submitting"}, job : 0..MaxJobs]]
             /\ calling'[s].step # "none" /\ calling'[s].job = calling[s].job
             /\ \A r \in Services \ {s} : calling'[r] = calling[r]
  <2> DEFINE c == [calling[s] EXCEPT !.step = step]
  <2>1. c \in [step : {"none", "marking", "keeping", "submitting"}, job : 0..MaxJobs]
        /\ c.step # "none" /\ c.job = calling[s].job
    BY <1>4
  <2>2. calling' = [calling EXCEPT ![s] = c]
    BY <1>1, <1>5 DEF Types
  <2> HIDE DEF c
  <2> QED BY <1>1, <2>1, <2>2, CallSet
<1>6. CASE MarkQueued(s)
  <2>1. /\ Written(s, calling[s].job, "queued") /\ calling' = [calling EXCEPT ![s].step = "keeping"]
        /\ UNCHANGED <<jobs, file, thread, healthy, up, crashes>>
    BY <1>6 DEF MarkQueued
  <2>2. Types'
    BY <1>1, <1>3, <1>5, <2>1, WrittenTyped DEF Types
  <2>3. CallTells(s)' /\ LiveHeld(s)'
    BY <1>1, <1>3, <1>5, <2>1 DEF CallTells, LiveHeld, Stranded
  <2>4. ServiceInv(s)'
    BY <1>1, <2>1, <2>3 DEF ServiceInv, Named, OneActive, ThreadTells, GateHeld, InsideGate
  <2> QED BY <1>5, <2>1, <2>2, <2>4, OnlyThis
<1>7. CASE KeepJobs(s)
  <2>1. /\ file' = [file EXCEPT ![s] = jobs[s]] /\ calling' = [calling EXCEPT ![s].step = "submitting"]
        /\ UNCHANGED <<jobs, result, thread, copy, healthy, up, crashes>>
    BY <1>7 DEF KeepJobs
  <2>2. jobs[s] \in [JobIds -> JobRecord]
    BY <1>1 DEF Types
  <2>3. /\ file' \in [Services -> [JobIds -> JobRecord]] /\ file'[s] = jobs[s]
        /\ \A r \in Services \ {s} : file'[r] = file[r]
    BY <1>1, <2>1, <2>2, FileSet
  <2>4. Types'
    BY <1>1, <1>5, <2>1, <2>3 DEF Types
  <2>5. CallTells(s)' /\ LiveHeld(s)'
    BY <1>1, <1>3, <1>5, <2>1 DEF CallTells, LiveHeld, Stranded
  <2>6. ServiceInv(s)'
    BY <1>1, <2>1, <2>3, <2>5 DEF ServiceInv, Named, OneActive, ThreadTells, GateHeld, InsideGate
  <2> QED BY <1>5, <2>1, <2>3, <2>4, <2>6, OnlyThis
<1>8. CASE SubmitJob(s)
  <2>1. /\ SetRun(s, calling[s].job, "submitted") /\ calling' = [calling EXCEPT ![s] = NoCall]
        /\ UNCHANGED <<jobs, file, result, copy, healthy, up, crashes>>
    BY <1>8 DEF SubmitJob
  <2>2. NoCall \in [step : {"none", "marking", "keeping", "submitting"}, job : 0..MaxJobs]
        /\ NoCall.step = "none" /\ NoCall.job = 0
    BY CheckAssumption DEF NoCall
  <2>3. /\ calling' \in [Services -> [step : {"none", "marking", "keeping", "submitting"}, job : 0..MaxJobs]]
        /\ calling'[s] = NoCall /\ \A r \in Services \ {s} : calling'[r] = calling[r]
    BY <1>1, <2>1, <2>2, CallSet
  <2>4. /\ thread' \in [Services -> [JobIds -> RunSteps]]
        /\ thread'[s][calling[s].job] = "submitted"
        /\ \A i \in JobIds \ {calling[s].job} : thread'[s][i] = thread[s][i]
        /\ \A r \in Services \ {s} : thread'[r] = thread[r]
    BY <1>1, <1>3, <2>1, RunSet DEF RunSteps
  <2>5. Types'
    BY <1>1, <2>1, <2>3, <2>4 DEF Types
  <2>6. ThreadTells(s)'
    BY <1>1, <1>3, <2>1, <2>4 DEF ThreadTells
  <2>7. CallTells(s)'
    BY <2>2, <2>3 DEF CallTells
  <2>8. LiveHeld(s)'
    BY <1>1, <2>1, <2>4 DEF LiveHeld, Stranded
  <2>9. GateHeld(s)'
    BY <1>1, <2>4, GateShrinks DEF Outside
  <2>10. ServiceInv(s)'
    BY <1>1, <2>1, <2>6, <2>7, <2>8, <2>9 DEF ServiceInv, Named, OneActive
  <2> QED BY <2>1, <2>3, <2>4, <2>5, <2>10, OnlyThis
<1>9. CASE RefuseJob(s)
  <2>1. /\ SetRun(s, calling[s].job, "refused") /\ calling' = [calling EXCEPT ![s] = NoCall]
        /\ copy' = [copy EXCEPT ![s][calling[s].job] = Unchecked]
        /\ UNCHANGED <<jobs, file, result, healthy, up, crashes>>
    BY <1>9 DEF RefuseJob
  <2>2. NoCall \in [step : {"none", "marking", "keeping", "submitting"}, job : 0..MaxJobs]
        /\ NoCall.step = "none" /\ NoCall.job = 0
    BY CheckAssumption DEF NoCall
  <2>3. /\ calling' \in [Services -> [step : {"none", "marking", "keeping", "submitting"}, job : 0..MaxJobs]]
        /\ calling'[s] = NoCall /\ \A r \in Services \ {s} : calling'[r] = calling[r]
    BY <1>1, <2>1, <2>2, CallSet
  <2>4. /\ thread' \in [Services -> [JobIds -> RunSteps]]
        /\ thread'[s][calling[s].job] = "refused"
        /\ \A i \in JobIds \ {calling[s].job} : thread'[s][i] = thread[s][i]
        /\ \A r \in Services \ {s} : thread'[r] = thread[r]
    BY <1>1, <1>3, <2>1, RunSet DEF RunSteps
  <2>11. copy' \in [Services -> [JobIds -> Document]]
    <3>1. Unchecked \in Document
      BY DEF Unchecked, Document
    <3> QED BY <1>1, <1>3, <2>1, <3>1, PointSet DEF Types
  <2>5. Types'
    BY <1>1, <2>1, <2>3, <2>4, <2>11 DEF Types
  <2>6. ThreadTells(s)'
    BY <1>1, <1>3, <2>1, <2>4 DEF ThreadTells
  <2>7. CallTells(s)'
    BY <2>2, <2>3 DEF CallTells
  <2>8. LiveHeld(s)'
    BY <1>1, <2>1, <2>4 DEF LiveHeld, Stranded
  <2>9. GateHeld(s)'
    BY <1>1, <2>4, GateShrinks DEF Outside
  <2>10. ServiceInv(s)'
    BY <1>1, <2>1, <2>6, <2>7, <2>8, <2>9 DEF ServiceInv, Named, OneActive
  <2> QED BY <2>1, <2>3, <2>4, <2>5, <2>10, OnlyThis
<1> QED BY <1>6, <1>7, <1>8, <1>9

\* A thread enters the gate.
LEMMA EnterKeeps ==
  ASSUME ChecksInv, NEW s \in Services, NEW j \in JobIds, EnterGate(s, j) PROVE ChecksInv'
<1> USE DEF ChecksInv
<1>1. Named(jobs[s]) /\ OneActive(jobs[s]) /\ Named(file[s]) /\ OneActive(file[s])
      /\ ThreadTells(s) /\ CallTells(s) /\ LiveHeld(s) /\ Types
  BY DEF ServiceInv
<1>2. /\ thread[s][j] = "submitted" /\ Cardinality(InsideGate(s)) < CheckLimit
      /\ SetRun(s, j, "admitted") /\ UNCHANGED <<jobs, file, result, copy, calling, healthy, up, crashes>>
  BY DEF EnterGate
<1>3. /\ thread' \in [Services -> [JobIds -> RunSteps]]
      /\ thread'[s][j] = "admitted"
      /\ \A i \in JobIds \ {j} : thread'[s][i] = thread[s][i]
      /\ \A r \in Services \ {s} : thread'[r] = thread[r]
  BY <1>1, <1>2, RunSet DEF RunSteps
<1>4. Types'
  BY <1>1, <1>2, <1>3 DEF Types
<1>5. ThreadTells(s)'
  BY <1>1, <1>2, <1>3 DEF ThreadTells
<1>6. CallTells(s)' /\ LiveHeld(s)'
  BY <1>1, <1>2, <1>3 DEF CallTells, LiveHeld, Stranded
<1>7. GateHeld(s)'
  <2>1. InsideGate(s)' = InsideGate(s) \cup {j} /\ j \notin InsideGate(s)
    BY <1>2, <1>3 DEF InsideGate, Outside
  <2>2. Cardinality(InsideGate(s)') = Cardinality(InsideGate(s)) + 1
    BY <2>1, InsideFinite, FS_AddElement
  <2>3. CheckLimit \in Nat /\ CheckLimit <= Greater(1, MaxHealthy)
    BY <1>1, CheckAssumption DEF CheckLimit, Greater, Types
  <2>4. Greater(1, MaxHealthy) \in Nat
    BY CheckAssumption DEF Greater
  <2> HIDE DEF CheckLimit
  <2> QED BY <1>2, <2>2, <2>3, <2>4, InsideFinite DEF GateHeld
<1>8. ServiceInv(s)'
  BY <1>1, <1>2, <1>5, <1>6, <1>7 DEF ServiceInv, Named, OneActive
<1> QED BY <1>2, <1>3, <1>4, <1>8, OnlyThis

LEMMA RunningKeeps ==
  ASSUME ChecksInv, NEW s \in Services, NEW j \in JobIds, MarkRunning(s, j) PROVE ChecksInv'
<1> USE DEF ChecksInv
<1>1. Named(jobs[s]) /\ OneActive(jobs[s]) /\ Named(file[s]) /\ OneActive(file[s])
      /\ ThreadTells(s) /\ CallTells(s) /\ LiveHeld(s) /\ GateHeld(s) /\ Types
  BY DEF ServiceInv
<1>2. /\ thread[s][j] = "admitted" /\ SetStatus(s, j, "running") /\ SetRun(s, j, "querying")
      /\ file' \in {file, [file EXCEPT ![s] = jobs'[s]]}
      /\ UNCHANGED <<result, copy, calling, healthy, up, crashes>>
  BY DEF MarkRunning
<1>3. jobs[s][j].status = "queued" /\ "queued" \in Active /\ "running" \in Active \cup Final
      /\ "running" \in Active
  BY <1>1, <1>2 DEF ThreadTells, Active
<1>4. Named(jobs'[s]) /\ OneActive(jobs'[s])
  BY <1>1, <1>2, <1>3, RowKept
<1>5. /\ jobs' \in [Services -> [JobIds -> JobRecord]]
      /\ jobs'[s][j].status = "running" /\ \A i \in JobIds \ {j} : jobs'[s][i] = jobs[s][i]
      /\ \A r \in Services \ {s} : jobs'[r] = jobs[r]
  BY <1>1, <1>2, <1>3, StatusSet
<1>6. /\ thread' \in [Services -> [JobIds -> RunSteps]]
      /\ thread'[s][j] = "querying"
      /\ \A i \in JobIds \ {j} : thread'[s][i] = thread[s][i]
      /\ \A r \in Services \ {s} : thread'[r] = thread[r]
  BY <1>1, <1>2, RunSet DEF RunSteps
<1>7. /\ file' \in [Services -> [JobIds -> JobRecord]]
      /\ file'[s] = file[s] \/ file'[s] = jobs'[s]
      /\ \A r \in Services \ {s} : file'[r] = file[r]
  <2>1. jobs'[s] \in [JobIds -> JobRecord]
    BY <1>5
  <2> QED BY <1>1, <1>2, <2>1, FileSet DEF Types
<1>8. Types'
  BY <1>1, <1>2, <1>5, <1>6, <1>7 DEF Types
<1>9. ThreadTells(s)'
  BY <1>1, <1>5, <1>6 DEF ThreadTells
<1>10. CallTells(s)'
  BY <1>1, <1>2, <1>5, <1>6 DEF CallTells
<1>11. LiveHeld(s)'
  BY <1>1, <1>2, <1>5, <1>6 DEF LiveHeld, Stranded
<1>12. GateHeld(s)'
  BY <1>1, <1>2, <1>6, GateShrinks DEF Outside
<1>13. Named(file'[s]) /\ OneActive(file'[s])
  BY <1>1, <1>4, <1>7
<1>14. ServiceInv(s)'
  <2>1. Named(jobs[s])' /\ OneActive(jobs[s])' /\ Named(file[s])' /\ OneActive(file[s])'
    BY <1>4, <1>13 DEF Named, OneActive
  <2> QED BY <2>1, <1>9, <1>10, <1>11, <1>12 DEF ServiceInv
<1> QED BY <1>2, <1>5, <1>6, <1>7, <1>8, <1>14, OnlyThis

\* Answers and failures.
LEMMA AnswerKeeps ==
  ASSUME ChecksInv, NEW s \in Services, NEW j \in JobIds,
         \/ Answered(s, j) \/ SaveAnswer(s, j) \/ EndJob(s, j) \/ ReportFailure(s, j)
         \/ s = "plan" /\ PlanFailed(j)
         \/ s = "live" /\ LiveFailed(j)
  PROVE  ChecksInv'
<1> USE DEF ChecksInv
<1>1. ServiceInv(s) /\ Types /\ Named(jobs[s]) /\ ThreadTells(s)
  BY DEF ServiceInv
<1>3. ASSUME thread[s][j] # "none" PROVE jobs[s][j].status # "none"
  BY <1>1, <1>3 DEF ThreadTells
<1>4. ASSUME NEW step \in RunSteps, SetRun(s, j, step)
      PROVE  /\ thread' \in [Services -> [JobIds -> RunSteps]]
             /\ \A r \in Services \ {s} : thread'[r] = thread[r]
  BY <1>1, <1>4, RunSet
<1>5. CASE Answered(s, j) \/ (s = "plan" /\ PlanFailed(j))
  <2>1. PICK step \in {"saving", "reporting"} :
          /\ thread[s][j] = "querying" /\ Read(s, j) /\ SetRun(s, j, step)
          /\ step = "reporting" => s = "plan"
          /\ UNCHANGED <<jobs, file, result, calling, healthy, up, crashes>>
    BY <1>5 DEF Answered, PlanFailed
  <2>2. step \in RunSteps
    BY DEF RunSteps
  <2>3. copy' \in [Services -> [JobIds -> Document]]
    BY <1>1, <1>3, <2>1, ReadTyped
  <2>4. Types'
    BY <1>1, <1>4, <2>1, <2>2, <2>3 DEF Types
  <2>5. ServiceInv(s)'
    BY <1>1, <2>1, <2>2, ThreadMoves DEF Outside
  <2> QED BY <1>4, <2>1, <2>2, <2>4, <2>5, OnlyThis
<1>6. CASE SaveAnswer(s, j) \/ ReportFailure(s, j)
  <2>1. PICK step \in {"closing", "failing", "none"}, part \in {"finished", "failed"} :
          /\ thread[s][j] \in {"saving", "reporting"} /\ Written(s, j, part) /\ SetRun(s, j, step)
          /\ step = "none" => thread[s][j] = "reporting"
          /\ UNCHANGED <<jobs, file, calling, healthy, up, crashes>>
    BY <1>6 DEF SaveAnswer, ReportFailure
  <2>2. step \in RunSteps
    BY DEF RunSteps
  <2>3. result' \in [Accounts -> Document] /\ copy' \in [Services -> [JobIds -> Document]]
    BY <1>1, <2>1, WrittenTyped
  <2>4. Types'
    BY <1>1, <1>4, <2>1, <2>2, <2>3 DEF Types
  <2>5. s = "live" /\ step \in {"none", "reporting"} => jobs[s][j].status \notin Active
    BY <1>1, <2>1 DEF ThreadTells
  <2>6. ServiceInv(s)'
    BY <1>1, <2>1, <2>2, <2>5, ThreadMoves DEF Outside
  <2> QED BY <1>4, <2>1, <2>2, <2>4, <2>6, OnlyThis
<1>7. CASE EndJob(s, j)
  <2>1. PICK status \in Final :
          /\ CloseJob(s, j, status) /\ SetRun(s, j, "none") /\ thread[s][j] \notin Outside
          /\ UNCHANGED <<result, copy, calling, healthy, up, crashes>>
    BY <1>7 DEF EndJob, Final, Outside
  <2>2. "none" \in RunSteps
    BY DEF RunSteps
  <2>3. /\ jobs' \in [Services -> [JobIds -> JobRecord]]
        /\ file' \in [Services -> [JobIds -> JobRecord]]
        /\ ServiceInv(s)'
        /\ \A r \in Services \ {s} : jobs'[r] = jobs[r] /\ file'[r] = file[r]
    BY <1>1, <2>1, JobCloses
  <2>4. Types'
    BY <1>1, <1>4, <2>1, <2>2, <2>3 DEF Types
  <2> QED BY <1>4, <2>1, <2>2, <2>3, <2>4, OnlyThis
<1>8. CASE s = "live" /\ LiveFailed(j)
  <2>1. /\ CloseJob(s, j, "failed") /\ Read(s, j) /\ SetRun(s, j, "reporting") /\ thread[s][j] = "querying"
        /\ UNCHANGED <<result, calling, healthy, up, crashes>>
    BY <1>8 DEF LiveFailed
  <2>2. "reporting" \in RunSteps /\ "failed" \in Final
    BY DEF RunSteps, Final
  <2>3. /\ jobs' \in [Services -> [JobIds -> JobRecord]]
        /\ file' \in [Services -> [JobIds -> JobRecord]]
        /\ ServiceInv(s)'
        /\ \A r \in Services \ {s} : jobs'[r] = jobs[r] /\ file'[r] = file[r]
    BY <1>1, <2>1, <2>2, JobCloses DEF Outside
  <2>4. copy' \in [Services -> [JobIds -> Document]]
    BY <1>1, <1>3, <2>1, ReadTyped
  <2>5. Types'
    BY <1>1, <1>4, <2>1, <2>2, <2>3, <2>4 DEF Types
  <2> QED BY <1>4, <2>1, <2>2, <2>3, <2>5, OnlyThis
<1> QED BY <1>5, <1>6, <1>7, <1>8

\* A crash, and the start after it.
LEMMA CrashKeeps == ASSUME ChecksInv, CrashChecks PROVE ChecksInv'
<1> USE DEF ChecksInv
<1>1. /\ up' = FALSE /\ crashes' = crashes + 1 /\ crashes < MaxCheckCrashes
      /\ thread' = [s \in Services |-> [j \in JobIds |-> "none"]]
      /\ copy' = [s \in Services |-> [j \in JobIds |-> Unchecked]]
      /\ calling' = [s \in Services |-> NoCall]
      /\ UNCHANGED <<jobs, file, result, healthy>>
  BY DEF CrashChecks
<1>2. NoCall \in [step : {"none", "marking", "keeping", "submitting"}, job : 0..MaxJobs]
      /\ NoCall.step = "none" /\ NoCall.job = 0
  BY CheckAssumption DEF NoCall
<1>3. Unchecked \in Document
  BY DEF Unchecked, Document
<1>4. crashes' \in 0..MaxCheckCrashes
  BY <1>1, CheckAssumption DEF Types
<1>5. Types'
  BY <1>1, <1>2, <1>3, <1>4 DEF Types, RunSteps
<1>6. ASSUME NEW s \in Services PROVE ServiceInv(s)'
  <2>1. ServiceInv(s) /\ \A j \in JobIds : thread'[s][j] = "none"
    BY <1>1
  <2>2. calling'[s] = NoCall
    BY <1>1
  <2>3. GateHeld(s)'
    BY <2>1, GateShrinks DEF ServiceInv, Outside
  <2>4. ThreadTells(s)'
    BY <2>1 DEF ThreadTells
  <2>5. CallTells(s)' /\ LiveHeld(s)'
    BY <1>1, <1>2, <2>2 DEF CallTells, LiveHeld, Stranded
  <2> QED BY <1>1, <2>1, <2>3, <2>4, <2>5 DEF ServiceInv, Named, OneActive
<1> QED BY <1>5, <1>6

LEMMA RecoverKeeps == ASSUME ChecksInv, RecoverChecks PROVE ChecksInv'
<1> USE DEF ChecksInv
<1>1. /\ ~up /\ up' = TRUE /\ file' = jobs'
      /\ UNCHANGED <<result, copy, calling, healthy, crashes>>
  BY DEF RecoverChecks
<1>2. ASSUME NEW s \in Services, NEW j \in JobIds
      PROVE  /\ jobs'[s][j] \in JobRecord
             /\ jobs'[s][j].account = file[s][j].account
             /\ Requeued(s, j) => jobs'[s][j].status = "queued" /\ thread'[s][j] = "submitted"
             /\ ~Requeued(s, j) => jobs'[s][j].status = file[s][j].status /\ thread'[s][j] = "none"
  <2>1. /\ jobs'[s][j] = IF Requeued(s, j) THEN [file[s][j] EXCEPT !.status = "queued"] ELSE file[s][j]
        /\ thread'[s][j] = IF Requeued(s, j) THEN "submitted" ELSE "none"
    BY DEF RecoverChecks
  <2>2. file[s][j] \in JobRecord /\ "queued" \in Active \cup Final
    BY RecordFields DEF Active
  <2>3. [file[s][j] EXCEPT !.status = "queued"] \in JobRecord
        /\ [file[s][j] EXCEPT !.status = "queued"].status = "queued"
        /\ [file[s][j] EXCEPT !.status = "queued"].account = file[s][j].account
    BY <2>2, RecordSet
  <2> HIDE DEF Requeued
  <2> QED BY <2>1, <2>2, <2>3
<1>3. jobs' \in [Services -> [JobIds -> JobRecord]]
  <2>1. jobs' = [s \in Services |-> [j \in JobIds |-> jobs'[s][j]]]
    BY DEF RecoverChecks
  <2> QED BY <1>2, <2>1
<1>4. thread' \in [Services -> [JobIds -> RunSteps]]
  BY DEF RecoverChecks, RunSteps
<1>5. Types'
  BY <1>1, <1>3, <1>4 DEF Types
<1>6. ASSUME NEW s \in Services PROVE ServiceInv(s)'
  <2>1. Named(file[s]) /\ OneActive(file[s]) /\ CallTells(s) /\ GateHeld(s)
    BY DEF ServiceInv
  <2>2. calling'[s].step = "none" /\ calling'[s].job = 0
    BY <1>1, <2>1 DEF CallTells
  <2>3. \A j \in JobIds : Requeued(s, j) => file[s][j].status \in Active
    BY DEF Requeued, Recovers, Active
  <2>4. \A j \in JobIds : jobs'[s][j].status \in Active <=> file[s][j].status \in Active
    BY <1>2, <2>3 DEF Active
  <2>5. Named(jobs'[s])
    BY <1>2, <2>1, <2>3 DEF Named, Active
  <2>6. OneActive(jobs'[s])
    BY <1>2, <2>1, <2>4 DEF OneActive
  <2>7. ThreadTells(s)'
    <3>1. \A j \in JobIds : /\ thread'[s][j] \in {"none", "submitted"}
                            /\ thread'[s][j] = "submitted" => jobs'[s][j].status = "queued"
      BY <1>2
    <3> QED BY <3>1 DEF ThreadTells
  <2>8. CallTells(s)'
    BY <2>2 DEF CallTells
  <2>9. LiveHeld(s)'
    <3>1. \A j \in JobIds : s = "live" /\ file[s][j].status \in Active => Requeued(s, j)
      BY DEF Requeued, Recovers
    <3>2. \A j \in JobIds : s = "live" /\ jobs'[s][j].status \in Active => thread'[s][j] = "submitted"
      BY <1>2, <2>4, <3>1
    <3> QED BY <3>2 DEF LiveHeld, Stranded
  <2>10. GateHeld(s)'
    <3>1. \A j \in JobIds : thread'[s][j] \in {"none", "submitted"}
      BY <1>2
    <3> QED BY <2>1, <3>1, GateShrinks DEF Outside
  <2>11. Named(jobs[s])' /\ OneActive(jobs[s])' /\ Named(file[s])' /\ OneActive(file[s])'
    BY <1>1, <2>5, <2>6 DEF Named, OneActive
  <2> QED BY <2>7, <2>8, <2>9, <2>10, <2>11 DEF ServiceInv
<1> QED BY <1>5, <1>6

LEMMA ChecksInit == CheckInit => ChecksInv
<1> SUFFICES ASSUME CheckInit PROVE ChecksInv
  OBVIOUS
<1>1. NoJobRecord \in JobRecord /\ NoJobRecord.status = "none" /\ Unchecked \in Document
  BY DEF NoJobRecord, JobRecord, Unchecked, Document
<1>2. NoCall \in [step : {"none", "marking", "keeping", "submitting"}, job : 0..MaxJobs]
      /\ NoCall.step = "none" /\ NoCall.job = 0
  BY CheckAssumption DEF NoCall
<1>3. Types
  BY <1>1, <1>2, CheckAssumption DEF CheckInit, Types, RunSteps
<1>4. ASSUME NEW s \in Services PROVE ServiceInv(s)
  <2>1. /\ \A j \in JobIds : jobs[s][j] = NoJobRecord /\ file[s][j] = NoJobRecord /\ thread[s][j] = "none"
        /\ calling[s] = NoCall
    BY DEF CheckInit
  <2>2. \A j \in JobIds : jobs[s][j].status = "none" /\ file[s][j].status = "none"
    BY <1>1, <2>1
  <2>3. Named(jobs[s]) /\ Named(file[s])
    BY <2>2 DEF Named
  <2>4. OneActive(jobs[s]) /\ OneActive(file[s])
    BY <2>2 DEF OneActive, Active
  <2>5. ThreadTells(s) /\ LiveHeld(s)
    BY <2>1, <2>2 DEF ThreadTells, LiveHeld, Stranded, Active
  <2>6. CallTells(s)
    BY <1>2, <2>1 DEF CallTells
  <2>7. InsideGate(s) = {}
    BY <2>1 DEF InsideGate, Outside
  <2>8. Cardinality(InsideGate(s)) = 0 /\ Greater(1, MaxHealthy) >= 0
    BY <2>7, FS_EmptySet, CheckAssumption DEF Greater
  <2>9. GateHeld(s)
    BY <2>8 DEF GateHeld
  <2> QED BY <2>3, <2>4, <2>5, <2>6, <2>9 DEF ServiceInv
<1> QED BY <1>3, <1>4 DEF ChecksInv

LEMMA ChecksStep == ChecksInv /\ [CheckNext]_checkVars => ChecksInv'
<1> SUFFICES ASSUME ChecksInv, [CheckNext]_checkVars PROVE ChecksInv'
  OBVIOUS
<1>1. CASE \E s \in Services, a \in Accounts : EnqueueCheck(s, a)
  BY <1>1, EnqueueKeeps
<1>2. CASE \E s \in Services : ServiceStep(s) \/ RefuseJob(s)
  BY <1>2, CallKeeps, EnterKeeps, RunningKeeps, AnswerKeeps DEF ServiceStep
<1>3. CASE PoolChanges
  <2>1. Types' /\ UNCHANGED <<jobs, file, thread, calling, up>>
    BY <1>3 DEF PoolChanges, ChecksInv, Types
  <2>2. \A s \in Services : ServiceInv(s)'
    BY <2>1, Untouched DEF ChecksInv
  <2> QED BY <2>1, <2>2 DEF ChecksInv
<1>4. CASE UNCHANGED checkVars
  <2>1. Types' /\ UNCHANGED <<jobs, file, thread, calling, up>>
    BY <1>4 DEF checkVars, ChecksInv, Types
  <2>2. \A s \in Services : ServiceInv(s)'
    BY <2>1, Untouched DEF ChecksInv
  <2> QED BY <2>1, <2>2 DEF ChecksInv
<1> QED BY <1>1, <1>2, <1>3, <1>4, CrashKeeps, RecoverKeeps DEF CheckNext

LEMMA InvTells == ChecksInv => ChecksAreKept
<1> SUFFICES ASSUME ChecksInv PROVE ChecksAreKept
  OBVIOUS
<1>1. CheckTypeOK
  BY DEF ChecksInv, Types, ServiceInv, GateHeld, CheckTypeOK
<1>2. OneActiveJob
  <2>1. \A s \in Services : OneActive(jobs[s]) /\ OneActive(file[s])
    BY DEF ChecksInv, ServiceInv
  <2> QED BY <2>1 DEF OneActiveJob, OneActive
<1>3. LiveNotStranded
  BY DEF ChecksInv, ServiceInv, LiveHeld, LiveNotStranded, Services
<1> QED BY <1>1, <1>2, <1>3 DEF ChecksAreKept

\* However often the process crashes, no account has two active jobs of one
\* service, no live check is lost and the gate's limit is kept
\* (FreeLiveCheckService and FreePlanCheckService with their gates).
THEOREM ChecksKept == CheckSpec => []ChecksAreKept
  BY ChecksInit, ChecksStep, InvTells, PTL DEF CheckSpec
================================================================================
