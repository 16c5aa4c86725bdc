----------------------------- MODULE AccountChecks -----------------------------
(***************************************************************************)
(* The two job queues that query registered Free accounts: live checks     *)
(* (free_live_check) and plan checks (free_plan_check).  Each keeps its    *)
(* jobs in memory and in a file of its own, runs them on its own executor  *)
(* behind a gate as wide as the healthy proxy pool, and writes its part of *)
(* the account's result, a document both services read, change and write   *)
(* back whole.  A crash loses the executors and the memory; the next start *)
(* loads the files and recovers.                                           *)
(***************************************************************************)
EXTENDS Common

CONSTANTS Accounts,    \* registered accounts (rows)
          MaxJobs,     \* jobs a service may ever create
          QueueLimit,  \* accounts a service may have active
          MaxHealthy,  \* the healthy pool's size is 0..MaxHealthy
          MaxCheckCrashes,
          NoAccount

ASSUME CheckAssumption == /\ MaxJobs \in Nat /\ QueueLimit \in Nat
                          /\ MaxHealthy \in Nat /\ MaxCheckCrashes \in Nat

Services == {"live", "plan"}
JobIds == 1..MaxJobs

VARIABLES jobs,      \* jobs[s][j]: the job in memory: its account and status
          file,      \* file[s]: the jobs as last written
          result,    \* result[a]: what the account's result says of each check
          thread,    \* thread[s][j]: how far the thread of a job is
          copy,      \* copy[s][j]: the result document that thread has read
          calling,   \* calling[s]: the enqueue call in progress: its step and job
          healthy,   \* the healthy pool
          up, crashes

checkVars == <<jobs, file, result, thread, copy, calling, healthy, up, crashes>>

Active == {"queued", "running"}
Final == {"finished", "failed"}
JobRecord == [account : Accounts \cup {NoAccount}, status : {"none"} \cup Active \cup Final]
NoJobRecord == [account |-> NoAccount, status |-> "none"]

\* The document as far as it matters: each service's part.
Document == [Services -> {"none", "queued", "finished", "failed"}]
Unchecked == [s \in Services |-> "none"]

RunSteps == {"none", "submitted", "admitted", "querying", "saving", "closing",
             "reporting", "failing", "refused"}
\* No thread of its own in the gate; of a refused job no thread will ever be.
Outside == {"none", "submitted", "refused"}
NoCall == [step |-> "none", job |-> 0]

CheckInit ==
  /\ jobs = [s \in Services |-> [j \in JobIds |-> NoJobRecord]]
  /\ file = jobs
  /\ result = [a \in Accounts |-> Unchecked]
  /\ thread = [s \in Services |-> [j \in JobIds |-> "none"]]
  /\ copy = [s \in Services |-> [j \in JobIds |-> Unchecked]]
  /\ calling = [s \in Services |-> NoCall]
  /\ healthy = MaxHealthy
  /\ up = TRUE
  /\ crashes = 0

-------------------------------------------------------------------------------
SetStatus(s, j, status) == jobs' = [jobs EXCEPT ![s][j].status = status]
SetRun(s, j, step) == thread' = [thread EXCEPT ![s][j] = step]
Read(s, j) == copy' = [copy EXCEPT ![s][j] = result[jobs[s][j].account]]

\* save_result: the whole document is replaced by the copy with this service's
\* part changed (merge_account_result_fields keeps only fields it lacks).
Written(s, j, part) ==
  /\ result' = [result EXCEPT ![jobs[s][j].account] = [copy[s][j] EXCEPT ![s] = part]]
  /\ copy' = [copy EXCEPT ![s][j] = Unchecked]

ActiveAccounts(s) == {jobs[s][j].account : j \in {i \in JobIds : jobs[s][i].status \in Active}}

-------------------------------------------------------------------------------
(* enqueue.  The service's lock is held from the check to the save of the   *)
(* file; the other service has a lock of its own.  A plan check of mode     *)
(* recheck also skips an account whose live check is under way, one of any  *)
(* other mode does not: the modes are not told apart.                       *)

\* mutant: the active jobs are not looked up
FreeForAny(s, a) == TRUE

\* One active job per account, and room in the queue.
FreeFor(s, a) == a \notin ActiveAccounts(s)
RoomFor(s) == Cardinality(ActiveAccounts(s)) < QueueLimit

EnqueueCheck(s, a) ==
  /\ up
  /\ calling[s].step = "none"
  /\ FreeFor(s, a) /\ RoomFor(s)
  /\ \E j \in JobIds :
       /\ jobs[s][j].status = "none"
       /\ \A i \in JobIds : i < j => jobs[s][i].status # "none"
       /\ jobs' = [jobs EXCEPT ![s][j] = [account |-> a, status |-> "queued"]]
       /\ copy' = [copy EXCEPT ![s][j] = result[a]]
       /\ calling' = [calling EXCEPT ![s] = [step |-> "marking", job |-> j]]
  /\ UNCHANGED <<file, result, thread, healthy, up, crashes>>

MarkQueued(s) ==
  /\ calling[s].step = "marking"
  /\ Written(s, calling[s].job, "queued")
  /\ calling' = [calling EXCEPT ![s].step = "keeping"]
  /\ UNCHANGED <<jobs, file, thread, healthy, up, crashes>>

KeepJobs(s) ==
  /\ calling[s].step = "keeping"
  /\ file' = [file EXCEPT ![s] = jobs[s]]
  /\ calling' = [calling EXCEPT ![s].step = "submitting"]
  /\ UNCHANGED <<jobs, result, thread, copy, healthy, up, crashes>>

\* A save that raises ends the call: the job stays queued in memory, its account busy,
\* and nothing is submitted; the caller gets the error.
RefuseJob(s) ==
  /\ calling[s].step \in {"marking", "keeping"}
  /\ SetRun(s, calling[s].job, "refused")
  /\ copy' = [copy EXCEPT ![s][calling[s].job] = Unchecked]
  /\ calling' = [calling EXCEPT ![s] = NoCall]
  /\ UNCHANGED <<jobs, file, result, healthy, up, crashes>>

\* The lock is released; the job goes to the executor.
SubmitJob(s) ==
  /\ calling[s].step = "submitting"
  /\ SetRun(s, calling[s].job, "submitted")
  /\ calling' = [calling EXCEPT ![s] = NoCall]
  /\ UNCHANGED <<jobs, file, result, copy, healthy, up, crashes>>

\* A service whose lock enqueue holds does not change its jobs.
StoreUnlocked(s) == calling[s].step \in {"none", "submitting"}

-------------------------------------------------------------------------------
(* The worker, behind ProxyPoolConcurrencyGate.                             *)

InsideGate(s) == {j \in JobIds : thread[s][j] \notin Outside}

\* mutant: an empty healthy pool leaves no place
LimitAsCounted == healthy

\* current_limit
CheckLimit == Greater(1, healthy)

EnterGate(s, j) == /\ thread[s][j] = "submitted"
                   /\ Cardinality(InsideGate(s)) < CheckLimit
                   /\ SetRun(s, j, "admitted")
                   /\ UNCHANGED <<jobs, file, result, copy, calling, healthy, up, crashes>>

\* _set_job(status="running"): the file follows at most every half second.
MarkRunning(s, j) ==
  /\ thread[s][j] = "admitted"
  /\ StoreUnlocked(s)
  /\ SetStatus(s, j, "running")
  /\ file' \in {file, [file EXCEPT ![s] = jobs'[s]]}
  /\ SetRun(s, j, "querying")
  /\ UNCHANGED <<result, copy, calling, healthy, up, crashes>>

\* The query answered: the result is read, changed and written, then the job
\* is finished and the file forced.
Answered(s, j) == /\ thread[s][j] = "querying"
                  /\ Read(s, j)
                  /\ SetRun(s, j, "saving")
                  /\ UNCHANGED <<jobs, file, result, calling, healthy, up, crashes>>

SaveAnswer(s, j) == /\ thread[s][j] = "saving"
                    /\ Written(s, j, "finished")
                    /\ SetRun(s, j, "closing")
                    /\ UNCHANGED <<jobs, file, calling, healthy, up, crashes>>

CloseJob(s, j, status) == /\ StoreUnlocked(s)
                          /\ SetStatus(s, j, status)
                          /\ file' = [file EXCEPT ![s] = jobs'[s]]

EndJob(s, j) == /\ thread[s][j] \in {"closing", "failing"}
                /\ CloseJob(s, j, IF thread[s][j] = "closing" THEN "finished" ELSE "failed")
                /\ SetRun(s, j, "none")
                /\ UNCHANGED <<result, copy, calling, healthy, up, crashes>>

\* A failed query.  The plan check writes the result first, as above; the
\* live check closes the job first and reports in the result afterwards.
PlanFailed(j) == /\ thread["plan"][j] = "querying"
                 /\ Read("plan", j)
                 /\ SetRun("plan", j, "reporting")
                 /\ UNCHANGED <<jobs, file, result, calling, healthy, up, crashes>>

LiveFailed(j) == /\ thread["live"][j] = "querying"
                 /\ CloseJob("live", j, "failed")
                 /\ Read("live", j)
                 /\ SetRun("live", j, "reporting")
                 /\ UNCHANGED <<result, calling, healthy, up, crashes>>

ReportFailure(s, j) ==
  /\ thread[s][j] = "reporting"
  /\ Written(s, j, "failed")
  /\ SetRun(s, j, IF s = "plan" THEN "failing" ELSE "none")
  /\ UNCHANGED <<jobs, file, calling, healthy, up, crashes>>

-------------------------------------------------------------------------------
(* The pool, a crash, and the next start.                                   *)

PoolChanges == /\ up
               /\ healthy' \in 0..MaxHealthy
               /\ healthy' # healthy
               /\ UNCHANGED <<jobs, file, result, thread, copy, calling, up, crashes>>

CrashChecks == /\ up
               /\ crashes < MaxCheckCrashes
               /\ crashes' = crashes + 1
               /\ up' = FALSE
               /\ thread' = [s \in Services |-> [j \in JobIds |-> "none"]]
               /\ copy' = [s \in Services |-> [j \in JobIds |-> Unchecked]]
               /\ calling' = [s \in Services |-> NoCall]
               /\ UNCHANGED <<jobs, file, result, healthy>>

\* _recover_jobs requeues and submits every active job, _recover those that
\* were running.
Recovers(s) == IF s = "live" THEN Active ELSE {"running"}

Requeued(s, j) == file[s][j].status \in Recovers(s)
RecoverChecks ==
  /\ ~up
  /\ up' = TRUE
  /\ jobs' = [s \in Services |-> [j \in JobIds |->
                IF Requeued(s, j) THEN [file[s][j] EXCEPT !.status = "queued"] ELSE file[s][j]]]
  /\ file' = jobs'
  /\ thread' = [s \in Services |-> [j \in JobIds |-> IF Requeued(s, j) THEN "submitted" ELSE "none"]]
  /\ UNCHANGED <<result, copy, calling, healthy, crashes>>

ServiceStep(s) == \/ MarkQueued(s) \/ KeepJobs(s) \/ SubmitJob(s)
                  \/ \E j \in JobIds : \/ EnterGate(s, j) \/ MarkRunning(s, j) \/ Answered(s, j)
                                       \/ SaveAnswer(s, j) \/ EndJob(s, j) \/ ReportFailure(s, j)
                  \/ \E j \in JobIds : s = "plan" /\ PlanFailed(j)
                  \/ \E j \in JobIds : s = "live" /\ LiveFailed(j)

CheckNext == \/ \E s \in Services, a \in Accounts : EnqueueCheck(s, a)
             \/ \E s \in Services : ServiceStep(s) \/ RefuseJob(s)
             \/ PoolChanges \/ CrashChecks \/ RecoverChecks

CheckSpec == CheckInit /\ [][CheckNext]_checkVars

-------------------------------------------------------------------------------
\* Every variable has its type, and no service ever has more threads in its
\* gate than the largest healthy pool allows.
CheckTypeOK == /\ jobs \in [Services -> [JobIds -> JobRecord]]
               /\ file \in [Services -> [JobIds -> JobRecord]]
               /\ result \in [Accounts -> Document]
               /\ thread \in [Services -> [JobIds -> RunSteps]]
               /\ copy \in [Services -> [JobIds -> Document]]
               /\ calling \in [Services -> [step : {"none", "marking", "keeping", "submitting"},
                                            job : 0..MaxJobs]]
               /\ \A s \in Services : Cardinality(InsideGate(s)) <= Greater(1, MaxHealthy)
               /\ healthy \in 0..MaxHealthy /\ up \in BOOLEAN /\ crashes \in 0..MaxCheckCrashes

\* Whatever is loaded again after a crash, a service never has two active jobs
\* for one account, in memory or in its file.
OneActiveJob ==
  \A s \in Services, i, j \in JobIds :
    \A where \in {jobs, file} :
      /\ where[s][i].status \in Active
      /\ where[s][j].status \in Active
      /\ where[s][i].account = where[s][j].account
      => i = j

\* A job of the service that was accepted and is neither run, nor submitted, nor
\* about to be: nothing will ever finish it, and its account counts as busy for good.
Stranded(s, j) == /\ up
                  /\ jobs[s][j].status \in Active
                  /\ thread[s][j] = "none"
                  /\ calling[s].job # j

\* No live check that was accepted is lost, whenever the process crashed.
LiveNotStranded == \A j \in JobIds : ~Stranded("live", j)

\* "a crash inside a coalesced window only loses stage-progress rows that
\* _recover re-queues anyway": no plan check is lost either.
PlanNotStranded == \A j \in JobIds : ~Stranded("plan", j)

\* However often the process crashes, the checks of an account neither double nor
\* get lost, and no more threads run than the gate allows.
ChecksAreKept == CheckTypeOK /\ OneActiveJob /\ LiveNotStranded

\* Every live check that was accepted is answered, if the process stays up in
\* the end: even an empty healthy pool leaves the gate one place.
LiveIsAnswered == \A j \in JobIds :
  (/\ jobs["live"][j].status \in Active /\ file["live"][j].status \in Active
   /\ thread["live"][j] # "refused")
     ~> jobs["live"][j].status \in Final
===============================================================================
