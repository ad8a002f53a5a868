------------------------- MODULE HandoffStoreProofs -------------------------
(***************************************************************************)
(* The store and its worker half keep their invariants under any callers,  *)
(* for every set of jobs, boots, results and every bound.  The job queue's *)
(* lemmas are used for what the transactions do to jobs and attempts; the  *)
(* second part adds the agreement of every handoff row with those two      *)
(* rows, the third the reconciliation pass, the worker and the requests    *)
(* between them.                                                           *)
(***************************************************************************)
EXTENDS WorkerPhase, TLAPS

-----------------------------------------------------------------------------
(* The job queue, for every number of jobs, attempts, workers and results.  *)
(* The inductive invariant is the conjunction of the four invariants that   *)
(* the run checks: SingleReservation and OnlyFailuresAreRetried are not     *)
(* inductive on their own, because a claim reads the jobs table and they    *)
(* speak of the attempts table; TablesAgree is the link.                    *)

StoreInv ==
    /\ TypeOK
    /\ TablesAgree
    /\ OnlyFailuresAreRetried
    /\ SingleReservation

\* The facts about the order of the naturals that the later proofs cite.
LEMMA NatOrder ==
    /\ \A x \in Nat : x <= x
    /\ \A x, y \in Nat : x <= y /\ y <= x => x = y
    /\ \A x, y \in Nat : x >= y /\ x <= y => x = y
    /\ 0 <= 1 /\ 1 <= 1 /\ 0 # 1
  OBVIOUS

\* The initial store satisfies the invariant.
LEMMA InitInv == StoreInit => StoreInv
  <1> SUFFICES ASSUME StoreInit PROVE StoreInv
    OBVIOUS
  <1>1. TypeOK
    BY JobStoreAssumption
    DEF StoreInit, TypeOK, JobRow, NoJob, Time, LastError, JobStatus, AttemptStatus
  <1>2. TablesAgree
    BY JobStoreAssumption DEF StoreInit, TablesAgree, NoJob, Numbers
  <1>3. OnlyFailuresAreRetried
    BY JobStoreAssumption DEF StoreInit, OnlyFailuresAreRetried, NoJob, Numbers
  <1>4. SingleReservation
    BY DEF StoreInit, SingleReservation, Unresolved, UnresolvedStatus
  <1> QED BY <1>1, <1>2, <1>3, <1>4 DEF StoreInv

\* Every transaction keeps the types of the rows.
LEMMA NextType == TypeOK /\ [Next]_storeVars => TypeOK'
  <1> SUFFICES ASSUME TypeOK, [Next]_storeVars PROVE TypeOK'
    OBVIOUS
  <1>1. ASSUME NEW j \in Jobs, SubmitJob(j) PROVE TypeOK'
    <2>0. NoJob \in JobRow
      BY JobStoreAssumption DEF NoJob, JobRow, LastError, Time
    <2>1. [NoJob EXCEPT !.status = "queued", !.created = now, !.nextRetry = now] \in JobRow
      BY <2>0, Zenon DEF TypeOK, JobRow, JobStatus
    <2> QED BY <1>1, <2>1 DEF SubmitJob, TypeOK
  <1>2. ASSUME NEW j \in Jobs, NEW w \in WorkerIds, ClaimNextJob(j, w) PROVE TypeOK'
    <2>1. jobs[j].count + 1 \in Numbers
      BY <1>2, JobStoreAssumption DEF ClaimNextJob, StartAttempt, TypeOK, JobRow, Numbers
    <2>5. jobs[j].count + 1 \in 0 .. MaxAttempts
      BY <2>1, JobStoreAssumption DEF Numbers
    <2>2. [jobs[j] EXCEPT !.status = "running", !.worker = w,
                           !.count = jobs[j].count + 1,
                           !.nextRetry = jobs[j].nextRetry] \in JobRow
      BY ZenonT(60), <2>5 DEF TypeOK, JobRow, JobStatus
    <2>4. jobs' \in [Jobs -> JobRow]
      BY <1>2, <2>2 DEF ClaimNextJob, StartAttempt, TypeOK
    <2>3. attempts' \in [Jobs -> [Numbers -> AttemptStatus \cup {"none"}]]
      BY <1>2, <2>1 DEF ClaimNextJob, StartAttempt, TypeOK, AttemptStatus
    <2> QED BY <1>2, <2>3, <2>4 DEF ClaimNextJob, TypeOK
  <1>3. ASSUME NEW j \in Jobs, NEW n \in Numbers, NEW r \in Results,
               CompleteJob(j, n, r)
        PROVE  TypeOK'
    <2>1. jobs' \in [Jobs -> JobRow]
      <3>1. [jobs[j] EXCEPT !.status = "completed", !.result = r, !.lastError = "none"]
               \in JobRow
        BY ZenonT(60) DEF TypeOK, JobRow, JobStatus, LastError
      <3> QED BY <1>3, <3>1 DEF CompleteJob, TypeOK
    <2>2. attempts' \in [Jobs -> [Numbers -> AttemptStatus \cup {"none"}]]
      BY <1>3 DEF CompleteJob, TypeOK, AttemptStatus
    <2> QED BY <1>3, <2>1, <2>2 DEF CompleteJob, TypeOK
  <1>4. ASSUME NEW j \in Jobs, NEW n \in Numbers, NEW retry \in Time \cup {NoValue},
               FailJob(j, n, retry)
        PROVE  TypeOK'
    <2>1. jobs' \in [Jobs -> JobRow]
      <3>1. [jobs[j] EXCEPT
               !.status = IF retry = NoValue THEN "quarantined" ELSE "queued",
               !.nextRetry = retry, !.lastError = "failure", !.worker = NoValue] \in JobRow
        BY ZenonT(60) DEF TypeOK, JobRow, JobStatus, LastError
      <3> QED BY <1>4, <3>1 DEF FailJob, TypeOK
    <2>2. attempts' \in [Jobs -> [Numbers -> AttemptStatus \cup {"none"}]]
      BY <1>4 DEF FailJob, TypeOK, AttemptStatus
    <2> QED BY <1>4, <2>1, <2>2 DEF FailJob, TypeOK
  <1>5. CASE QuarantineInterruptedJobs
    <2>1. \A j \in Jobs :
             [jobs[j] EXCEPT !.status = "quarantined", !.lastError = "interrupted"] \in JobRow
      BY ZenonT(60) DEF TypeOK, JobRow, JobStatus, LastError
    <2>2. jobs' \in [Jobs -> JobRow]
      BY <1>5, <2>1, Zenon DEF QuarantineInterruptedJobs, TypeOK
    <2>3. attempts' \in [Jobs -> [Numbers -> AttemptStatus \cup {"none"}]]
      BY <1>5, Zenon DEF QuarantineInterruptedJobs, TypeOK, AttemptStatus
    <2> QED BY <1>5, <2>2, <2>3, Zenon DEF QuarantineInterruptedJobs, TypeOK
  <1>6. ASSUME NEW j \in Jobs, NEW n \in Numbers, RetryAttempt(j, n, FALSE)
        PROVE  TypeOK'
    <2>1. jobs' \in [Jobs -> JobRow]
      <3>1. [jobs[j] EXCEPT !.status = "queued", !.nextRetry = now, !.worker = NoValue]
               \in JobRow
        BY ZenonT(60) DEF TypeOK, JobRow, JobStatus
      <3> QED BY <1>6, <3>1 DEF RetryAttempt, TypeOK
    <2> QED BY <1>6, <2>1 DEF RetryAttempt, TypeOK
  <1>7. ASSUME NEW j \in Jobs, NEW n \in Numbers, QuarantineAttempt(j, n)
        PROVE  TypeOK'
    <2>1. jobs' \in [Jobs -> JobRow]
      <3>1. [jobs[j] EXCEPT !.status = "quarantined", !.nextRetry = NoValue,
                             !.lastError = "operator"] \in JobRow
        BY ZenonT(60) DEF TypeOK, JobRow, JobStatus, LastError
      <3> QED BY <1>7, <3>1 DEF QuarantineAttempt, TypeOK
    <2>2. attempts' \in [Jobs -> [Numbers -> AttemptStatus \cup {"none"}]]
      BY <1>7 DEF QuarantineAttempt, TypeOK, AttemptStatus
    <2> QED BY <1>7, <2>1, <2>2 DEF QuarantineAttempt, TypeOK
  <1>8. ASSUME NEW m \in DesiredMode, SetDesiredMode(m) PROVE TypeOK'
    BY <1>8 DEF SetDesiredMode, TypeOK
  <1>9. CASE Tick
    BY <1>9 DEF Tick, TypeOK
  <1>10. CASE UNCHANGED storeVars
    BY <1>10 DEF storeVars, TypeOK
  <1> QED
    BY <1>1, <1>2, <1>3, <1>4, <1>5, <1>6, <1>7, <1>8, <1>9, <1>10, Zenon DEF Next

-------------------------------------------------------------------------------
(* What a job's rows must look like, one job at a time. *)

RowsAgree(j) ==
    /\ jobs[j].status = "absent" => jobs[j].count = 0
    /\ jobs[j].status \notin {"absent", "queued"} => jobs[j].count > 0
    /\ \A n \in Numbers :
          /\ attempts[j][n] = "none" <=> n > jobs[j].count
          /\ attempts[j][n] = "running"
                <=> (jobs[j].status = "running" /\ n = jobs[j].count)
          /\ attempts[j][n] = "completed"
                <=> (jobs[j].status = "completed" /\ n = jobs[j].count)
          /\ attempts[j][n] = "unknown"
                => (jobs[j].status = "quarantined" /\ n = jobs[j].count)
          /\ n < jobs[j].count => attempts[j][n] = "failed"

\* The two invariants on the tables hold when they hold job by job.
LEMMA RowByRow ==
    (\A j \in Jobs : RowsAgree(j)) <=> (TablesAgree /\ OnlyFailuresAreRetried)
  BY DEF RowsAgree, TablesAgree, OnlyFailuresAreRetried

\* The attempt a job is running, or left unknown, is its latest, and so is
\* the failed attempt that a retry or a quarantine names.
LEMMA LatestIsCount ==
  ASSUME TypeOK, NEW j \in Jobs, NEW n \in Numbers, RowsAgree(j), IsLatest(j, n)
  PROVE  n = jobs[j].count
  <1>1. jobs[j].count \in 0 .. MaxAttempts /\ n <= jobs[j].count
    BY DEF TypeOK, JobRow, RowsAgree, IsLatest, Numbers
  <1>2. jobs[j].count \in Numbers
    BY <1>1, JobStoreAssumption DEF Numbers
  <1>3. attempts[j][jobs[j].count] # "none"
    BY <1>2 DEF RowsAgree, Numbers
  <1> QED BY <1>1, <1>2, <1>3 DEF IsLatest, Numbers

\* A step that rewrites the rows of one job, leaves them in agreement and
\* opens no attempt while another is open keeps the invariant.
LEMMA OneJobStep ==
  ASSUME StoreInv, TypeOK', NEW j \in Jobs,
         \A k \in Jobs \ {j} : jobs'[k] = jobs[k] /\ attempts'[k] = attempts[k],
         RowsAgree(j)',
         \/ Unresolved = {}
         \/ \A n \in Numbers : attempts'[j][n] \in UnresolvedStatus
                                => attempts[j][n] \in UnresolvedStatus
  PROVE  StoreInv'
  <1>1. \A k \in Jobs : RowsAgree(k)
    BY RowByRow DEF StoreInv
  <1>2. \A k \in Jobs : RowsAgree(k)'
    BY <1>1 DEF RowsAgree
  <1>3. TablesAgree' /\ OnlyFailuresAreRetried'
    BY <1>2 DEF RowsAgree, TablesAgree, OnlyFailuresAreRetried
  <1>4. \A n, m \in Numbers :
           (attempts'[j][n] \in UnresolvedStatus /\ attempts'[j][m] \in UnresolvedStatus) => n = m
    BY <1>2 DEF RowsAgree, UnresolvedStatus
  <1>5. ASSUME NEW a \in Unresolved', NEW b \in Unresolved' PROVE a = b
    <2>1. /\ a \in Jobs \X Numbers /\ attempts'[a[1]][a[2]] \in UnresolvedStatus
          /\ b \in Jobs \X Numbers /\ attempts'[b[1]][b[2]] \in UnresolvedStatus
      BY <1>5 DEF Unresolved, UnresolvedStatus
    <2>2. CASE a[1] = j /\ b[1] = j
      BY <2>1, <2>2, <1>4
    <2>3. CASE Unresolved = {} /\ ~(a[1] = j /\ b[1] = j)
      BY <2>1, <2>3 DEF Unresolved
    <2>4. CASE \A n \in Numbers : attempts'[j][n] \in UnresolvedStatus
                                    => attempts[j][n] \in UnresolvedStatus
      <3>1. a \in Unresolved /\ b \in Unresolved
        BY <2>1, <2>4 DEF Unresolved
      <3> QED BY <3>1 DEF StoreInv, SingleReservation
    <2> QED BY <2>2, <2>3, <2>4
  <1> QED BY <1>3, <1>5 DEF StoreInv, SingleReservation

-------------------------------------------------------------------------------
(* One lemma per transaction. *)

\* insert_job_tx adds a queued row for a job without attempts.
LEMMA SubmitJobInv ==
  ASSUME StoreInv, TypeOK', NEW j \in Jobs, SubmitJob(j) PROVE StoreInv'
  <1>1. /\ jobs'[j].status = "queued" /\ jobs'[j].count = 0
        /\ jobs[j].status = "absent" /\ attempts' = attempts
        /\ \A k \in Jobs \ {j} : jobs'[k] = jobs[k]
    BY DEF SubmitJob, StoreInv, TypeOK, NoJob
  <1>2. RowsAgree(j)
    BY RowByRow DEF StoreInv
  <1>3. RowsAgree(j)'
    BY <1>1, <1>2 DEF RowsAgree, Numbers
  <1> QED BY <1>1, <1>3, OneJobStep

\* Any claim of a queued job, made while no attempt is open.
LEMMA StartAttemptInv ==
  ASSUME StoreInv, TypeOK', NEW j \in Jobs, NEW w, NEW retry,
         Unresolved = {}, jobs[j].status = "queued", StartAttempt(j, w, retry)
  PROVE  StoreInv'
  <1>0. jobs[j].count \in 0 .. MaxAttempts /\ jobs[j].count < MaxAttempts
    BY DEF StoreInv, TypeOK, JobRow, StartAttempt
  <1>1. jobs[j].count + 1 \in Numbers
    BY <1>0, JobStoreAssumption DEF Numbers
  <1>2. /\ jobs'[j].status = "running" /\ jobs'[j].count = jobs[j].count + 1
        /\ \A k \in Jobs \ {j} : jobs'[k] = jobs[k]
    BY DEF StartAttempt, StoreInv, TypeOK, JobRow
  <1>3. /\ \A k \in Jobs \ {j} : attempts'[k] = attempts[k]
        /\ \A n \in Numbers : attempts'[j][n] =
              IF n = jobs[j].count + 1 THEN "running" ELSE attempts[j][n]
    BY <1>1 DEF StartAttempt, StoreInv, TypeOK
  <1>4. RowsAgree(j)
    BY RowByRow DEF StoreInv
  <1>5. \A n \in Numbers : n <= jobs[j].count => attempts[j][n] = "failed"
    <2> SUFFICES ASSUME NEW n \in Numbers, n <= jobs[j].count PROVE attempts[j][n] = "failed"
      OBVIOUS
    <2>1. attempts[j][n] \in AttemptStatus \cup {"none"}
      BY DEF StoreInv, TypeOK
    <2>2. attempts[j][n] \notin {"none", "running", "completed", "unknown"}
      BY <1>0, <1>4 DEF RowsAgree, Numbers
    <2> QED BY <2>1, <2>2 DEF AttemptStatus
  <1>6. RowsAgree(j)'
    BY <1>0, <1>1, <1>2, <1>3, <1>4, <1>5 DEF RowsAgree, Numbers
  <1> QED BY <1>2, <1>3, <1>6, OneJobStep

\* A step that settles the open attempt of a job: a completion, a failure,
\* or the loss of its outcome.
LEMMA SettleInv ==
  ASSUME StoreInv, TypeOK', NEW j \in Jobs, NEW n \in Numbers, NEW a, NEW s,
         attempts[j][n] \in UnresolvedStatus,
         attempts' = [attempts EXCEPT ![j][n] = a],
         \A k \in Jobs \ {j} : jobs'[k] = jobs[k],
         jobs'[j].count = jobs[j].count,
         jobs'[j].status = s,
         \/ a = "completed" /\ s = "completed"
         \/ a = "failed" /\ s \in {"queued", "failed", "quarantined"}
         \/ a = "unknown" /\ s = "quarantined"
  PROVE  StoreInv'
  <1>1. RowsAgree(j) /\ jobs[j].count \in 0 .. MaxAttempts
    BY RowByRow DEF StoreInv, TypeOK, JobRow
  <1>2. n = jobs[j].count
    BY <1>1 DEF RowsAgree, UnresolvedStatus
  <1>3. /\ \A k \in Jobs \ {j} : attempts'[k] = attempts[k]
        /\ \A m \in Numbers : attempts'[j][m] = IF m = n THEN a ELSE attempts[j][m]
    BY DEF StoreInv, TypeOK
  <1>4. RowsAgree(j)'
    BY <1>1, <1>2, <1>3, JobStoreAssumption DEF RowsAgree, Numbers
  <1>5. \A m \in Numbers : attempts'[j][m] \in UnresolvedStatus
                              => attempts[j][m] \in UnresolvedStatus
    BY <1>3
  <1> QED BY <1>3, <1>4, <1>5, OneJobStep

\* A step that only relabels a job whose latest attempt has failed.
LEMMA RelabelInv ==
  ASSUME StoreInv, TypeOK', NEW j \in Jobs, NEW n \in Numbers,
         IsLatest(j, n), attempts[j][n] = "failed", attempts' = attempts,
         \A k \in Jobs \ {j} : jobs'[k] = jobs[k],
         jobs'[j].count = jobs[j].count,
         jobs'[j].status \in {"queued", "quarantined", "failed"}
  PROVE  StoreInv'
  <1>1. RowsAgree(j) /\ n = jobs[j].count
    BY RowByRow, LatestIsCount DEF StoreInv
  <1>2. RowsAgree(j)'
    BY <1>1 DEF RowsAgree, Numbers
  <1> QED BY <1>2, OneJobStep

\* admit_operator_quarantine loses the outcome of a running attempt and
\* relabels the job of a failed one.
LEMMA QuarantineAttemptInv ==
  ASSUME StoreInv, TypeOK', NEW j \in Jobs, NEW n \in Numbers, QuarantineAttempt(j, n)
  PROVE  StoreInv'
  <1>1. /\ jobs'[j].count = jobs[j].count /\ jobs'[j].status = "quarantined"
        /\ \A k \in Jobs \ {j} : jobs'[k] = jobs[k]
    BY DEF QuarantineAttempt, StoreInv, TypeOK, JobRow
  <1>2. CASE attempts[j][n] = "running"
    <2>1. /\ attempts[j][n] \in UnresolvedStatus
          /\ attempts' = [attempts EXCEPT ![j][n] = "unknown"]
      BY <1>2 DEF QuarantineAttempt, UnresolvedStatus
    <2> QED BY <1>1, <2>1, SettleInv, Zenon
  <1>3. CASE attempts[j][n] # "running"
    <2>1. RowsAgree(j) /\ attempts[j][n] \in AttemptStatus \cup {"none"}
      BY RowByRow DEF StoreInv, TypeOK
    <2>2. /\ IsLatest(j, n) /\ attempts[j][n] \notin {"none", "completed", "running"}
          /\ jobs[j].status # "quarantined"
      BY <1>3 DEF QuarantineAttempt, IsLatest
    <2>3. attempts[j][n] = "failed"
      BY <2>1, <2>2 DEF RowsAgree, AttemptStatus
    <2>4. attempts' = attempts
      BY <1>3 DEF QuarantineAttempt, StoreInv, TypeOK
    <2> QED BY <1>1, <2>2, <2>3, <2>4, RelabelInv
  <1> QED BY <1>2, <1>3

\* quarantine_interrupted_jobs turns running attempts into unknown ones, and
\* neither opens nor closes any.
LEMMA QuarantineInterruptedInv ==
  ASSUME StoreInv, TypeOK', QuarantineInterruptedJobs PROVE StoreInv'
  <1>1. \A j \in Jobs :
           /\ jobs'[j].count = jobs[j].count
           /\ jobs'[j].status = IF jobs[j].status = "running"
                                THEN "quarantined" ELSE jobs[j].status
    BY Zenon DEF QuarantineInterruptedJobs, StoreInv, TypeOK, JobRow
  <1>2. \A j \in Jobs : RowsAgree(j)
    BY RowByRow DEF StoreInv
  <1>3. \A j \in Jobs, n \in Numbers :
           attempts'[j][n] = IF attempts[j][n] = "running" THEN "unknown" ELSE attempts[j][n]
    BY <1>2, Zenon DEF QuarantineInterruptedJobs, RowsAgree
  <1>4. \A j \in Jobs : RowsAgree(j)'
    BY <1>1, <1>2, <1>3 DEF RowsAgree
  <1>5. TablesAgree' /\ OnlyFailuresAreRetried'
    BY <1>4 DEF RowsAgree, TablesAgree, OnlyFailuresAreRetried
  <1>6. Unresolved' = Unresolved
    BY <1>3 DEF Unresolved, UnresolvedStatus
  <1> QED BY <1>5, <1>6 DEF StoreInv, SingleReservation

\* Every transaction of the job API keeps the invariant.
LEMMA NextInv == StoreInv /\ [Next]_storeVars => StoreInv'
  <1> SUFFICES ASSUME StoreInv, [Next]_storeVars PROVE StoreInv'
    OBVIOUS
  <1>0. TypeOK /\ TypeOK'
    BY NextType DEF StoreInv
  <1>1. ASSUME NEW j \in Jobs, SubmitJob(j) PROVE StoreInv'
    BY <1>0, <1>1, SubmitJobInv
  <1>2. ASSUME NEW j \in Jobs, NEW w \in WorkerIds, ClaimNextJob(j, w) PROVE StoreInv'
    <2>1. Unresolved = {} /\ StartAttempt(j, w, jobs[j].nextRetry)
      BY <1>2 DEF ClaimNextJob
    <2>2. jobs[j].status = "queued"
      BY <1>2 DEF ClaimNextJob, Oldest, Eligible
    <2> QED BY <1>0, <2>1, <2>2, StartAttemptInv
  <1>3. ASSUME NEW j \in Jobs, NEW n \in Numbers, NEW r \in Results,
               CompleteJob(j, n, r)
        PROVE  StoreInv'
    <2>1. /\ jobs'[j].count = jobs[j].count /\ jobs'[j].status = "completed"
          /\ \A k \in Jobs \ {j} : jobs'[k] = jobs[k]
      BY <1>0, <1>3 DEF CompleteJob, TypeOK, JobRow
    <2>2. /\ attempts[j][n] \in UnresolvedStatus
          /\ attempts' = [attempts EXCEPT ![j][n] = "completed"]
      BY <1>3 DEF CompleteJob, UnresolvedStatus
    <2> QED BY <1>0, <2>1, <2>2, SettleInv, Zenon
  <1>4. ASSUME NEW j \in Jobs, NEW n \in Numbers, NEW retry \in Time \cup {NoValue},
               FailJob(j, n, retry)
        PROVE  StoreInv'
    <2>1. /\ jobs'[j].count = jobs[j].count
          /\ jobs'[j].status \in {"queued", "quarantined"}
          /\ \A k \in Jobs \ {j} : jobs'[k] = jobs[k]
      BY <1>0, <1>4 DEF FailJob, TypeOK, JobRow
    <2>2. /\ attempts[j][n] \in UnresolvedStatus
          /\ attempts' = [attempts EXCEPT ![j][n] = "failed"]
      BY <1>4 DEF FailJob, UnresolvedStatus
    <2> QED BY <1>0, <2>1, <2>2, SettleInv, Zenon
  <1>5. CASE QuarantineInterruptedJobs
    BY <1>0, <1>5, QuarantineInterruptedInv
  <1>6. ASSUME NEW j \in Jobs, NEW n \in Numbers, RetryAttempt(j, n, FALSE)
        PROVE  StoreInv'
    <2>1. /\ jobs'[j].count = jobs[j].count /\ jobs'[j].status = "queued"
          /\ \A k \in Jobs \ {j} : jobs'[k] = jobs[k]
      BY <1>0, <1>6 DEF RetryAttempt, TypeOK, JobRow
    <2>2. IsLatest(j, n) /\ attempts[j][n] = "failed" /\ attempts' = attempts
      BY <1>6 DEF RetryAttempt
    <2> QED BY <1>0, <2>1, <2>2, RelabelInv
  <1>7. ASSUME NEW j \in Jobs, NEW n \in Numbers, QuarantineAttempt(j, n)
        PROVE  StoreInv'
    BY <1>0, <1>7, QuarantineAttemptInv
  <1>8. ASSUME NEW m \in DesiredMode, SetDesiredMode(m) PROVE StoreInv'
    BY <1>0, <1>8 DEF SetDesiredMode, StoreInv, TablesAgree, OnlyFailuresAreRetried,
                      SingleReservation, Unresolved
  <1>9. CASE Tick
    BY <1>0, <1>9 DEF Tick, StoreInv, TablesAgree, OnlyFailuresAreRetried,
                      SingleReservation, Unresolved
  <1>10. CASE UNCHANGED storeVars
    BY <1>0, <1>10 DEF storeVars, StoreInv, TablesAgree, OnlyFailuresAreRetried,
                       SingleReservation, Unresolved
  <1> QED
    BY <1>1, <1>2, <1>3, <1>4, <1>5, <1>6, <1>7, <1>8, <1>9, <1>10, Zenon DEF Next

\* The four invariants of the job queue hold in every reachable store, for
\* any number of jobs, attempts, claimants and results.
THEOREM JobStoreCorrect ==
    Spec => [](TypeOK /\ TablesAgree /\ OnlyFailuresAreRetried /\ SingleReservation)
  BY InitInv, NextInv, PTL DEF Spec, StoreInv

\* The rows of a completed job are never written again.
THEOREM CompletedStaysFinal == Spec => CompletedIsFinal
  <1>1. StoreInv /\ [Next]_storeVars =>
          [\A j \in Jobs : jobs[j].status = "completed" =>
               /\ jobs'[j] = jobs[j]
               /\ attempts'[j] = attempts[j]]_storeVars
    <2> SUFFICES ASSUME StoreInv, [Next]_storeVars,
                        NEW j \in Jobs, jobs[j].status = "completed"
                 PROVE  jobs'[j] = jobs[j] /\ attempts'[j] = attempts[j]
      OBVIOUS
    <2> USE DEF StoreInv, TypeOK
    <2>3. CASE \E k \in Jobs : SubmitJob(k)
      BY <2>3 DEF SubmitJob
    <2>4. CASE \E k \in Jobs, w \in WorkerIds : ClaimNextJob(k, w)
      BY <2>4 DEF ClaimNextJob, StartAttempt, Oldest, Eligible
    <2>5. CASE \E k \in Jobs, n \in Numbers, r \in Results : CompleteJob(k, n, r)
      BY <2>5 DEF CompleteJob
    <2>6. CASE \E k \in Jobs, n \in Numbers, retry \in Time \cup {NoValue} : FailJob(k, n, retry)
      BY <2>6 DEF FailJob
    <2>7. CASE QuarantineInterruptedJobs
      BY <2>7, Zenon DEF QuarantineInterruptedJobs
    <2>8. CASE \E k \in Jobs, n \in Numbers : RetryAttempt(k, n, FALSE)
      BY <2>8 DEF RetryAttempt
    <2>9. CASE \E k \in Jobs, n \in Numbers : QuarantineAttempt(k, n)
      BY <2>9 DEF QuarantineAttempt
    <2>10. CASE (\E m \in DesiredMode : SetDesiredMode(m)) \/ Tick \/ UNCHANGED storeVars
      BY <2>10 DEF SetDesiredMode, Tick, storeVars
    <2> QED
      BY <2>3, <2>4, <2>5, <2>6, <2>7, <2>8, <2>9, <2>10, Zenon DEF Next
  <1>2. Spec => []StoreInv
    BY InitInv, NextInv, PTL DEF Spec
  <1> QED BY <1>1, <1>2, PTL DEF Spec, CompletedIsFinal

\* Settling an attempt whose outcome is open settles it in the ledger.
LEMMA LedgerSettle ==
  ASSUME TypeOK, NEW j \in Jobs, NEW n \in Numbers, NEW o \in {"completed", "failed"},
         attempts[j][n] \in UnresolvedStatus, attempts' = [attempts EXCEPT ![j][n] = o]
  PROVE  Ledger!Next
  <1>1. AbstractOutcome[j][n] = "open"
    BY DEF AbstractOutcome
  <1>2. AbstractOutcome' = [AbstractOutcome EXCEPT ![j][n] = o]
    BY Zenon DEF AbstractOutcome, UnresolvedStatus, TypeOK
  <1> QED BY <1>1, <1>2, Zenon DEF Ledger!Next, Ledger!Settle, Numbers, Ledger!Numbers

\* Starting an attempt of a queued job while none is open begins it in the
\* ledger.
LEMMA LedgerBegin ==
  ASSUME StoreInv, NEW j \in Jobs, NEW w, NEW retry,
         Unresolved = {}, jobs[j].status = "queued", StartAttempt(j, w, retry)
  PROVE  Ledger!Next
  <1> DEFINE n == jobs[j].count + 1
  <1>0. TypeOK /\ RowsAgree(j)
    BY RowByRow DEF StoreInv
  <1>1. n \in Numbers /\ jobs[j].count \in Nat
    BY <1>0, JobStoreAssumption DEF StartAttempt, TypeOK, JobRow, Numbers
  <1>2. \A k \in Jobs, m \in Numbers : AbstractOutcome[k][m] # "open"
    <2> SUFFICES ASSUME NEW k \in Jobs, NEW m \in Numbers
                 PROVE  attempts[k][m] \notin UnresolvedStatus /\ attempts[k][m] # "open"
      BY DEF AbstractOutcome
    <2>1. <<k, m>> \in Jobs \X Numbers /\ <<k, m>> \notin Unresolved
      OBVIOUS
    <2>2. attempts[k][m] \notin UnresolvedStatus
      BY <2>1 DEF Unresolved
    <2> QED BY <1>0, <2>2 DEF TypeOK, AttemptStatus
  <1>3. \A m \in 1 .. (n - 1) : AbstractOutcome[j][m] = "failed"
    <2> SUFFICES ASSUME NEW m \in 1 .. (n - 1) PROVE attempts[j][m] = "failed" /\ m \in Numbers
      BY DEF AbstractOutcome, UnresolvedStatus
    <2>1. m \in Numbers /\ m <= jobs[j].count
      <3>1. m \in Nat /\ 1 <= m /\ m <= n - 1
        BY <1>1
      <3> QED BY <3>1, <1>1, JobStoreAssumption DEF Numbers
    <2>2. attempts[j][m] \in AttemptStatus \cup {"none"}
      BY <1>0, <2>1 DEF TypeOK
    <2>3. attempts[j][m] \notin {"none", "running", "completed", "unknown"}
      BY <1>0, <1>1, <2>1 DEF RowsAgree, Numbers
    <2> QED BY <2>1, <2>2, <2>3 DEF AttemptStatus
  <1>4. AbstractOutcome[j][n] = "none"
    BY <1>0, <1>1 DEF RowsAgree, AbstractOutcome, UnresolvedStatus
  <1>5. attempts' = [attempts EXCEPT ![j][n] = "running"]
    BY DEF StartAttempt
  <1>6. AbstractOutcome' = [AbstractOutcome EXCEPT ![j][n] = "open"]
    BY <1>0, <1>1, <1>5, Zenon DEF AbstractOutcome, UnresolvedStatus, TypeOK
  <1> HIDE DEF n
  <1>7. Ledger!Begin(j, n)
    BY <1>2, <1>3, <1>4, <1>6 DEF Ledger!Begin, Numbers, Ledger!Numbers
  <1> QED BY <1>1, <1>7 DEF Ledger!Next, Numbers, Ledger!Numbers

\* Every claim begins an attempt of the ledger and every settlement settles
\* it; losing an outcome and relabelling a job are invisible there.
LEMMA LedgerStep ==
    StoreInv /\ [Next]_storeVars => [Ledger!Next]_AbstractOutcome
  <1> SUFFICES ASSUME StoreInv, [Next]_storeVars
               PROVE  [Ledger!Next]_AbstractOutcome
    OBVIOUS
  <1>0. TypeOK /\ (\A j \in Jobs : RowsAgree(j))
    BY RowByRow DEF StoreInv
  <1>1. ASSUME attempts' = attempts PROVE AbstractOutcome' = AbstractOutcome
    BY <1>1 DEF AbstractOutcome
  <1>2. ASSUME NEW j \in Jobs, NEW w \in WorkerIds, ClaimNextJob(j, w) PROVE Ledger!Next
    <2>1. /\ Unresolved = {} /\ jobs[j].status = "queued"
          /\ StartAttempt(j, w, jobs[j].nextRetry)
      BY <1>2 DEF ClaimNextJob, Oldest, Eligible
    <2> QED BY <2>1, LedgerBegin
  <1>3. CASE \E j \in Jobs, n \in Numbers, r \in Results : CompleteJob(j, n, r)
    BY <1>0, <1>3, LedgerSettle, Zenon DEF CompleteJob, UnresolvedStatus
  <1>4. CASE \E j \in Jobs, n \in Numbers, retry \in Time \cup {NoValue} : FailJob(j, n, retry)
    BY <1>0, <1>4, LedgerSettle, Zenon DEF FailJob, UnresolvedStatus
  <1>5. CASE QuarantineInterruptedJobs
    BY <1>0, <1>5, Zenon DEF QuarantineInterruptedJobs, AbstractOutcome, UnresolvedStatus
  <1>6. ASSUME NEW j \in Jobs, NEW n \in Numbers, QuarantineAttempt(j, n)
        PROVE  AbstractOutcome' = AbstractOutcome
    BY <1>0, <1>6 DEF QuarantineAttempt, AbstractOutcome, UnresolvedStatus, TypeOK
  <1>7. CASE \/ \E j \in Jobs : SubmitJob(j)
             \/ \E j \in Jobs, n \in Numbers : RetryAttempt(j, n, FALSE)
             \/ \E m \in DesiredMode : SetDesiredMode(m)
             \/ Tick
             \/ UNCHANGED storeVars
    BY <1>1, <1>7, Zenon DEF SubmitJob, RetryAttempt, SetDesiredMode, Tick, storeVars
  <1> QED BY <1>2, <1>3, <1>4, <1>5, <1>6, <1>7, Zenon DEF Next

\* The initial store maps to the empty ledger.
LEMMA LedgerInit == StoreInit => Ledger!Init
  BY DEF StoreInit, Ledger!Init, AbstractOutcome, UnresolvedStatus, Numbers, Ledger!Numbers

\* The job queue implements the attempt ledger.
THEOREM StoreImplementsLedger == Spec => ImplementsAttemptLedger
  <1>1. Spec => []StoreInv
    BY InitInv, NextInv, PTL DEF Spec
  <1> QED BY <1>1, LedgerInit, LedgerStep, PTL DEF Spec, ImplementsAttemptLedger, Ledger!Spec

-----------------------------------------------------------------------------
(* The worker half. *)

\* What one handoff row says about the rows of its job, in inductive form.
HandoffAgrees(j, n) ==
    handoffs[j][n].state # "none" =>
       /\ jobs[j].count = n
       /\ jobs[j].status \notin {"absent", "queued"}
       /\ handoffs[j][n].state \in Nonterminal =>
             /\ \/ jobs[j].status = "running" /\ attempts[j][n] = "running"
                \/ jobs[j].status = "quarantined" /\ attempts[j][n] = "unknown"
             /\ jobs[j].result = NoValue
             /\ jobs[j].worker = Owner
       /\ handoffs[j][n].state \notin Nonterminal =>
             /\ handoffs[j][n].receipt \in Receipt
             /\ attempts[j][n] = handoffs[j][n].receipt.status
             /\ jobs[j].result = handoffs[j][n].receipt.result

\* A job that has not settled carries no result: a claim does not clear it.
NoEarlyResult(j) ==
    jobs[j].status \in {"absent", "queued", "running"} => jobs[j].result = NoValue

HandoffInv ==
    /\ StoreInv
    /\ HandoffTypeOK
    /\ \A j \in Jobs : NoEarlyResult(j)
    /\ \A j \in Jobs, n \in Numbers : HandoffAgrees(j, n)

\* The initial store satisfies the invariant.
LEMMA HandoffInitInv == HandoffInit => HandoffInv
  <1> SUFFICES ASSUME HandoffInit PROVE HandoffInv
    OBVIOUS
  <1>1. StoreInv
    BY InitInv DEF HandoffInit
  <1>2. NoHandoff \in HandoffRow
    BY JobStoreAssumption DEF NoHandoff, HandoffRow, Time
  <1>3. HandoffTypeOK
    BY <1>2, JobStoreAssumption DEF HandoffInit, HandoffTypeOK, Time
  <1>4. \A j \in Jobs : NoEarlyResult(j)
    BY DEF HandoffInit, StoreInit, NoEarlyResult, NoJob
  <1>5. \A j \in Jobs, n \in Numbers : HandoffAgrees(j, n)
    BY DEF HandoffInit, HandoffAgrees, NoHandoff
  <1> QED BY <1>1, <1>3, <1>4, <1>5 DEF HandoffInv

\* A step of the job queue that rewrites one job which was never handed to
\* the worker keeps the agreement of every handoff.
LEMMA UnhandedStep ==
  ASSUME HandoffInv, StoreInv', NEW j \in Jobs,
         UNCHANGED <<handoffs, control>>, now' \in Time,
         \A n \in Numbers : handoffs[j][n].state = "none",
         \A k \in Jobs \ {j} : jobs'[k] = jobs[k] /\ attempts'[k] = attempts[k],
         NoEarlyResult(j)'
  PROVE  HandoffInv'
  <1>1. HandoffTypeOK'
    BY DEF HandoffInv, HandoffTypeOK
  <1>2. ASSUME NEW k \in Jobs PROVE NoEarlyResult(k)'
    BY DEF HandoffInv, NoEarlyResult
  <1>3. ASSUME NEW k \in Jobs, NEW n \in Numbers PROVE HandoffAgrees(k, n)'
    <2>1. CASE k = j
      BY <2>1 DEF HandoffAgrees
    <2>2. CASE k # j
      <3>1. jobs'[k] = jobs[k] /\ attempts'[k] = attempts[k] /\ HandoffAgrees(k, n)
        BY <2>2 DEF HandoffInv
      <3> QED BY <3>1 DEF HandoffAgrees
    <2> QED BY <2>1, <2>2
  <1> QED BY <1>1, <1>2, <1>3 DEF HandoffInv

\* An operator quarantine keeps the agreement: it loses the outcome of an
\* open handoff and leaves what a failed one recorded.
LEMMA QuarantineKeepsHandoffs ==
  ASSUME HandoffInv, StoreInv', NEW j \in Jobs, NEW n \in Numbers,
         QuarantineAttempt(j, n), UNCHANGED <<handoffs, control>>
  PROVE  HandoffInv'
  <1>1. HandoffTypeOK'
    BY DEF HandoffInv, HandoffTypeOK
  <1>2. /\ jobs'[j].status = "quarantined" /\ jobs'[j].count = jobs[j].count
        /\ jobs'[j].result = jobs[j].result /\ jobs'[j].worker = jobs[j].worker
        /\ \A k \in Jobs \ {j} : jobs'[k] = jobs[k]
    BY DEF QuarantineAttempt, HandoffInv, StoreInv, TypeOK, JobRow
  <1>3. /\ attempts'[j][n] = IF attempts[j][n] = "running" THEN "unknown" ELSE attempts[j][n]
        /\ \A k \in Jobs \ {j} : attempts'[k] = attempts[k]
    BY DEF QuarantineAttempt, HandoffInv, StoreInv, TypeOK
  <1>4. n = jobs[j].count
    <2>1. TypeOK /\ RowsAgree(j) /\ IsLatest(j, n)
      BY RowByRow DEF HandoffInv, StoreInv, QuarantineAttempt
    <2> QED BY <2>1, LatestIsCount
  <1>5. ASSUME NEW k \in Jobs PROVE NoEarlyResult(k)'
    BY <1>2 DEF HandoffInv, NoEarlyResult
  <1>6. ASSUME NEW k \in Jobs, NEW m \in Numbers PROVE HandoffAgrees(k, m)'
    <2>1. HandoffAgrees(k, m)
      BY DEF HandoffInv
    <2>2. CASE k # j
      BY <1>2, <1>3, <2>1, <2>2 DEF HandoffAgrees
    <2>3. CASE k = j /\ m # n
      BY <1>2, <1>4, <2>1, <2>3 DEF HandoffAgrees
    <2>4. CASE k = j /\ m = n
      <3>1. jobs[j].status \in {"running", "failed"}
        BY DEF QuarantineAttempt
      <3>2. attempts[j][n] = "running" => jobs[j].status = "running"
        BY RowByRow DEF HandoffInv, StoreInv, RowsAgree
      <3>3. handoffs[j][n].receipt \in Receipt => handoffs[j][n].receipt.status # "running"
        BY DEF Receipt
      <3> QED BY <1>2, <1>3, <2>1, <2>4, <3>1, <3>2, <3>3 DEF HandoffAgrees
    <2> QED BY <2>2, <2>3, <2>4
  <1> QED BY <1>1, <1>5, <1>6 DEF HandoffInv

\* The restart quarantine loses the outcome of the open handoff, if any.
LEMMA InterruptionKeepsHandoffs ==
  ASSUME HandoffInv, StoreInv', QuarantineInterruptedJobs, UNCHANGED <<handoffs, control>>
  PROVE  HandoffInv'
  <1>1. HandoffTypeOK'
    BY Zenon DEF HandoffInv, HandoffTypeOK, QuarantineInterruptedJobs
  <1>2. \A k \in Jobs :
           /\ jobs'[k].status = IF jobs[k].status = "running" THEN "quarantined" ELSE jobs[k].status
           /\ jobs'[k].count = jobs[k].count /\ jobs'[k].result = jobs[k].result
           /\ jobs'[k].worker = jobs[k].worker
    BY Zenon DEF QuarantineInterruptedJobs, HandoffInv, StoreInv, TypeOK, JobRow
  <1>3. \A k \in Jobs, m \in Numbers :
           attempts'[k][m] = IF attempts[k][m] = "running" THEN "unknown" ELSE attempts[k][m]
    BY RowByRow, Zenon DEF QuarantineInterruptedJobs, HandoffInv, StoreInv, RowsAgree
  <1>5. ASSUME NEW k \in Jobs PROVE NoEarlyResult(k)'
    BY <1>2 DEF HandoffInv, NoEarlyResult
  <1>6. ASSUME NEW k \in Jobs, NEW m \in Numbers PROVE HandoffAgrees(k, m)'
    <2>1. HandoffAgrees(k, m)
      BY DEF HandoffInv
    <2>2. handoffs[k][m].receipt \in Receipt => handoffs[k][m].receipt.status # "running"
      BY DEF Receipt
    <2> QED BY <1>2, <1>3, <2>1, <2>2 DEF HandoffAgrees
  <1> QED BY <1>1, <1>5, <1>6 DEF HandoffInv

\* The job queue's own transactions.
LEMMA JobStepInv == HandoffInv /\ JobStep => HandoffInv'
  <1> SUFFICES ASSUME HandoffInv, JobStep PROVE HandoffInv'
    OBVIOUS
  <1>0. StoreInv /\ TypeOK /\ (\A j \in Jobs : RowsAgree(j)) /\ UNCHANGED <<handoffs, control>>
    BY Zenon, RowByRow DEF HandoffInv, StoreInv, JobStep
  <1>1. Next
    BY Zenon DEF JobStep, Next, RetryAttempt
  <1>2. StoreInv' /\ now' \in Time
    BY <1>0, <1>1, NextInv DEF StoreInv, TypeOK
  <1>3. ASSUME NEW j \in Jobs, jobs[j].status \in {"absent", "queued"}
        PROVE  \A n \in Numbers : handoffs[j][n].state = "none"
    BY <1>3 DEF HandoffInv, HandoffAgrees
  <1>4. ASSUME NEW j \in Jobs, NEW n \in Numbers, attempts[j][n] = "running",
               handoffs[j][n].state = "none"
        PROVE  \A m \in Numbers : handoffs[j][m].state = "none"
    <2>1. n = jobs[j].count
      BY <1>0, <1>4 DEF RowsAgree
    <2> QED BY <1>4, <2>1 DEF HandoffInv, HandoffAgrees
  <1>5. ASSUME NEW j \in Jobs, SubmitJob(j) PROVE HandoffInv'
    <2>1. jobs[j].status = "absent" /\ jobs'[j].result = NoValue
          /\ (\A k \in Jobs \ {j} : jobs'[k] = jobs[k]) /\ attempts' = attempts
      BY <1>0, <1>5 DEF SubmitJob, TypeOK, NoJob
    <2>2. NoEarlyResult(j)'
      BY <2>1 DEF NoEarlyResult
    <2> QED BY <1>0, <1>2, <1>3, <2>1, <2>2, UnhandedStep
  <1>6. ASSUME NEW j \in Jobs, NEW w \in WorkerIds, ClaimNextJob(j, w) PROVE HandoffInv'
    <2>1. jobs[j].status = "queued" /\ StartAttempt(j, w, jobs[j].nextRetry)
      BY <1>6 DEF ClaimNextJob, Oldest, Eligible
    <2>2. jobs'[j].result = jobs[j].result
          /\ (\A k \in Jobs \ {j} : jobs'[k] = jobs[k] /\ attempts'[k] = attempts[k])
      BY <1>0, <2>1 DEF StartAttempt, TypeOK, JobRow
    <2>3. NoEarlyResult(j)'
      BY <2>1, <2>2 DEF NoEarlyResult, HandoffInv
    <2> QED BY <1>0, <1>2, <1>3, <2>1, <2>2, <2>3, UnhandedStep
  <1>7. ASSUME NEW j \in Jobs, NEW n \in Numbers, NEW r \in Results,
               handoffs[j][n].state = "none", CompleteJob(j, n, r)
        PROVE  HandoffInv'
    <2>1. attempts[j][n] = "running" /\ jobs'[j].status = "completed"
          /\ (\A k \in Jobs \ {j} : jobs'[k] = jobs[k] /\ attempts'[k] = attempts[k])
      BY <1>0, <1>7 DEF CompleteJob, TypeOK, JobRow
    <2>2. NoEarlyResult(j)'
      BY <2>1 DEF NoEarlyResult
    <2> QED BY <1>0, <1>2, <1>4, <1>7, <2>1, <2>2, UnhandedStep
  <1>8. ASSUME NEW j \in Jobs, NEW n \in Numbers, NEW retry \in Time \cup {NoValue},
               handoffs[j][n].state = "none", FailJob(j, n, retry)
        PROVE  HandoffInv'
    <2>1. attempts[j][n] = "running" /\ jobs[j].status = "running"
          /\ jobs'[j].result = jobs[j].result
          /\ (\A k \in Jobs \ {j} : jobs'[k] = jobs[k] /\ attempts'[k] = attempts[k])
      BY <1>0, <1>8 DEF FailJob, TypeOK, JobRow
    <2>2. NoEarlyResult(j)'
      BY <2>1 DEF NoEarlyResult, HandoffInv
    <2> QED BY <1>0, <1>2, <1>4, <1>8, <2>1, <2>2, UnhandedStep
  <1>9. ASSUME NEW j \in Jobs, NEW n \in Numbers, RetryAttempt(j, n, HandedOff(j))
        PROVE  HandoffInv'
    <2>1. (\A m \in Numbers : handoffs[j][m].state = "none") /\ jobs'[j].result = NoValue
          /\ (\A k \in Jobs \ {j} : jobs'[k] = jobs[k]) /\ attempts' = attempts
      BY <1>0, <1>9 DEF RetryAttempt, HandedOff, TypeOK, JobRow
    <2>2. NoEarlyResult(j)'
      BY <2>1 DEF NoEarlyResult
    <2> QED BY <1>0, <1>2, <2>1, <2>2, UnhandedStep
  <1>10. CASE (\E m \in DesiredMode : SetDesiredMode(m)) \/ Tick
    <2>1. jobs' = jobs /\ attempts' = attempts
      BY <1>10 DEF SetDesiredMode, Tick
    <2>2. HandoffTypeOK' /\ (\A j \in Jobs : NoEarlyResult(j)')
          /\ (\A j \in Jobs, n \in Numbers : HandoffAgrees(j, n)')
      BY <1>0, <2>1 DEF HandoffInv, HandoffTypeOK, NoEarlyResult, HandoffAgrees
    <2> QED BY <1>2, <2>2 DEF HandoffInv
  <1> QED
    BY <1>0, <1>2, <1>5, <1>6, <1>7, <1>8, <1>9, <1>10,
       QuarantineKeepsHandoffs, InterruptionKeepsHandoffs, Zenon DEF JobStep

\* A transaction that moves one handoff forward and touches no other row
\* keeps the invariant when it stays open, or stays terminal.
LEMMA AdvanceRowInv ==
  ASSUME HandoffInv, NEW j \in Jobs, NEW n \in Numbers, NEW s \in HandoffState,
         UNCHANGED <<jobs, attempts, desiredMode, now, control>>,
         handoffs[j][n].state \in HandoffState,
         (s \in Nonterminal) = (handoffs[j][n].state \in Nonterminal),
         handoffs' = [handoffs EXCEPT ![j][n] = [@ EXCEPT !.state = s, !.at = now]]
  PROVE  HandoffInv'
  <1>1. StoreInv'
    <2>1. UNCHANGED storeVars
      BY DEF storeVars
    <2> QED BY <2>1, NextInv DEF HandoffInv
  <1>2. [handoffs[j][n] EXCEPT !.state = s, !.at = now] \in HandoffRow
    <2>1. handoffs[j][n] \in HandoffRow /\ now \in Time
      BY DEF HandoffInv, HandoffTypeOK, StoreInv, TypeOK
    <2> QED BY <2>1, Zenon DEF HandoffRow
  <1>3. HandoffTypeOK'
    BY <1>2 DEF HandoffInv, HandoffTypeOK
  <1>4. /\ handoffs'[j][n].state = s /\ handoffs'[j][n].receipt = handoffs[j][n].receipt
        /\ \A k \in Jobs, m \in Numbers : k # j \/ m # n => handoffs'[k][m] = handoffs[k][m]
    BY DEF HandoffInv, HandoffTypeOK, HandoffRow
  <1>5. \A k \in Jobs : NoEarlyResult(k)'
    BY DEF HandoffInv, NoEarlyResult
  <1>6. ASSUME NEW k \in Jobs, NEW m \in Numbers PROVE HandoffAgrees(k, m)'
    <2>1. HandoffAgrees(k, m) /\ s # "none"
      BY DEF HandoffInv, HandoffState
    <2>2. CASE k = j /\ m = n
      BY <1>4, <2>1, <2>2 DEF HandoffAgrees, HandoffState
    <2>3. CASE ~(k = j /\ m = n)
      BY <1>4, <2>1, <2>3 DEF HandoffAgrees
    <2> QED BY <2>2, <2>3
  <1> QED BY <1>1, <1>3, <1>5, <1>6 DEF HandoffInv

\* A worker claim: the new handoff agrees with the attempt it is bound to.
LEMMA ClaimHandoffInv ==
  ASSUME HandoffInv, NEW j \in Jobs, NEW w \in Witness, ClaimNextWorkerHandoff(j, w)
  PROVE  HandoffInv'
  <1> DEFINE n == jobs[j].count + 1
  <1>0. StoreInv /\ TypeOK /\ HandoffTypeOK /\ StartAttempt(j, Owner, NoValue)
        /\ Unresolved = {} /\ jobs[j].status = "queued"
    BY DEF HandoffInv, StoreInv, ClaimNextWorkerHandoff, Oldest, Eligible
  <1>1. n \in Numbers /\ jobs[j].count \in Nat
    BY <1>0, JobStoreAssumption DEF StartAttempt, TypeOK, JobRow, Numbers
  <1>2. n \in 0 .. MaxAttempts
    BY <1>1, JobStoreAssumption DEF Numbers
  <1>3. [jobs[j] EXCEPT !.status = "running", !.worker = Owner, !.count = n,
                        !.nextRetry = NoValue] \in JobRow
    BY <1>0, <1>2, HandoffAssumption, Zenon DEF TypeOK, JobRow, JobStatus
  <1>4. jobs' = [jobs EXCEPT ![j] = [jobs[j] EXCEPT !.status = "running", !.worker = Owner,
                                       !.count = n, !.nextRetry = NoValue]]
        /\ attempts' = [attempts EXCEPT ![j][n] = "running"]
    BY <1>0 DEF StartAttempt, TypeOK
  <1>5. TypeOK'
    BY <1>0, <1>1, <1>3, <1>4 DEF ClaimNextWorkerHandoff, TypeOK, AttemptStatus
  <1>6. StoreInv'
    BY <1>0, <1>5, StartAttemptInv, Zenon
  <1>7. [state |-> "prepared", by |-> w, receipt |-> NoValue, at |-> now] \in HandoffRow
    BY <1>0 DEF HandoffRow, HandoffState, TypeOK
  <1>8. HandoffTypeOK'
    BY <1>0, <1>1, <1>7, Zenon DEF ClaimNextWorkerHandoff, HandoffTypeOK
  <1>9. /\ jobs'[j].status = "running" /\ jobs'[j].count = n /\ jobs'[j].worker = Owner
        /\ jobs'[j].result = jobs[j].result
        /\ \A k \in Jobs \ {j} : jobs'[k] = jobs[k] /\ attempts'[k] = attempts[k]
        /\ attempts'[j][n] = "running"
    BY <1>0, <1>1, <1>4 DEF TypeOK, JobRow
  <1>10. /\ handoffs'[j][n].state = "prepared"
         /\ \A k \in Jobs, m \in Numbers : k # j \/ m # n => handoffs'[k][m] = handoffs[k][m]
    BY <1>0, <1>1, Zenon DEF ClaimNextWorkerHandoff, HandoffTypeOK
  <1>11. jobs[j].result = NoValue
    BY <1>0, Zenon DEF HandoffInv, NoEarlyResult
  <1>12. ASSUME NEW k \in Jobs PROVE NoEarlyResult(k)'
    BY <1>9, <1>11, Zenon DEF HandoffInv, NoEarlyResult
  <1>13. ASSUME NEW k \in Jobs, NEW m \in Numbers PROVE HandoffAgrees(k, m)'
    <2>1. HandoffAgrees(k, m)
      BY DEF HandoffInv
    <2>2. CASE k # j
      BY <1>9, <1>10, <2>1, <2>2, Zenon DEF HandoffAgrees
    <2>3. CASE k = j /\ m # n
      BY <1>0, <1>10, <2>1, <2>3, Zenon DEF HandoffAgrees
    <2>4. CASE k = j /\ m = n
      BY <1>9, <1>10, <1>11, <2>4, Zenon DEF HandoffAgrees, Nonterminal
    <2> QED BY <2>2, <2>3, <2>4
  <1> QED BY <1>6, <1>8, <1>12, <1>13 DEF HandoffInv

\* A terminal report: job, attempt and handoff settle in one transaction.
LEMMA CompleteHandoffInv ==
  ASSUME HandoffInv, NEW j \in Jobs, NEW n \in Numbers, NEW r \in Receipt,
         NEW w, CompleteHandoff(j, n, r, w)
  PROVE  HandoffInv'
  <1>0. StoreInv /\ TypeOK /\ HandoffTypeOK /\ HandoffAgrees(j, n)
    BY DEF HandoffInv, StoreInv
  <1>1. r.status \in {"completed", "failed"} /\ r.result \in Results
    BY DEF Receipt
  <1>2. /\ handoffs[j][n].state \in Nonterminal /\ handoffs[j][n].state # "none"
        /\ attempts[j][n] \in UnresolvedStatus
    BY <1>0 DEF CompleteHandoff, HandoffAgrees, Nonterminal, UnresolvedStatus
  <1> DEFINE row == [jobs[j] EXCEPT
                       !.status = r.status,
                       !.result = r.result,
                       !.lastError = IF r.status = "completed" THEN "none" ELSE "terminal",
                       !.worker = IF r.status = "completed" THEN jobs[j].worker ELSE NoValue]
  <1>3. row \in JobRow
    BY ZenonT(60), <1>0, <1>1 DEF TypeOK, JobRow, JobStatus, LastError
  <1>4. jobs' = [jobs EXCEPT ![j] = row] /\ attempts' = [attempts EXCEPT ![j][n] = r.status]
    BY <1>0 DEF CompleteHandoff, TypeOK
  <1>5. /\ row.status = r.status /\ row.result = r.result /\ row.count = jobs[j].count
    BY <1>0 DEF TypeOK, JobRow
  <1> HIDE DEF row
  <1>6. TypeOK'
    BY <1>0, <1>1, <1>3, <1>4 DEF CompleteHandoff, TypeOK, AttemptStatus
  <1>7. /\ jobs'[j] = row
        /\ \A k \in Jobs \ {j} : jobs'[k] = jobs[k] /\ attempts'[k] = attempts[k]
        /\ attempts'[j][n] = r.status
    BY <1>0, <1>4 DEF TypeOK
  <1>8. StoreInv'
    BY <1>0, <1>1, <1>2, <1>4, <1>5, <1>6, <1>7, SettleInv, Zenon
  <1>9. [handoffs[j][n] EXCEPT !.state = r.status, !.receipt = r, !.at = now] \in HandoffRow
    <2>1. handoffs[j][n] \in HandoffRow /\ now \in Time /\ r.status \in HandoffState
      BY <1>0, <1>1 DEF HandoffTypeOK, TypeOK, HandoffState
    <2> QED BY <2>1, Zenon DEF HandoffRow
  <1>10. HandoffTypeOK'
    BY <1>0, <1>9 DEF CompleteHandoff, HandoffTypeOK
  <1>11. /\ handoffs'[j][n].state = r.status /\ handoffs'[j][n].receipt = r
         /\ \A k \in Jobs, m \in Numbers : k # j \/ m # n => handoffs'[k][m] = handoffs[k][m]
    BY <1>0 DEF CompleteHandoff, HandoffTypeOK, HandoffRow
  <1>12. ASSUME NEW k \in Jobs PROVE NoEarlyResult(k)'
    BY <1>1, <1>5, <1>7 DEF HandoffInv, NoEarlyResult
  <1>13. ASSUME NEW k \in Jobs, NEW m \in Numbers PROVE HandoffAgrees(k, m)'
    <2>1. HandoffAgrees(k, m)
      BY DEF HandoffInv
    <2>2. CASE k # j
      BY <1>7, <1>11, <2>1, <2>2, Zenon DEF HandoffAgrees
    <2>3. CASE k = j /\ m # n
      BY <1>0, <1>2, <1>11, <2>1, <2>3, Zenon DEF HandoffAgrees
    <2>4. CASE k = j /\ m = n
      BY <1>0, <1>1, <1>2, <1>5, <1>7, <1>11, <2>4, Zenon DEF HandoffAgrees, Nonterminal
    <2> QED BY <2>2, <2>3, <2>4
  <1> QED BY <1>8, <1>10, <1>12, <1>13 DEF HandoffInv

\* Every step of the store keeps the invariant.
LEMMA HandoffNextInv == HandoffInv /\ [HandoffNext]_handoffVars => HandoffInv'
  <1> SUFFICES ASSUME HandoffInv, [HandoffNext]_handoffVars PROVE HandoffInv'
    OBVIOUS
  <1>1. CASE JobStep
    BY <1>1, JobStepInv
  <1>2. ASSUME UNCHANGED <<jobs, attempts, desiredMode, now, handoffs>>, HandoffTypeOK'
        PROVE  HandoffInv'
    <2>1. StoreInv'
      <3>1. UNCHANGED storeVars
        BY <1>2 DEF storeVars
      <3> QED BY <3>1, NextInv DEF HandoffInv
    <2>2. ASSUME NEW j \in Jobs PROVE NoEarlyResult(j)'
      <3>1. NoEarlyResult(j)
        BY Zenon DEF HandoffInv
      <3>2. jobs' = jobs
        BY <1>2, Zenon
      <3> QED BY <3>1, <3>2, Zenon DEF NoEarlyResult
    <2>3. ASSUME NEW j \in Jobs, NEW n \in Numbers PROVE HandoffAgrees(j, n)'
      <3>1. HandoffAgrees(j, n)
        BY Zenon DEF HandoffInv
      <3>2. jobs' = jobs /\ attempts' = attempts /\ handoffs' = handoffs
        BY <1>2, Zenon
      <3> QED BY <3>1, <3>2, Zenon DEF HandoffAgrees
    <2> QED BY <1>2, <2>1, <2>2, <2>3, Zenon DEF HandoffInv
  <1>3. ASSUME NEW w \in Witness, SetWorkerControl(w) PROVE HandoffInv'
    <2>1. HandoffTypeOK'
      BY <1>3 DEF SetWorkerControl, HandoffInv, HandoffTypeOK, StoreInv, TypeOK
    <2> QED BY <1>2, <1>3, <2>1 DEF SetWorkerControl
  <1>4. ASSUME NEW j \in Jobs, NEW w \in Witness, ClaimNextWorkerHandoff(j, w)
        PROVE  HandoffInv'
    BY <1>4, ClaimHandoffInv
  <1>5. ASSUME NEW j \in Jobs, NEW n \in Numbers, MarkDispatched(j, n) PROVE HandoffInv'
    <2>1. /\ handoffs[j][n].state \in {"prepared"}
          /\ UNCHANGED <<jobs, attempts, desiredMode, now, control>>
          /\ handoffs' = [handoffs EXCEPT ![j][n] = [@ EXCEPT !.state = "may_have_been_dispatched", !.at = now]]
      BY <1>5 DEF MarkDispatched
    <2>2. /\ "may_have_been_dispatched" \in HandoffState /\ handoffs[j][n].state \in HandoffState
          /\ ("may_have_been_dispatched" \in Nonterminal) = (handoffs[j][n].state \in Nonterminal)
      BY <2>1 DEF HandoffState, Nonterminal
    <2> QED BY <2>1, <2>2, AdvanceRowInv, Zenon
  <1>6. ASSUME NEW j \in Jobs, NEW n \in Numbers, MarkAdmitted(j, n) PROVE HandoffInv'
    <2>1. /\ handoffs[j][n].state \in {"may_have_been_dispatched"}
          /\ UNCHANGED <<jobs, attempts, desiredMode, now, control>>
          /\ handoffs' = [handoffs EXCEPT ![j][n] = [@ EXCEPT !.state = "admitted", !.at = now]]
      BY <1>6 DEF MarkAdmitted
    <2>2. /\ "admitted" \in HandoffState /\ handoffs[j][n].state \in HandoffState
          /\ ("admitted" \in Nonterminal) = (handoffs[j][n].state \in Nonterminal)
      BY <2>1 DEF HandoffState, Nonterminal
    <2> QED BY <2>1, <2>2, AdvanceRowInv, Zenon
  <1>7. ASSUME NEW j \in Jobs, NEW n \in Numbers, NEW r \in Receipt,
               NEW w, CompleteHandoff(j, n, r, w)
        PROVE  HandoffInv'
    BY <1>7, CompleteHandoffInv
  <1>8. ASSUME NEW j \in Jobs, NEW n \in Numbers, NEW r, NEW w, AcknowledgeHandoff(j, n, r, w)
        PROVE  HandoffInv'
    <2>1. /\ handoffs[j][n].state \in {"completed", "failed"}
          /\ UNCHANGED <<jobs, attempts, desiredMode, now, control>>
          /\ handoffs' = [handoffs EXCEPT ![j][n] = [@ EXCEPT !.state = "acknowledged", !.at = now]]
      BY <1>8 DEF AcknowledgeHandoff
    <2>2. /\ "acknowledged" \in HandoffState /\ handoffs[j][n].state \in HandoffState
          /\ ("acknowledged" \in Nonterminal) = (handoffs[j][n].state \in Nonterminal)
      BY <2>1 DEF HandoffState, Nonterminal
    <2> QED BY <2>1, <2>2, AdvanceRowInv, Zenon
  <1>9. CASE UNCHANGED handoffVars
    BY <1>2, <1>9 DEF handoffVars, HandoffInv, HandoffTypeOK
  <1> QED
    BY <1>1, <1>3, <1>4, <1>5, <1>6, <1>7, <1>8, <1>9 DEF HandoffNext, HandoffStep

\* The invariant implies what the properties say of the handoffs.
LEMMA HandoffInvImplies ==
    HandoffInv => OpenHandoffsLoad /\ HandedOffOnce /\ OutcomeMatchesReceipt
  <1> SUFFICES ASSUME HandoffInv
               PROVE  OpenHandoffsLoad /\ HandedOffOnce /\ OutcomeMatchesReceipt
    OBVIOUS
  <1>1. ASSUME NEW a \in Rows
        PROVE  HandoffAgrees(a[1], a[2]) /\ handoffs[a[1]][a[2]].state # "none"
    <2>1. a \in Jobs \X Numbers /\ handoffs[a[1]][a[2]].state # "none"
      BY Zenon DEF Rows
    <2>2. a[1] \in Jobs /\ a[2] \in Numbers
      BY <2>1
    <2> QED BY <2>1, <2>2, Zenon DEF HandoffInv
  <1>2. OpenHandoffsLoad
    <2> SUFFICES ASSUME NEW a \in UnresolvedHandoffs PROVE ValidHandoff(a[1], a[2])
      BY Zenon DEF OpenHandoffsLoad
    <2>1. a \in Rows /\ handoffs[a[1]][a[2]].state \in Nonterminal
      BY Zenon DEF UnresolvedHandoffs
    <2> QED BY <1>1, <2>1, Zenon DEF HandoffAgrees, ValidHandoff
  <1>3. HandedOffOnce
    BY <1>1, Zenon DEF HandedOffOnce, HandoffAgrees
  <1>4. OutcomeMatchesReceipt
    BY <1>1, Zenon DEF OutcomeMatchesReceipt, HandoffAgrees
  <1> QED BY <1>2, <1>3, <1>4, Zenon

\* For every number of jobs, attempts, boots and control sequences, and any
\* order of calls: one reservation, open handoffs that always load, one
\* handoff per job, and terminal receipts that match the job they settled.
THEOREM HandoffStoreCorrect ==
    HandoffSpec => [](/\ TypeOK /\ HandoffTypeOK /\ SingleReservation
                      /\ OpenHandoffsLoad /\ HandedOffOnce /\ OutcomeMatchesReceipt)
  <1>1. HandoffInv => /\ TypeOK /\ HandoffTypeOK /\ SingleReservation
                      /\ OpenHandoffsLoad /\ HandedOffOnce /\ OutcomeMatchesReceipt
    BY HandoffInvImplies DEF HandoffInv, StoreInv
  <1> QED BY <1>1, HandoffInitInv, HandoffNextInv, PTL DEF HandoffSpec

\* With the worker's transactions the store still implements the attempt
\* ledger: a worker claim begins, and a terminal report settles, an attempt.
THEOREM HandoffStoreImplementsLedger == HandoffSpec => ImplementsAttemptLedger
  <1>1. HandoffInit => Ledger!Init
    BY LedgerInit DEF HandoffInit
  <1>2. HandoffInv /\ [HandoffNext]_handoffVars => [Ledger!Next]_AbstractOutcome
    <2> SUFFICES ASSUME HandoffInv, [HandoffNext]_handoffVars
                 PROVE  [Ledger!Next]_AbstractOutcome
      OBVIOUS
    <2>1. CASE JobStep
      <3>1. Next
        BY <2>1, Zenon DEF JobStep, Next, RetryAttempt
      <3> QED BY <3>1, LedgerStep DEF HandoffInv
    <2>2. ASSUME attempts' = attempts PROVE AbstractOutcome' = AbstractOutcome
      BY <2>2 DEF AbstractOutcome
    <2>3. ASSUME NEW j \in Jobs, NEW w \in Witness, ClaimNextWorkerHandoff(j, w)
          PROVE  Ledger!Next
      <3>1. /\ StoreInv /\ Unresolved = {} /\ jobs[j].status = "queued"
            /\ StartAttempt(j, Owner, NoValue)
        BY <2>3 DEF HandoffInv, ClaimNextWorkerHandoff, Oldest, Eligible
      <3> QED BY <3>1, LedgerBegin
    <2>4. ASSUME NEW j \in Jobs, NEW n \in Numbers, NEW r \in Receipt,
                 NEW w, CompleteHandoff(j, n, r, w)
          PROVE  Ledger!Next
      <3>1. TypeOK /\ r.status \in {"completed", "failed"}
        BY DEF HandoffInv, StoreInv, Receipt
      <3>2. attempts[j][n] \in UnresolvedStatus
        BY <2>4 DEF CompleteHandoff, HandoffInv, HandoffAgrees, Nonterminal, UnresolvedStatus
      <3>3. attempts' = [attempts EXCEPT ![j][n] = r.status]
        BY <2>4 DEF CompleteHandoff
      <3> QED BY <3>1, <3>2, <3>3, LedgerSettle, Zenon
    <2>5. CASE \/ \E w \in Witness : SetWorkerControl(w)
               \/ \E j \in Jobs, n \in Numbers : MarkDispatched(j, n) \/ MarkAdmitted(j, n)
               \/ \E j \in Jobs, n \in Numbers, r \in Receipt, w \in Witness \cup {NoValue} :
                     AcknowledgeHandoff(j, n, r, w)
               \/ UNCHANGED handoffVars
      BY <2>2, <2>5, Zenon DEF SetWorkerControl, MarkDispatched, MarkAdmitted, AcknowledgeHandoff,
                        handoffVars
    <2> QED BY <2>1, <2>3, <2>4, <2>5 DEF HandoffNext, HandoffStep
  <1>3. HandoffSpec => []HandoffInv
    BY HandoffInitInv, HandoffNextInv, PTL DEF HandoffSpec
  <1> QED BY <1>1, <1>2, <1>3, PTL DEF HandoffSpec, ImplementsAttemptLedger, Ledger!Spec

\* The moves a handoff row can make.
Move(j, n) ==
    LET old == handoffs[j][n]
        new == handoffs'[j][n] IN
    \/ new = old
    \/ old.state = "none" /\ new.state = "prepared" /\ new.receipt = NoValue
    \/ old.state = "prepared" /\ new.state = "may_have_been_dispatched"
       /\ new.receipt = old.receipt
    \/ old.state = "may_have_been_dispatched" /\ new.state = "admitted"
       /\ new.receipt = old.receipt
    \/ old.state \in {"may_have_been_dispatched", "admitted"}
       /\ new.state \in {"completed", "failed"}
    \/ old.state \in {"completed", "failed"} /\ new.state = "acknowledged"
       /\ new.receipt = old.receipt

\* A row without an outcome carries no receipt.
OpenNoReceipt ==
    \A j \in Jobs, n \in Numbers :
        handoffs[j][n].state \in Nonterminal \cup {"none"} => handoffs[j][n].receipt = NoValue

\* Every step moves every row by one of those moves.
LEMMA EveryStepMoves ==
  ASSUME HandoffInv, [HandoffNext]_handoffVars, NEW j \in Jobs, NEW n \in Numbers
  PROVE  Move(j, n)
  <1>0. HandoffTypeOK /\ TypeOK
    BY DEF HandoffInv, StoreInv
  <1>1. ASSUME handoffs' = handoffs PROVE Move(j, n)
    BY <1>1 DEF Move
  <1>2. ASSUME NEW k \in Jobs, NEW m \in Numbers, NEW row,
               handoffs' = [handoffs EXCEPT ![k][m] = row]
        PROVE  IF j = k /\ n = m THEN handoffs'[j][n] = row
                                 ELSE handoffs'[j][n] = handoffs[j][n]
    BY <1>0, <1>2 DEF HandoffTypeOK
  <1>3. ASSUME NEW k \in Jobs, NEW w \in Witness, ClaimNextWorkerHandoff(k, w)
        PROVE  Move(j, n)
    <2> DEFINE m == jobs[k].count + 1
               row == [state |-> "prepared", by |-> w, receipt |-> NoValue, at |-> now]
    <2>1. jobs[k].count \in 0 .. MaxAttempts /\ jobs[k].count < MaxAttempts
      BY <1>0, <1>3 DEF TypeOK, JobRow, ClaimNextWorkerHandoff, StartAttempt
    <2>2. m \in Numbers /\ jobs[k].count # m
      BY <2>1, JobStoreAssumption DEF Numbers
    <2>3. handoffs' = [handoffs EXCEPT ![k][m] = row]
      BY <1>3 DEF ClaimNextWorkerHandoff
    <2>4. row.state = "prepared" /\ row.receipt = NoValue
      OBVIOUS
    <2> HIDE DEF row, m
    <2>5. handoffs[k][m].state = "none"
      BY <2>2 DEF HandoffInv, HandoffAgrees
    <2> QED BY <1>2, <2>2, <2>3, <2>4, <2>5 DEF Move
  <1>4. ASSUME NEW k \in Jobs, NEW m \in Numbers, NEW s,
               handoffs' = [handoffs EXCEPT ![k][m] = [@ EXCEPT !.state = s, !.at = now]],
               <<handoffs[k][m].state, s>> \in
                 {<<"prepared", "may_have_been_dispatched">>,
                  <<"may_have_been_dispatched", "admitted">>,
                  <<"completed", "acknowledged">>, <<"failed", "acknowledged">>}
        PROVE  Move(j, n)
    <2> DEFINE row == [handoffs[k][m] EXCEPT !.state = s, !.at = now]
    <2>1. row.state = s /\ row.receipt = handoffs[k][m].receipt
      BY <1>0 DEF HandoffTypeOK, HandoffRow
    <2>2. handoffs' = [handoffs EXCEPT ![k][m] = row]
      BY <1>0, <1>4 DEF HandoffTypeOK
    <2> HIDE DEF row
    <2> QED BY <1>2, <1>4, <2>1, <2>2 DEF Move
  <1>5. ASSUME NEW k \in Jobs, NEW m \in Numbers, NEW r \in Receipt, NEW w,
               CompleteHandoff(k, m, r, w)
        PROVE  Move(j, n)
    <2> DEFINE row == [handoffs[k][m] EXCEPT !.state = r.status, !.receipt = r, !.at = now]
    <2>1. row.state = r.status /\ r.status \in {"completed", "failed"}
      BY <1>0 DEF HandoffTypeOK, HandoffRow, Receipt
    <2>2. handoffs' = [handoffs EXCEPT ![k][m] = row]
      BY <1>0, <1>5 DEF HandoffTypeOK, CompleteHandoff
    <2>3. handoffs[k][m].state \in {"may_have_been_dispatched", "admitted"}
      BY <1>5 DEF CompleteHandoff
    <2> HIDE DEF row
    <2> QED BY <1>2, <2>1, <2>2, <2>3 DEF Move
  <1>6. ASSUME NEW k \in Jobs, NEW m \in Numbers, MarkDispatched(k, m) PROVE Move(j, n)
    BY <1>4, <1>6, Zenon DEF MarkDispatched
  <1>7. ASSUME NEW k \in Jobs, NEW m \in Numbers, MarkAdmitted(k, m) PROVE Move(j, n)
    BY <1>4, <1>7, Zenon DEF MarkAdmitted
  <1>8. ASSUME NEW k \in Jobs, NEW m \in Numbers, NEW r, NEW w, AcknowledgeHandoff(k, m, r, w)
        PROVE  Move(j, n)
    BY <1>4, <1>8, Zenon DEF AcknowledgeHandoff
  <1>9. CASE JobStep \/ UNCHANGED handoffVars \/ \E w \in Witness : SetWorkerControl(w)
    BY <1>1, <1>9, Zenon DEF JobStep, handoffVars, SetWorkerControl
  <1> QED BY <1>3, <1>5, <1>6, <1>7, <1>8, <1>9 DEF HandoffNext, HandoffStep

\* A handoff never goes back, and its receipt is never replaced.
THEOREM HandoffsNeverGoBack == HandoffSpec => HandoffsOnlyAdvance
  <1>1. HandoffInit => OpenNoReceipt
    BY DEF HandoffInit, OpenNoReceipt, NoHandoff
  <1>2. HandoffInv /\ OpenNoReceipt /\ [HandoffNext]_handoffVars => OpenNoReceipt'
    <2> SUFFICES ASSUME HandoffInv, OpenNoReceipt, [HandoffNext]_handoffVars,
                        NEW j \in Jobs, NEW n \in Numbers,
                        handoffs'[j][n].state \in Nonterminal \cup {"none"}
                 PROVE  handoffs'[j][n].receipt = NoValue
      BY DEF OpenNoReceipt
    <2> QED BY EveryStepMoves DEF OpenNoReceipt, Move, Nonterminal
  <1>3. HandoffInv /\ OpenNoReceipt /\ [HandoffNext]_handoffVars =>
          [\A j \in Jobs, n \in Numbers :
              /\ handoffs'[j][n] # handoffs[j][n] =>
                    Rank[handoffs'[j][n].state] > Rank[handoffs[j][n].state]
              /\ handoffs[j][n].receipt # NoValue =>
                    handoffs'[j][n].receipt = handoffs[j][n].receipt]_handoffVars
    <2> SUFFICES ASSUME HandoffInv, OpenNoReceipt, [HandoffNext]_handoffVars,
                        NEW j \in Jobs, NEW n \in Numbers
                 PROVE  /\ handoffs'[j][n] # handoffs[j][n] =>
                              Rank[handoffs'[j][n].state] > Rank[handoffs[j][n].state]
                        /\ handoffs[j][n].receipt # NoValue =>
                              handoffs'[j][n].receipt = handoffs[j][n].receipt
      OBVIOUS
    <2>1. Move(j, n)
      BY EveryStepMoves
    <2>2. /\ Rank["none"] = 0 /\ Rank["prepared"] = 1
          /\ Rank["may_have_been_dispatched"] = 2 /\ Rank["admitted"] = 3
          /\ Rank["completed"] = 4 /\ Rank["failed"] = 4 /\ Rank["acknowledged"] = 5
      BY DEF Rank
    <2> QED BY SMTT(30), <2>1, <2>2 DEF Move, OpenNoReceipt, Nonterminal
  <1>4. HandoffSpec => []HandoffInv
    BY HandoffInitInv, HandoffNextInv, PTL DEF HandoffSpec
  <1> QED BY <1>1, <1>2, <1>3, <1>4, PTL DEF HandoffSpec, HandoffsOnlyAdvance

-----------------------------------------------------------------------------
(* The worker phases.  StartedOnce is not inductive: what keeps an attempt  *)
(* from being started twice is that a dispatch on its way belongs to a row  *)
(* that is marked and not started, and that no other dispatch of that row   *)
(* can be sent (LateInv, TargetInv).  NoStartAfterPause needs the order of  *)
(* boots and sequences (BootInv, ControlInv): a worker never stands behind  *)
(* the control row of the store.                                            *)

\* Where an exchange of the pass is on its way: the pass knows its worker.
Working == {"control", "persist", "lookup", "complete", "ack", "settle", "gate", "claim",
            "mark", "dispatch", "admit"}

\* What the supervisor's locals, the worker and a request look like.
SupRow == [pc : Place, me : Boots, child : BOOLEAN, phase : {"pre", "post"}, mode : DesiredMode,
           preFailed : BOOLEAN, skipPost : BOOLEAN, boot : Boots \cup {0},
           w : Witness \cup {NoValue}, target : Attempts \cup {NoValue},
           receipt : Receipt \cup {NoValue}]
WorkerRow == [boot : Boots \cup {0}, mode : DesiredMode, seq : Nat]
Request == [cmd : {"control"}, w : Witness]
           \cup [cmd : {"dispatch"}, a : Attempts, w : Witness]
           \cup [cmd : {"ack"}, a : Attempts]

\* The types of the pass, of the worker and of what is on its way.
PhaseTypeOK ==
    /\ sup \in SupRow /\ worker \in WorkerRow
    /\ episodes \in [Attempts -> Receipt \cup {Episode("none"), Episode("running")}]
    /\ runs \in [Attempts -> Nat]
    /\ acked \subseteq Attempts /\ late \subseteq Request /\ lastBoot \in Boots

\* Boot identities only grow, and the worker of an exchange is the one the
\* pass probed, or gone.
BootInv ==
    /\ sup.me <= lastBoot /\ sup.boot <= lastBoot /\ worker.boot <= lastBoot
    /\ (sup.pc \in Working) = (sup.boot # 0)
    /\ sup.boot # 0 => sup.boot > sup.me /\ worker.boot \in {0, sup.boot}
    /\ sup.child /\ worker.boot # 0 => worker.boot > sup.me
    /\ worker.boot = 0 => late = {}

\* The control row is never newer than what its worker accepted.
ControlInv ==
    /\ control.row # NoValue =>
          /\ control.row.wk <= lastBoot
          /\ worker.boot # 0 => control.row.wk <= worker.boot
          /\ sup.boot # 0 => control.row.wk <= sup.boot
          /\ worker.boot = control.row.wk => worker.seq >= control.row.seq
    /\ sup.pc = "persist" =>
          /\ sup.w \in Witness /\ sup.w.wk = sup.boot
          /\ worker.boot = sup.boot => worker.seq >= sup.w.seq
    /\ sup.pc = "lookup" => sup.w = control.row /\ control.row # NoValue
    /\ sup.pc = "claim" => control.row # NoValue

\* The control a handoff is bound to, and its recorded receipt.
By(a) == handoffs[a[1]][a[2]].by
Outcome(a) == handoffs[a[1]][a[2]].receipt

\* What is known of one attempt.
AttemptInv(a) ==
    /\ runs[a] <= 1 /\ (runs[a] = 0) = (episodes[a].status = "none")
    /\ State(a) \in {"none", "prepared"} => runs[a] = 0
    /\ State(a) \in {"admitted", "completed", "failed", "acknowledged"} => runs[a] = 1
    /\ episodes[a].status = "running" => State(a) \in {"may_have_been_dispatched", "admitted"}
    /\ State(a) \in {"completed", "failed", "acknowledged"} => Outcome(a) = episodes[a]
    /\ State(a) \notin {"completed", "failed", "acknowledged"} => Outcome(a) = NoValue
    /\ a \in acked => State(a) \in {"completed", "failed", "acknowledged"}
    /\ State(a) # "none" =>
          /\ By(a) \in Witness /\ By(a).mode = "Running" /\ control.row # NoValue
          /\ By(a).wk <= control.row.wk /\ By(a).seq <= control.row.seq
          /\ By(a).seq = control.row.seq => By(a) = control.row

\* What a request that was given up may still do.
LateInv(m) ==
    /\ m.cmd = "dispatch" =>
          /\ State(m.a) = "may_have_been_dispatched" /\ runs[m.a] = 0 /\ m.w = By(m.a)
          /\ ~(sup.pc = "dispatch" /\ sup.target = m.a)
    /\ m.cmd = "ack" => State(m.a) \in {"completed", "failed", "acknowledged"}

\* What the pass knows of the attempt it works on.
TargetInv ==
    LET a == sup.target IN
    /\ sup.pc \in {"mark", "dispatch", "admit", "complete", "ack", "settle"} => a \in Attempts
    /\ sup.pc \in {"dispatch", "admit"} =>
          State(a) = "may_have_been_dispatched" /\ By(a) = control.row
    /\ sup.pc = "dispatch" => runs[a] = 0
    /\ sup.pc = "admit" => runs[a] = 1
    /\ sup.pc = "complete" =>
          /\ sup.receipt \in Receipt /\ episodes[a] = sup.receipt
          /\ ValidHandoff(a[1], a[2]) /\ Authorised(a[1], a[2], sup.w)
          /\ State(a) \in {"may_have_been_dispatched", "admitted", "completed", "failed"}
    /\ sup.pc \in {"ack", "settle"} =>
          /\ sup.receipt \in Receipt /\ Replayed(a[1], a[2], sup.receipt, sup.w)

\* The inductive invariant of the phases.
PhaseInv ==
    /\ PhaseTypeOK /\ BootInv /\ ControlInv /\ TargetInv
    /\ \A a \in Attempts : AttemptInv(a)
    /\ \A m \in late : LateInv(m)

-----------------------------------------------------------------------------
(* The pass over the store: what its steps do to the rows. *)

\* Boot identities and sequences are numbers.
LEMMA WitnessNat ==
    ASSUME NEW w \in Witness
    PROVE  w.wd \in Nat /\ w.wk \in Nat /\ w.seq \in Nat /\ w.mode \in DesiredMode /\ w # NoValue
<1>1. w.wd \in Boots /\ w.wk \in Boots /\ w.seq \in 1 .. MaxSeq /\ w.mode \in DesiredMode
  BY DEF Witness
<1>2. \A b \in Boots : b \in Nat
  BY WorkerPhaseAssumption
<1>3. NoValue \notin Witness
  BY WorkerPhaseAssumption
<1>4. w.seq \in Nat
  BY <1>1, HandoffAssumption
<1> QED
  BY <1>1, <1>2, <1>3, <1>4

\* The same for the boots of the processes.
LEMMA BootNat ==
    ASSUME PhaseTypeOK
    PROVE  /\ sup.boot \in Nat /\ sup.me \in Nat /\ worker.boot \in Nat /\ worker.seq \in Nat
           /\ lastBoot \in Nat
<1>1. /\ sup.boot \in Boots \cup {0} /\ sup.me \in Boots /\ worker.boot \in Boots \cup {0}
      /\ worker.seq \in Nat /\ lastBoot \in Boots
  BY DEF PhaseTypeOK, SupRow, WorkerRow
<1>2. \A b \in Boots : b \in Nat
  BY WorkerPhaseAssumption
<1> QED
  BY <1>1, <1>2

\* The pass is in a place where it holds no locals.
Resting(s) ==
    /\ s \in SupRow /\ s.pc \notin Working /\ s.boot = 0 /\ s.me = sup.me
    /\ s.child => sup.child

\* The places a phase, a pass or the process ends in.
LEMMA EndFacts ==
    ASSUME PhaseTypeOK
    PROVE  /\ Resting(EndOf(sup)) /\ Resting(Deferred(sup))
           /\ Resting([EndOf(sup) EXCEPT !.skipPost = TRUE])
           /\ Resting([Idle(sup.me, FALSE) EXCEPT !.pc = "down"])
           /\ Resting(Idle(sup.me, sup.child))
           /\ desiredMode \in DesiredMode =>
                 Resting([Idle(sup.me, sup.child) EXCEPT !.pc = "probe", !.mode = desiredMode])
<1> USE DEF PhaseTypeOK, Resting, SupRow, Place, Working
<1> DEFINE p == IF sup.phase = "pre" THEN "components" ELSE "finish"
           e(f) == [[sup EXCEPT !.preFailed = f] EXCEPT !.pc = p, !.boot = 0, !.w = NoValue,
                       !.target = NoValue, !.receipt = NoValue]
<1>1. p \in {"components", "finish"}
  OBVIOUS
<1>2. EndOf(sup) = [sup EXCEPT !.pc = p, !.boot = 0, !.w = NoValue, !.target = NoValue,
                               !.receipt = NoValue]
  BY DEF EndOf
<1>3. PICK f \in BOOLEAN : Deferred(sup) = e(f)
  BY Zenon DEF Deferred, EndOf
<1> HIDE DEF p
<1>4. Resting(EndOf(sup)) /\ Resting([EndOf(sup) EXCEPT !.skipPost = TRUE])
  BY <1>1, <1>2, Zenon
<1>5. Resting(Deferred(sup))
  BY <1>1, <1>3, Zenon
<1>6. /\ Resting([Idle(sup.me, FALSE) EXCEPT !.pc = "down"])
      /\ Resting(Idle(sup.me, sup.child))
  BY Zenon DEF Idle, DesiredMode
<1>7. ASSUME desiredMode \in DesiredMode
      PROVE  Resting([Idle(sup.me, sup.child) EXCEPT !.pc = "probe", !.mode = desiredMode])
  BY <1>7, Zenon DEF Idle
<1> QED
  BY <1>4, <1>5, <1>6, <1>7, Zenon

\* A step that leaves the rows and the episodes alone.
LEMMA PassStep ==
    ASSUME PhaseInv, PhaseTypeOK', BootInv', ControlInv', TargetInv',
           UNCHANGED <<handoffs, control, episodes, runs>>,
           sup'.pc = "dispatch" => UNCHANGED sup,
           \A a \in acked' \ acked : State(a) \in {"completed", "failed", "acknowledged"},
           \A m \in late' \ late : LateInv(m)'
    PROVE  PhaseInv'
<1>1. ASSUME NEW a \in Attempts PROVE AttemptInv(a)'
  BY <1>1, Zenon DEF PhaseInv, AttemptInv, State, By, Outcome
<1>2. ASSUME NEW m \in late' PROVE LateInv(m)'
  BY <1>2, Zenon DEF PhaseInv, LateInv, State, By
<1> QED
  BY <1>1, <1>2 DEF PhaseInv

\* A pass that rests holds nothing that a later step could find changed.
LEMMA RestFacts ==
    ASSUME PhaseInv, Resting(sup'), UNCHANGED <<worker, control, lastBoot>>,
           worker.boot = 0 => late' = {}
    PROVE  BootInv' /\ ControlInv' /\ TargetInv'
<1>1. BootInv'
  <2>1. lastBoot \in Nat
    BY WorkerPhaseAssumption DEF PhaseInv, PhaseTypeOK
  <2> QED
    BY <2>1 DEF PhaseInv, BootInv, Resting
<1>2. ControlInv'
  BY DEF PhaseInv, ControlInv, Resting, Working
<1>3. TargetInv'
  BY DEF TargetInv, Resting, Working
<1> QED
  BY <1>1, <1>2, <1>3

\* A step after which the pass rests, and that writes nothing.
LEMMA RestStep ==
    ASSUME PhaseInv, Resting(sup'), NoStoreStep, NoWorkerStep, UNCHANGED lastBoot
    PROVE  PhaseInv'
<1>1. BootInv' /\ ControlInv' /\ TargetInv'
  BY RestFacts, Zenon DEF PhaseInv, BootInv, NoStoreStep, NoWorkerStep
<1>2. PhaseTypeOK'
  BY DEF PhaseInv, PhaseTypeOK, NoWorkerStep, Resting
<1>3. sup'.pc # "dispatch"
  BY DEF Resting, Working
<1> QED
  BY <1>1, <1>2, <1>3, PassStep DEF NoStoreStep, NoWorkerStep

\* A request is given up.
LEMMA GiveUpInv ==
    ASSUME PhaseInv, sup.pc \in Working, NEW m \in Request, GiveUp(m),
           m.cmd = "dispatch" =>
              State(m.a) = "may_have_been_dispatched" /\ runs[m.a] = 0 /\ m.w = By(m.a),
           m.cmd = "ack" => State(m.a) \in {"completed", "failed", "acknowledged"}
    PROVE  PhaseInv'
<1>1. PhaseTypeOK /\ sup.boot # 0
  BY Zenon DEF PhaseInv, BootInv
<1>2. /\ UNCHANGED <<worker, episodes, runs, acked, handoffs, control, lastBoot>>
      /\ sup' = Deferred(sup) /\ late' = IF worker.boot = sup.boot THEN late \cup {m} ELSE late
  BY DEF GiveUp, NoStoreStep, NoBoot
<1>3. Resting(sup')
  BY <1>1, <1>2, EndFacts
<1>4. worker.boot = 0 => late' = {}
  BY <1>1, <1>2, Zenon DEF PhaseInv, BootInv
<1>5. BootInv' /\ ControlInv' /\ TargetInv'
  BY Zenon, <1>2, <1>3, <1>4, RestFacts
<1>6. PhaseTypeOK'
  BY <1>1, <1>2, <1>3 DEF PhaseTypeOK, Resting
<1>7. sup'.pc # "dispatch"
  BY <1>3 DEF Resting, Working
<1>8. \A k \in late' \ late : LateInv(k)'
  BY Zenon, <1>2, <1>7 DEF LateInv, State, By
<1> QED
  BY <1>2, <1>5, <1>6, <1>7, <1>8, PassStep, Zenon

\* The steps that only look at the store, or write the mode.
LEMMA BeginPassInv ==
    ASSUME PhaseInv, TypeOK, BeginPass
    PROVE  PhaseInv'
<1>1. Resting(sup')
  BY EndFacts DEF BeginPass, PhaseInv, TypeOK
<1> QED
  BY <1>1, RestStep DEF BeginPass, NoBoot

\* The pass learns the boot of its worker, or goes on without one.
LEMMA ProbeInv ==
    ASSUME PhaseInv, Probe
    PROVE  PhaseInv'
<1>1. NoStoreStep /\ NoWorkerStep /\ UNCHANGED lastBoot /\ sup.pc = "probe" /\ PhaseTypeOK
  BY DEF Probe, NoBoot, PhaseInv
<1>2. CASE sup' = EndOf(sup) \/ sup' = Deferred(sup)
  BY <1>1, <1>2, EndFacts, RestStep
<1>3. CASE /\ sup.child /\ worker.boot # 0
           /\ sup' = [sup EXCEPT !.pc = "control", !.boot = worker.boot]
  <2>1. /\ sup' \in SupRow /\ sup'.pc = "control" /\ sup'.boot = worker.boot
        /\ sup'.me = sup.me /\ sup'.child = sup.child
    BY <1>1, <1>3, Zenon DEF PhaseTypeOK, SupRow, WorkerRow, Place
  <2>2. PhaseTypeOK'
    BY <1>1, <2>1, Zenon DEF PhaseTypeOK, NoWorkerStep
  <2>3. BootInv'
    BY <1>1, <1>3, <2>1 DEF PhaseInv, BootInv, Working, NoWorkerStep
  <2>4. ControlInv' /\ TargetInv'
    BY <1>1, <1>3, <2>1 DEF PhaseInv, ControlInv, TargetInv, NoWorkerStep, NoStoreStep
  <2> QED
    BY Zenon, <1>1, <2>1, <2>2, <2>3, <2>4, PassStep DEF NoStoreStep, NoWorkerStep
<1> QED
  BY <1>2, <1>3 DEF Probe

\* A mismatched peer ends the phase or the process.
LEMMA PeerMismatchInv ==
    ASSUME PhaseInv, PeerMismatch
    PROVE  PhaseInv'
<1>1. Resting(sup')
  BY EndFacts, Zenon DEF PeerMismatch, PhaseInv, Exit
<1> QED
  BY <1>1, RestStep DEF PeerMismatch

\* A death of the supervisor ends the pass.
LEMMA CrashInv ==
    ASSUME PhaseInv, Crash
    PROVE  PhaseInv'
<1>1. Resting(sup')
  BY EndFacts DEF Crash, PhaseInv, Exit
<1> QED
  BY <1>1, RestStep DEF Crash

\* The control of a pass: a fresh witness is one of this pass's and its worker's.
LEMMA FreshFacts ==
    ASSUME PhaseInv, HandoffTypeOK, sup.pc = "control", NextSeq <= MaxSeq
    PROVE  /\ Fresh \in Witness /\ Fresh.wk = sup.boot /\ Fresh.seq = NextSeq
           /\ Fresh.mode = sup.mode
           /\ control.row # NoValue => NextSeq = control.row.seq + 1
<1>1. PhaseTypeOK /\ sup.boot \in Boots /\ sup.me \in Boots /\ sup.me # sup.boot
  <2>1. PhaseTypeOK /\ sup.boot # 0 /\ sup.boot > sup.me
    BY DEF PhaseInv, BootInv, Working
  <2>2. sup.boot \in Boots /\ sup.me \in Boots
    BY <2>1 DEF PhaseTypeOK, SupRow
  <2>3. sup.boot \in Nat /\ sup.me \in Nat
    BY <2>2, WorkerPhaseAssumption, Zenon
  <2> QED
    BY <2>1, <2>2, <2>3
<1>2. NextSeq \in 1 .. MaxSeq /\ (control.row # NoValue => NextSeq = control.row.seq + 1)
  BY HandoffAssumption DEF NextSeq, HandoffTypeOK, Witness
<1>3. sup.mode \in DesiredMode
  BY <1>1 DEF PhaseTypeOK, SupRow
<1> QED
  BY <1>1, <1>2, <1>3 DEF Fresh, Witness

\* A control exchange: stored, refused, accepted or given up.
LEMMA EnsureControlInv ==
    ASSUME PhaseInv, HandoffTypeOK, EnsureControl
    PROVE  PhaseInv'
<1>1. sup.pc = "control" /\ PhaseTypeOK /\ sup.boot # 0 /\ BootInv /\ ControlInv
  BY DEF EnsureControl, PhaseInv, BootInv, Working
<1>2. CASE /\ Stored /\ sup' = [sup EXCEPT !.pc = "lookup", !.w = control.row]
           /\ NoStoreStep /\ NoWorkerStep /\ NoBoot
  <2>1. control.row \in Witness /\ control.row # NoValue
    BY <1>2 DEF Stored, HandoffTypeOK
  <2>2. /\ sup' \in SupRow /\ sup'.pc = "lookup" /\ sup'.w = control.row
        /\ sup'.me = sup.me /\ sup'.child = sup.child /\ sup'.boot = sup.boot
    BY <1>1, <1>2, <2>1, Zenon DEF PhaseTypeOK, SupRow, Place
  <2>3. PhaseTypeOK' /\ BootInv' /\ ControlInv' /\ TargetInv'
    BY <1>1, <1>2, <2>1, <2>2
    DEF PhaseTypeOK, BootInv, Working, ControlInv, TargetInv, NoWorkerStep, NoStoreStep, NoBoot
  <2> QED
    BY <1>2, <2>2, <2>3, PassStep DEF NoStoreStep, NoWorkerStep
<1>3. CASE Exit /\ NoStoreStep /\ NoWorkerStep /\ NoBoot
  BY <1>1, <1>3, EndFacts, RestStep DEF Exit, NoBoot
<1>4. CASE /\ NextSeq <= MaxSeq /\ worker.boot = sup.boot
           /\ ApplyControl(Fresh)
           /\ sup' = IF ControlAccepted(Fresh)
                     THEN [sup EXCEPT !.pc = "persist", !.w = Fresh] ELSE Deferred(sup)
           /\ UNCHANGED <<episodes, runs, acked, late>> /\ NoStoreStep /\ NoBoot
  <2>1. CASE ~ControlAccepted(Fresh)
    BY <1>1, <1>4, <2>1, EndFacts, RestStep DEF ApplyControl, NoBoot, NoWorkerStep
  <2>2. CASE ControlAccepted(Fresh)
    <3>1. /\ Fresh \in Witness /\ Fresh.wk = sup.boot /\ Fresh.seq = NextSeq
          /\ control.row # NoValue => NextSeq = control.row.seq + 1
      BY <1>1, <1>4, FreshFacts
    <3>2. /\ sup' \in SupRow /\ sup'.pc = "persist" /\ sup'.w = Fresh
          /\ sup'.me = sup.me /\ sup'.child = sup.child /\ sup'.boot = sup.boot
      BY <1>1, <1>4, <2>2, <3>1, Zenon DEF PhaseTypeOK, SupRow, Place
    <3>3. Fresh.mode \in DesiredMode /\ Fresh.seq \in Nat
      BY <3>1, HandoffAssumption DEF Witness
    <3>4. worker' \in WorkerRow /\ worker'.boot = worker.boot /\ worker'.seq = Fresh.seq
      BY <1>1, <1>4, <2>2, <3>3, Zenon DEF ApplyControl, PhaseTypeOK, WorkerRow
    <3>5. PhaseTypeOK' /\ BootInv' /\ TargetInv'
      BY <1>1, <1>4, <3>2, <3>4
      DEF PhaseTypeOK, BootInv, Working, TargetInv, NoStoreStep, NoBoot
    <3>6. control.row # NoValue => control.row.seq \in Nat
      BY HandoffAssumption DEF HandoffTypeOK, Witness
    <3>7. ControlInv'
      BY <1>1, <1>4, <3>1, <3>2, <3>3, <3>4, <3>6 DEF ControlInv, NoStoreStep, NoBoot
    <3> QED
      BY <1>4, <3>2, <3>5, <3>7, PassStep DEF NoStoreStep
  <2> QED
    BY <2>1, <2>2
<1>5. CASE NextSeq <= MaxSeq /\ ControlGivenUp
  <2>1. [cmd |-> "control", w |-> Fresh] \in Request
    BY <1>1, <1>5, FreshFacts DEF Request
  <2> QED
    BY <1>1, <1>5, <2>1, GiveUpInv DEF ControlGivenUp, Working
<1> QED
  BY <1>2, <1>3, <1>4, <1>5 DEF EnsureControl

\* The control row is written: it is newer than what any handoff is bound to.
LEMMA PersistControlInv ==
    ASSUME PhaseInv, HandoffTypeOK, PersistControl
    PROVE  PhaseInv'
<1>1. /\ sup.pc = "persist" /\ PhaseTypeOK /\ BootInv /\ ControlInv /\ sup.boot # 0
      /\ sup.w \in Witness /\ sup.w.wk = sup.boot
  BY Zenon DEF PersistControl, PhaseInv, BootInv, ControlInv, Working
<1>2. /\ control.row # NoValue => sup.w.seq > control.row.seq
      /\ control'.row = sup.w /\ sup' = [sup EXCEPT !.pc = "lookup"]
      /\ UNCHANGED <<handoffs, worker, episodes, runs, acked, late, lastBoot>>
  BY DEF PersistControl, SetWorkerControl, Goto, NoWorkerStep, NoBoot
<1>3. sup.w # NoValue
  BY <1>1, WorkerPhaseAssumption
<1>4. /\ sup' \in SupRow /\ sup'.pc = "lookup" /\ sup'.w = sup.w
      /\ sup'.me = sup.me /\ sup'.child = sup.child /\ sup'.boot = sup.boot
  BY <1>1, <1>2 DEF PhaseTypeOK, SupRow, Place
<1>5. PhaseTypeOK' /\ BootInv' /\ TargetInv'
  BY <1>1, <1>2, <1>4 DEF PhaseTypeOK, BootInv, Working, TargetInv
<1>6. sup.boot \in Nat /\ worker.boot \in Nat /\ sup.boot <= lastBoot /\ lastBoot \in Nat
  BY <1>1, BootNat DEF BootInv
<1>7. ControlInv'
  BY <1>1, <1>2, <1>3, <1>4, <1>6 DEF ControlInv, BootInv
<1>8. ASSUME NEW a \in Attempts PROVE AttemptInv(a)'
  <2>1. AttemptInv(a) /\ UNCHANGED <<State(a), By(a), Outcome(a)>>
    BY <1>2, <1>8 DEF PhaseInv, State, By, Outcome
  <2>2. ASSUME State(a) # "none"
        PROVE  /\ By(a) \in Witness /\ By(a).mode = "Running"
               /\ By(a).wk <= sup.w.wk /\ By(a).seq < sup.w.seq
    <3>1. /\ By(a) \in Witness /\ By(a).mode = "Running" /\ control.row # NoValue
          /\ By(a).wk <= control.row.wk /\ By(a).seq <= control.row.seq
      BY <2>1, <2>2, Zenon DEF AttemptInv
    <3>2. control.row \in Witness /\ control.row.wk <= sup.boot /\ control.row.seq < sup.w.seq
      BY <1>1, <1>2, <3>1 DEF HandoffTypeOK, ControlInv
    <3>3. /\ By(a).wk \in Nat /\ By(a).seq \in Nat /\ control.row.wk \in Nat
          /\ control.row.seq \in Nat /\ sup.w.seq \in Nat
      BY <1>1, <3>1, <3>2, WitnessNat
    <3> QED
      BY <1>1, <1>6, <3>1, <3>2, <3>3
  <2>3. sup.w.seq \in Nat
    BY <1>1, HandoffAssumption DEF Witness
  <2>4. State(a) # "none" => By(a).seq \in Nat
    BY <2>2, HandoffAssumption DEF Witness
  <2> QED
    BY <1>2, <1>3, <2>1, <2>2, <2>3, <2>4 DEF AttemptInv
<1>9. ASSUME NEW m \in late' PROVE LateInv(m)'
  BY <1>2, <1>4, <1>9, Zenon DEF PhaseInv, LateInv, State, By
<1> QED
  BY <1>5, <1>7, <1>8, <1>9 DEF PhaseInv

\* A step that moves the supervisor on and leaves what it knows alone.
LEMMA MoveFacts ==
    ASSUME PhaseTypeOK, BootInv, sup.pc \in Working, sup' \in SupRow, sup'.pc \in Working,
           sup'.me = sup.me, sup'.child = sup.child, sup'.boot = sup.boot,
           UNCHANGED <<worker, late, lastBoot>>
    PROVE  BootInv'
BY DEF BootInv

\* A lookup hands the pass a receipt only of an attempt that was started.
LEMMA PhaseLookupInv ==
    ASSUME PhaseInv, HandoffTypeOK, Lookup
    PROVE  PhaseInv'
<1>1. /\ sup.pc = "lookup" /\ PhaseTypeOK /\ BootInv /\ ControlInv /\ sup.pc \in Working
      /\ sup.w = control.row /\ control.row # NoValue
  BY Zenon DEF Lookup, PhaseInv, ControlInv, Working
<1>2. NoStoreStep /\ NoWorkerStep /\ UNCHANGED lastBoot
  BY DEF Lookup, NoBoot
<1>3. CASE Goto(sup, "gate")
  <2>1. /\ sup' \in SupRow /\ sup'.pc = "gate"
        /\ sup'.me = sup.me /\ sup'.child = sup.child /\ sup'.boot = sup.boot
    BY <1>1, <1>3 DEF PhaseTypeOK, SupRow, Place, Goto
  <2>2. PhaseTypeOK' /\ BootInv'
    BY <1>1, <1>2, <2>1, MoveFacts, Zenon DEF PhaseTypeOK, Working, NoWorkerStep
  <2>3. ControlInv' /\ TargetInv'
    BY <1>1, <1>2, <2>1, Zenon DEF ControlInv, TargetInv, NoStoreStep, NoWorkerStep
  <2> QED
    BY <1>2, <2>1, <2>2, <2>3, PassStep DEF NoStoreStep, NoWorkerStep
<1>4. CASE Exit \/ sup' = EndOf(sup) \/ sup' = Deferred(sup)
  BY <1>1, <1>2, <1>4, EndFacts, RestStep, Zenon DEF Exit
<1>5. ASSUME NEW a \in Pending, ValidHandoff(a[1], a[2]), episodes[a] \in Receipt,
             sup' = [sup EXCEPT !.pc = "complete", !.target = a, !.receipt = episodes[a]]
      PROVE  PhaseInv'
  <2>1. /\ a \in Attempts /\ State(a) \notin {"none", "acknowledged"}
    BY <1>5 DEF Pending, Rows, Attempts, State
  <2>2. /\ sup' \in SupRow /\ sup'.pc = "complete" /\ sup'.target = a /\ sup'.w = sup.w
        /\ sup'.receipt = episodes[a]
        /\ sup'.me = sup.me /\ sup'.child = sup.child /\ sup'.boot = sup.boot
    BY <1>1, <1>5, <2>1, Zenon DEF PhaseTypeOK, SupRow, Place
  <2>3. PhaseTypeOK' /\ BootInv'
    BY <1>1, <1>2, <2>2, MoveFacts, Zenon DEF PhaseTypeOK, Working, NoWorkerStep
  <2>4. ControlInv'
    BY <1>1, <1>2, <2>2, Zenon DEF ControlInv, NoStoreStep, NoWorkerStep
  <2>5. State(a) \in {"may_have_been_dispatched", "admitted", "completed", "failed"}
    <3>1. episodes[a].status # "none"
      BY <1>5 DEF Receipt
    <3>2. runs[a] # 0 /\ AttemptInv(a)
      BY Zenon, <2>1, <3>1 DEF PhaseInv, AttemptInv
    <3>3. State(a) # "prepared"
      BY <3>2, Zenon DEF AttemptInv
    <3>4. State(a) \in HandoffState \cup {"none"}
      BY <2>1 DEF HandoffTypeOK, HandoffRow, State, Attempts
    <3> QED
      BY <2>1, <3>3, <3>4 DEF HandoffState
  <2>6. TargetInv'
    <3>1. /\ ValidHandoff(a[1], a[2])' /\ Authorised(a[1], a[2], sup.w)'
          /\ UNCHANGED State(a)
      <4>1. jobs' = jobs /\ attempts' = attempts /\ handoffs' = handoffs /\ control' = control
        BY <1>1, <1>2, Zenon DEF NoStoreStep
      <4>2. ValidHandoff(a[1], a[2])'
        BY <1>5, <4>1, Zenon DEF ValidHandoff
      <4>3. Authorised(a[1], a[2], sup.w)'
        BY <1>1, <2>2, <4>1, Zenon DEF Authorised
      <4> QED
        BY <4>1, <4>2, <4>3, Zenon DEF State
    <3> QED
      BY <1>2, <1>5, <2>1, <2>2, <2>5, <3>1 DEF TargetInv, NoWorkerStep
  <2> QED
    BY <1>2, <2>2, <2>3, <2>4, <2>6, PassStep, Zenon DEF NoStoreStep, NoWorkerStep
<1> QED
  BY <1>3, <1>4, <1>5, Zenon DEF Lookup, LookupAnswer

\* A step on the row of one attempt.
LEMMA RowStep ==
    ASSUME PhaseInv, PhaseTypeOK', BootInv', ControlInv', TargetInv',
           UNCHANGED <<control, episodes, runs, acked, late>>, NEW a \in Attempts, AttemptInv(a)',
           \A k \in Attempts : k # a => handoffs'[k[1]][k[2]] = handoffs[k[1]][k[2]],
           \A m \in late : m.cmd \in {"dispatch", "ack"} /\ m.a = a => LateInv(m)',
           sup'.pc = "dispatch" => sup'.target = a
    PROVE  PhaseInv'
<1>1. ASSUME NEW k \in Attempts PROVE AttemptInv(k)'
  <2>1. CASE k = a
    BY <2>1
  <2>2. CASE k # a
    <3>1. UNCHANGED <<State(k), By(k), Outcome(k)>> /\ AttemptInv(k)
      BY <1>1, <2>2, Zenon DEF PhaseInv, State, By, Outcome
    <3> QED
      BY <3>1, Zenon DEF AttemptInv
  <2> QED
    BY <2>1, <2>2
<1>2. ASSUME NEW m \in late' PROVE LateInv(m)'
  <2>1. m \in late /\ LateInv(m) /\ m \in Request
    BY <1>2, Zenon DEF PhaseInv, PhaseTypeOK
  <2>2. CASE m.cmd = "control"
    BY <2>2, Zenon DEF LateInv
  <2>3. CASE m.cmd # "control"
    <3>1. m.cmd \in {"dispatch", "ack"} /\ m.a \in Attempts
      BY <2>1, <2>3 DEF Request
    <3>2. CASE m.a = a
      BY <2>1, <3>1, <3>2
    <3>3. CASE m.a # a
      <4>1. UNCHANGED <<State(m.a), By(m.a), runs[m.a]>>
        BY <3>1, <3>3, Zenon DEF State, By
      <4> QED
        BY <2>1, <3>3, <4>1, Zenon DEF LateInv
    <3> QED
      BY <3>2, <3>3
  <2> QED
    BY <2>2, <2>3, Zenon
<1> QED
  BY <1>1, <1>2, Zenon DEF PhaseInv

\* A step on the episode of one attempt.
LEMMA EpisodeStep ==
    ASSUME PhaseInv, PhaseTypeOK', BootInv', ControlInv', TargetInv',
           UNCHANGED <<handoffs, control, acked>>, late' \subseteq late,
           NEW a \in Attempts, AttemptInv(a)',
           \A k \in Attempts : k # a => episodes'[k] = episodes[k] /\ runs'[k] = runs[k],
           \A m \in late' : m.cmd = "dispatch" /\ m.a = a => runs'[a] = 0,
           sup'.pc = "dispatch" => UNCHANGED sup
    PROVE  PhaseInv'
<1>1. ASSUME NEW k \in Attempts PROVE AttemptInv(k)'
  <2>1. CASE k = a
    BY <2>1, Zenon
  <2>2. CASE k # a
    <3>1. UNCHANGED <<State(k), By(k), Outcome(k), episodes[k], runs[k]>> /\ AttemptInv(k)
      BY <1>1, <2>2 DEF PhaseInv, State, By, Outcome
    <3> QED
      BY <3>1, Zenon DEF AttemptInv
  <2> QED
    BY <2>1, <2>2
<1>2. ASSUME NEW m \in late' PROVE LateInv(m)'
  <2>1. m \in late /\ LateInv(m) /\ m \in Request
    BY <1>2 DEF PhaseInv, PhaseTypeOK
  <2>2. CASE m.cmd # "dispatch"
    BY <2>1, <2>2, Zenon DEF LateInv, State
  <2>3. CASE m.cmd = "dispatch"
    <3>1. m.a \in Attempts /\ UNCHANGED <<State(m.a), By(m.a)>>
      BY <2>1, <2>3, Zenon DEF Request, State, By
    <3>2. runs'[m.a] = 0
      BY <1>2, <2>1, <2>3, <3>1, Zenon DEF LateInv
    <3> QED
      BY <2>1, <2>3, <3>1, <3>2, Zenon DEF LateInv
  <2> QED
    BY <2>2, <2>3
<1> QED
  BY <1>1, <1>2, Zenon DEF PhaseInv

\* What a transaction on the row of attempt a does to State, By and Outcome.
LEMMA RowWritten ==
    ASSUME HandoffTypeOK, NEW a \in Attempts, NEW h,
           handoffs' = [handoffs EXCEPT ![a[1]][a[2]] = h]
    PROVE  /\ State(a)' = h.state /\ By(a)' = h.by /\ Outcome(a)' = h.receipt
           /\ handoffs'[a[1]][a[2]] = h
           /\ \A k \in Attempts : k # a => handoffs'[k[1]][k[2]] = handoffs[k[1]][k[2]]
<1>1. a[1] \in Jobs /\ a[2] \in Numbers /\ a = <<a[1], a[2]>>
  BY DEF Attempts
<1>2. handoffs \in [Jobs -> [Numbers -> HandoffRow]]
  BY DEF HandoffTypeOK
<1>3. handoffs'[a[1]][a[2]] = h
  BY <1>1, <1>2
<1>4. ASSUME NEW k \in Attempts, k # a PROVE handoffs'[k[1]][k[2]] = handoffs[k[1]][k[2]]
  <2>1. k[1] \in Jobs /\ k[2] \in Numbers /\ k = <<k[1], k[2]>>
    BY <1>4 DEF Attempts
  <2>2. k[1] # a[1] \/ k[2] # a[2]
    BY <1>1, <1>4, <2>1
  <2> QED
    BY <1>1, <1>2, <2>1, <2>2
<1> QED
  BY <1>3, <1>4 DEF State, By, Outcome

\* The receipt is recorded, or found recorded already.
LEMMA CompleteInv ==
    ASSUME PhaseInv, HandoffInv, Complete
    PROVE  PhaseInv'
<1>1. /\ sup.pc = "complete" /\ PhaseTypeOK /\ BootInv /\ ControlInv /\ TargetInv /\ HandoffTypeOK
      /\ sup.pc \in Working
  BY Zenon DEF Complete, PhaseInv, Working, HandoffInv
<1>0. PICK a \in Attempts, r \in Receipt, w \in Witness \cup {NoValue} :
         a = sup.target /\ r = sup.receipt /\ w = sup.w
  BY <1>1 DEF TargetInv, PhaseTypeOK, SupRow
<1> DEFINE j == a[1]
           n == a[2]
<1>2. /\ episodes[a] = r
      /\ ValidHandoff(j, n) /\ Authorised(j, n, w)
      /\ State(a) \in {"may_have_been_dispatched", "admitted", "completed", "failed"}
      /\ AttemptInv(a)
  BY <1>0, <1>1, Zenon DEF TargetInv, PhaseInv
<1>3. NoWorkerStep /\ UNCHANGED lastBoot
  BY Zenon DEF Complete, NoBoot
<1>4. ASSUME sup' = [sup EXCEPT !.pc = "ack"], UNCHANGED control
      PROVE  /\ sup'.pc = "ack" /\ sup'.target = a /\ sup'.receipt = r /\ sup'.w = w
             /\ PhaseTypeOK' /\ BootInv' /\ ControlInv'
  <2>1. /\ sup' \in SupRow /\ sup'.pc = "ack"
        /\ sup'.me = sup.me /\ sup'.child = sup.child /\ sup'.boot = sup.boot
        /\ sup'.target = a /\ sup'.receipt = r /\ sup'.w = w
    BY <1>0, <1>1, <1>4 DEF PhaseTypeOK, SupRow, Place
  <2>2. PhaseTypeOK' /\ BootInv'
    BY <1>1, <1>3, <2>1, MoveFacts DEF PhaseTypeOK, Working, NoWorkerStep
  <2>3. ControlInv'
    BY <1>1, <1>3, <1>4, <2>1 DEF ControlInv, NoWorkerStep
  <2> QED
    BY <2>1, <2>2, <2>3, Zenon
<1>5. CASE CanComplete(j, n, w)
  <2> DEFINE h == [handoffs[j][n] EXCEPT !.state = r.status, !.receipt = r, !.at = now]
  <2>1. /\ CompleteHandoff(j, n, r, w) /\ sup' = [sup EXCEPT !.pc = "ack"]
        /\ handoffs' = [handoffs EXCEPT ![j][n] = h] /\ UNCHANGED control
    BY Zenon, <1>0, <1>1, <1>5 DEF Complete, CompleteHandoff, Goto
  <2>2. handoffs[j][n] \in HandoffRow
    BY <1>1, <1>2, Zenon DEF HandoffTypeOK, Attempts
  <2>3. h.state = r.status /\ h.receipt = r /\ h.by = By(a)
    BY <2>2 DEF HandoffRow, By
  <2>4. r.status \in {"completed", "failed"}
    BY <1>2 DEF Receipt
  <2> HIDE DEF h
  <2>5. /\ State(a)' = r.status /\ UNCHANGED By(a) /\ Outcome(a)' = r /\ handoffs'[j][n] = h
        /\ \A k \in Attempts : k # a => handoffs'[k[1]][k[2]] = handoffs[k[1]][k[2]]
    BY <1>1, <1>2, <2>1, <2>3, RowWritten, Zenon
  <2>6. runs[a] = 1 /\ episodes[a].status \notin {"none", "running"} /\ runs[a] # 0
    <3>1. episodes[a].status \notin {"none", "running"}
      BY <1>2, <2>4
    <3>2. runs[a] \in Nat
      BY <1>1 DEF PhaseTypeOK
    <3>3. runs[a] <= 1 /\ (runs[a] = 0) = (episodes[a].status = "none")
      BY Zenon, <1>2 DEF AttemptInv
    <3> QED
      BY <3>1, <3>2, <3>3
  <2>7. State(a) # "none" /\ UNCHANGED <<control, episodes, runs, acked, late>>
    BY <1>2, <1>3, <2>1 DEF NoWorkerStep
  <2>8. AttemptInv(a)'
    BY <1>2, <2>4, <2>5, <2>6, <2>7, Zenon DEF AttemptInv
  <2>9. ASSUME NEW m \in late, m.cmd \in {"dispatch", "ack"}, m.a = a PROVE LateInv(m)'
    BY <2>4, <2>5, <2>6, <2>9, Zenon DEF PhaseInv, LateInv
  <2>10. TargetInv'
    <3>1. ValidHandoff(j, n)'
      <4>1. State(a) \in Nonterminal
        BY <1>5 DEF CanComplete, State, Nonterminal
      <4>2. jobs[j].count = n /\ jobs[j].worker = Owner /\ TypeOK
        BY <1>2, <4>1, Zenon DEF ValidHandoff, State, Nonterminal, HandoffInv, StoreInv
      <4>3. /\ jobs[j] \in JobRow /\ jobs \in [Jobs -> JobRow]
            /\ attempts \in [Jobs -> [Numbers -> AttemptStatus \cup {"none"}]]
            /\ j \in Jobs /\ n \in Numbers
        BY <1>0, <4>2 DEF TypeOK, Attempts
      <4>4. /\ jobs'[j].count = n /\ jobs'[j].status = r.status /\ jobs'[j].result = r.result
            /\ jobs'[j].lastError = (IF r.status = "completed" THEN "none" ELSE "terminal")
            /\ jobs'[j].worker = (IF r.status = "completed" THEN Owner ELSE NoValue)
            /\ attempts'[j][n] = r.status
        BY <2>1, <4>2, <4>3 DEF CompleteHandoff, JobRow
      <4> QED
        BY <2>3, <2>4, <2>5, <4>4, Zenon DEF ValidHandoff, Nonterminal
    <3>2. Authorised(j, n, w)'
      BY Zenon, <1>2, <2>3, <2>5, <2>7 DEF Authorised, SameIncarnation, By
    <3>3. Replayed(j, n, r, w)'
      BY <2>3, <2>4, <2>5, <3>1, <3>2, Zenon DEF Replayed
    <3> QED
      BY <1>2, <1>4, <2>1, <3>3 DEF TargetInv
  <2> QED
    BY <1>2, <1>4, <2>1, <2>5, <2>7, <2>8, <2>9, <2>10, RowStep
<1>6. CASE ~CanComplete(j, n, w)
  <2>1. Replayed(j, n, r, w)
    BY <1>2, <1>6, Zenon DEF CanComplete, Replayed, AttemptInv, State, Outcome
  <2>2. sup' = [sup EXCEPT !.pc = "ack"] /\ NoStoreStep
    BY <1>0, <1>6, <2>1 DEF Complete, Goto
  <2>3. Replayed(j, n, r, w)'
    BY Zenon, <2>1, <2>2 DEF Replayed, ValidHandoff, Authorised, SameIncarnation, NoStoreStep
  <2>4. TargetInv'
    BY <1>2, <1>4, <2>2, <2>3 DEF TargetInv, NoStoreStep
  <2> QED
    BY <1>3, <1>4, <2>2, <2>4, PassStep DEF NoStoreStep, NoWorkerStep
<1> QED
  BY <1>5, <1>6

\* The pass goes on with what it has.
LEMMA GotoFacts ==
    ASSUME PhaseInv, sup.pc \in Working, NEW p \in Working, Goto(sup, p),
           UNCHANGED <<worker, control, lastBoot>>, UNCHANGED late
    PROVE  /\ sup' \in SupRow /\ sup'.pc = p /\ sup'.target = sup.target
           /\ sup'.receipt = sup.receipt /\ sup'.w = sup.w /\ sup'.boot = sup.boot
           /\ BootInv'
           /\ p \notin {"persist", "lookup", "claim"} => ControlInv'
<1>1. PhaseTypeOK /\ BootInv /\ ControlInv
  BY DEF PhaseInv
<1>2. /\ sup' \in SupRow /\ sup'.pc = p /\ sup'.target = sup.target
      /\ sup'.receipt = sup.receipt /\ sup'.w = sup.w /\ sup'.boot = sup.boot
      /\ sup'.me = sup.me /\ sup'.child = sup.child
  <2>1. p \in Place
    BY DEF Working, Place
  <2> QED
    BY <1>1, <2>1 DEF PhaseTypeOK, SupRow, Goto
<1>3. BootInv'
  BY <1>1, <1>2, MoveFacts
<1>4. p \notin {"persist", "lookup", "claim"} => ControlInv'
  BY <1>1, <1>2, Zenon DEF ControlInv
<1> QED
  BY <1>2, <1>3, <1>4, Zenon

\* The worker is told only what the store already has.
LEMMA AcknowledgeInv ==
    ASSUME PhaseInv, Acknowledge
    PROVE  PhaseInv'
<1>1. sup.pc = "ack" /\ sup.pc \in Working /\ PhaseTypeOK
  BY Zenon DEF Acknowledge, PhaseInv, Working
<1>2. PICK a \in Attempts, r \in Receipt, w \in Witness \cup {NoValue} :
         /\ a = sup.target /\ r = sup.receipt /\ w = sup.w
         /\ Replayed(a[1], a[2], r, w)
  BY <1>1, Zenon DEF PhaseInv, TargetInv, PhaseTypeOK, SupRow
<1>3. State(a) \in {"completed", "failed"}
  BY Zenon, <1>2 DEF Replayed, State
<1>4. CASE /\ acked' = acked \cup {a} /\ Goto(sup, "settle")
           /\ UNCHANGED <<worker, episodes, runs, late>> /\ NoStoreStep /\ NoBoot
  <2>1. "settle" \in Working
    BY DEF Working
  <2>2. /\ sup' \in SupRow /\ sup'.pc = "settle" /\ sup'.target = a /\ sup'.receipt = r
        /\ sup'.w = w /\ BootInv' /\ ControlInv'
    BY <1>1, <1>2, <1>4, <2>1, GotoFacts, Zenon DEF NoStoreStep, NoBoot
  <2>3. PhaseTypeOK'
    BY <1>1, <1>4, <2>2 DEF PhaseTypeOK, NoBoot
  <2>4. Replayed(a[1], a[2], r, w)'
    BY <1>2, <1>4, Zenon DEF Replayed, ValidHandoff, Authorised, SameIncarnation, NoStoreStep
  <2>5. TargetInv'
    BY <2>2, <2>4, Zenon DEF TargetInv
  <2> QED
    BY <1>3, <1>4, <2>2, <2>3, <2>5, PassStep DEF NoStoreStep
<1>5. CASE GiveUp([cmd |-> "ack", a |-> a])
  <2>1. [cmd |-> "ack", a |-> a] \in Request
    BY Zenon DEF Request
  <2> QED
    BY <1>1, <1>3, <1>5, <2>1, GiveUpInv, Zenon
<1> QED
  BY <1>2, <1>4, <1>5, Zenon DEF Acknowledge

\* What a step on a row needs to be shown of the supervisor when it rests.
LEMMA RestRow ==
    ASSUME PhaseInv, Resting(sup'), NoWorkerStep, UNCHANGED <<control, lastBoot>>
    PROVE  /\ PhaseTypeOK' /\ BootInv' /\ ControlInv' /\ TargetInv' /\ sup'.pc # "dispatch"
<1>1. BootInv' /\ ControlInv' /\ TargetInv'
  BY RestFacts, Zenon DEF PhaseInv, BootInv, NoWorkerStep
<1>2. PhaseTypeOK'
  BY DEF PhaseInv, PhaseTypeOK, NoWorkerStep, Resting
<1>3. sup'.pc # "dispatch"
  BY DEF Resting, Working
<1> QED
  BY <1>1, <1>2, <1>3

\* The acknowledgment is recorded.
LEMMA SettleInvPhase ==
    ASSUME PhaseInv, HandoffTypeOK, Settle
    PROVE  PhaseInv'
<1>1. sup.pc = "settle" /\ sup.pc \in Working /\ PhaseTypeOK
  BY DEF Settle, PhaseInv, Working
<1>2. PICK a \in Attempts, r \in Receipt, w \in Witness \cup {NoValue} :
         /\ a = sup.target /\ r = sup.receipt /\ w = sup.w
         /\ Replayed(a[1], a[2], r, w)
  BY <1>1, Zenon DEF PhaseInv, TargetInv, PhaseTypeOK, SupRow
<1>3. State(a) \in {"completed", "failed"} /\ AttemptInv(a)
  BY <1>2, Zenon DEF Replayed, State, PhaseInv
<1> DEFINE h == [handoffs[a[1]][a[2]] EXCEPT !.state = "acknowledged", !.at = now]
<1>4. /\ handoffs' = [handoffs EXCEPT ![a[1]][a[2]] = h]
      /\ NoWorkerStep /\ UNCHANGED <<control, lastBoot>>
  BY <1>2, Zenon DEF Settle, AcknowledgeHandoff, NoBoot
<1>5. handoffs[a[1]][a[2]] \in HandoffRow
  BY DEF HandoffTypeOK, Attempts
<1>6. h.state = "acknowledged" /\ h.receipt = Outcome(a) /\ h.by = By(a)
  BY <1>5 DEF HandoffRow, By, Outcome
<1> HIDE DEF h
<1>7. /\ State(a)' = "acknowledged" /\ UNCHANGED <<By(a), Outcome(a)>>
      /\ \A k \in Attempts : k # a => handoffs'[k[1]][k[2]] = handoffs[k[1]][k[2]]
  BY <1>4, <1>6, RowWritten, Zenon
<1>8. UNCHANGED <<control, episodes, runs, acked, late>>
  BY <1>4 DEF NoWorkerStep
<1>9. AttemptInv(a)'
  BY <1>3, <1>7, <1>8, Zenon DEF AttemptInv
<1>10. ASSUME NEW m \in late, m.cmd \in {"dispatch", "ack"}, m.a = a PROVE LateInv(m)'
  BY <1>3, <1>7, <1>10, Zenon DEF PhaseInv, LateInv
<1>11. /\ PhaseTypeOK' /\ BootInv' /\ ControlInv' /\ TargetInv' /\ sup'.pc # "dispatch"
  <2>1. CASE sup' = EndOf(sup)
    BY <1>1, <1>4, <2>1, EndFacts, RestRow
  <2>2. CASE sup' = [sup EXCEPT !.pc = "gate"]
    <3>1. "gate" \in Working /\ Goto(sup, "gate")
      BY <2>2 DEF Working, Goto
    <3>2. sup' \in SupRow /\ sup'.pc = "gate" /\ BootInv' /\ ControlInv'
      BY <1>1, <1>4, <1>8, <3>1, GotoFacts DEF NoWorkerStep
    <3> QED
      BY <1>1, <1>4, <3>2, Zenon DEF PhaseTypeOK, TargetInv, NoWorkerStep
  <2> QED
    BY <2>1, <2>2 DEF Settle
<1> QED
  BY <1>7, <1>8, <1>9, <1>10, <1>11, RowStep, Zenon

\* A claim is tried only under a control row.
LEMMA GateInv ==
    ASSUME PhaseInv, Gate
    PROVE  PhaseInv'
<1>1. /\ sup.pc = "gate" /\ sup.pc \in Working /\ PhaseTypeOK /\ ControlInv
      /\ NoStoreStep /\ NoWorkerStep /\ UNCHANGED lastBoot
  BY DEF Gate, PhaseInv, Working, NoBoot
<1>2. CASE sup' = EndOf(sup) \/ sup' = Deferred(sup)
  BY <1>1, <1>2, EndFacts, RestStep
<1>3. CASE control.row # NoValue /\ Goto(sup, "claim")
  <2>1. "claim" \in Working
    BY DEF Working
  <2>2. sup' \in SupRow /\ sup'.pc = "claim" /\ sup'.boot = sup.boot /\ BootInv'
    BY <1>1, <1>3, <2>1, GotoFacts DEF NoStoreStep, NoWorkerStep
  <2>3. PhaseTypeOK' /\ TargetInv'
    BY ZenonT(30), <1>1, <2>2 DEF PhaseTypeOK, TargetInv, NoWorkerStep
  <2>4. ControlInv'
    BY <1>1, <1>3, <2>2, Zenon DEF ControlInv, NoStoreStep, NoWorkerStep
  <2> QED
    BY <1>1, <2>2, <2>3, <2>4, PassStep DEF NoStoreStep, NoWorkerStep
<1> QED
  BY <1>2, <1>3, Zenon DEF Gate

\* A claim writes the first row of its attempt, so nothing was started for it.
LEMMA ClaimInv ==
    ASSUME PhaseInv, HandoffInv, Claim
    PROVE  PhaseInv'
<1>1. /\ sup.pc = "claim" /\ sup.pc \in Working /\ PhaseTypeOK /\ BootInv /\ ControlInv
      /\ control.row # NoValue
      /\ NoWorkerStep /\ UNCHANGED lastBoot
  BY Zenon DEF Claim, PhaseInv, ControlInv, Working, NoBoot
<1>2. CASE (Exit \/ sup' = EndOf(sup)) /\ NoStoreStep
  BY <1>1, <1>2, EndFacts, RestStep, Zenon DEF Exit
<1>3. ASSUME NEW j \in Jobs, ClaimNextWorkerHandoff(j, control.row),
             sup' = [sup EXCEPT !.pc = "mark", !.target = <<j, jobs[j].count + 1>>]
      PROVE  PhaseInv'
  <2>0. PICK n \in Numbers : n = jobs[j].count + 1
    BY <1>3, JobStoreAssumption
    DEF ClaimNextWorkerHandoff, StartAttempt, HandoffInv, StoreInv, TypeOK, JobRow, Numbers
  <2>1. PICK a \in Attempts : a = <<j, n>> /\ a[1] = j /\ a[2] = n
    <3>1. <<j, n>> \in Attempts /\ <<j, n>>[1] = j /\ <<j, n>>[2] = n
      BY <1>3, <2>0 DEF Attempts
    <3> QED
      BY <3>1
  <2> DEFINE h == [state |-> "prepared", by |-> control.row, receipt |-> NoValue, at |-> now]
  <2>2. /\ handoffs' = [handoffs EXCEPT ![a[1]][a[2]] = h] /\ UNCHANGED control
        /\ control.row.mode = "Running" /\ jobs[j].status = "queued" /\ HandoffTypeOK
        /\ control.row \in Witness
    BY <1>1, <1>3, <2>0, <2>1
    DEF ClaimNextWorkerHandoff, ClaimAdmissible, Oldest, Eligible, HandoffInv, HandoffTypeOK
  <2>3. h.state = "prepared" /\ h.by = control.row /\ h.receipt = NoValue
    OBVIOUS
  <2> HIDE DEF h
  <2>4. /\ State(a)' = "prepared" /\ By(a)' = control.row /\ Outcome(a)' = NoValue
        /\ \A k \in Attempts : k # a => handoffs'[k[1]][k[2]] = handoffs[k[1]][k[2]]
    BY <2>2, <2>3, RowWritten, Zenon
  <2>5. State(a) = "none" /\ AttemptInv(a)
    BY <2>1, <2>2, Zenon DEF PhaseInv, HandoffInv, HandoffAgrees, State
  <2>6. UNCHANGED <<control, episodes, runs, acked, late>>
    BY <1>1, <2>2 DEF NoWorkerStep
  <2>7. control.row.wk \in Nat /\ control.row.seq \in Nat
    BY <2>2, WitnessNat
  <2>8. AttemptInv(a)'
    BY <1>1, <2>2, <2>4, <2>5, <2>6, <2>7, NatOrder, Zenon DEF AttemptInv
  <2>9. ASSUME NEW m \in late, m.cmd \in {"dispatch", "ack"}, m.a = a PROVE LateInv(m)'
    BY <2>5, <2>9, Zenon DEF PhaseInv, LateInv
  <2>10. /\ sup' \in SupRow /\ sup'.pc = "mark" /\ sup'.target = a
         /\ sup'.me = sup.me /\ sup'.child = sup.child /\ sup'.boot = sup.boot
    BY <1>1, <1>3, <2>0, <2>1, Zenon DEF PhaseTypeOK, SupRow, Place
  <2>11. PhaseTypeOK' /\ BootInv'
    BY <1>1, <2>10, MoveFacts, Zenon DEF PhaseTypeOK, Working, NoWorkerStep
  <2>12. ControlInv' /\ TargetInv'
    BY <1>1, <2>2, <2>10, Zenon DEF ControlInv, TargetInv, NoWorkerStep
  <2> QED
    BY <2>4, <2>6, <2>8, <2>9, <2>10, <2>11, <2>12, RowStep, Zenon
<1> QED
  BY <1>2, <1>3, Zenon DEF Claim

\* The mark comes before the send: no request for the attempt is on its way.
LEMMA MarkInv ==
    ASSUME PhaseInv, HandoffTypeOK, Mark
    PROVE  PhaseInv'
<1>1. /\ sup.pc = "mark" /\ sup.pc \in Working /\ PhaseTypeOK
      /\ NoWorkerStep /\ UNCHANGED lastBoot
  BY DEF Mark, PhaseInv, Working, NoBoot
<1>2. PICK a \in Attempts : a = sup.target
  BY <1>1, Zenon DEF PhaseInv, TargetInv
<1>3. CASE Exit /\ NoStoreStep
  BY <1>1, <1>3, EndFacts, RestStep DEF Exit
<1>4. CASE MarkDispatched(a[1], a[2]) /\ Goto(sup, "dispatch")
  <2> DEFINE h == [handoffs[a[1]][a[2]] EXCEPT !.state = "may_have_been_dispatched", !.at = now]
  <2>1. /\ handoffs' = [handoffs EXCEPT ![a[1]][a[2]] = h] /\ UNCHANGED control
        /\ State(a) = "prepared" /\ control.row = By(a) /\ AttemptInv(a)
    BY <1>4 DEF MarkDispatched, State, By, PhaseInv
  <2>2. handoffs[a[1]][a[2]] \in HandoffRow
    BY DEF HandoffTypeOK, Attempts
  <2>3. h.state = "may_have_been_dispatched" /\ h.receipt = Outcome(a) /\ h.by = By(a)
    BY <2>2 DEF HandoffRow, By, Outcome
  <2> HIDE DEF h
  <2>4. /\ State(a)' = "may_have_been_dispatched" /\ UNCHANGED <<By(a), Outcome(a)>>
        /\ \A k \in Attempts : k # a => handoffs'[k[1]][k[2]] = handoffs[k[1]][k[2]]
    BY <2>1, <2>3, RowWritten, Zenon
  <2>5. UNCHANGED <<control, episodes, runs, acked, late>> /\ runs[a] = 0
    BY <1>1, <2>1, Zenon DEF NoWorkerStep, AttemptInv
  <2>6. AttemptInv(a)'
    BY <2>1, <2>4, <2>5, Zenon DEF AttemptInv
  <2>7. ASSUME NEW m \in late, m.cmd \in {"dispatch", "ack"}, m.a = a PROVE LateInv(m)'
    BY <2>1, <2>7 DEF PhaseInv, LateInv
  <2>8. "dispatch" \in Working
    BY DEF Working
  <2>9. sup' \in SupRow /\ sup'.pc = "dispatch" /\ sup'.target = a /\ BootInv' /\ ControlInv'
    BY <1>1, <1>2, <1>4, <2>1, <2>8, GotoFacts DEF NoWorkerStep
  <2>10. PhaseTypeOK'
    BY <1>1, <2>9 DEF PhaseTypeOK, NoWorkerStep
  <2>11. TargetInv'
    BY <2>1, <2>4, <2>5, <2>9 DEF TargetInv
  <2> QED
    BY <2>4, <2>5, <2>6, <2>7, <2>9, <2>10, <2>11, RowStep, Zenon
<1> QED
  BY <1>2, <1>3, <1>4, Zenon DEF Mark

\* An accepted dispatch is recorded.
LEMMA AdmitInv ==
    ASSUME PhaseInv, HandoffTypeOK, Admit
    PROVE  PhaseInv'
<1>1. /\ sup.pc = "admit" /\ sup.pc \in Working /\ PhaseTypeOK
      /\ NoWorkerStep /\ UNCHANGED lastBoot
  BY DEF Admit, PhaseInv, Working, NoBoot
<1>2. PICK a \in Attempts : a = sup.target /\ runs[a] = 1 /\ State(a) = "may_have_been_dispatched"
  BY Zenon, <1>1 DEF PhaseInv, TargetInv
<1> DEFINE h == [handoffs[a[1]][a[2]] EXCEPT !.state = "admitted", !.at = now]
<1>3. /\ handoffs' = [handoffs EXCEPT ![a[1]][a[2]] = h] /\ UNCHANGED control /\ AttemptInv(a)
      /\ sup' = EndOf(sup)
  BY <1>2 DEF Admit, MarkAdmitted, PhaseInv
<1>4. handoffs[a[1]][a[2]] \in HandoffRow
  BY DEF HandoffTypeOK, Attempts
<1>5. h.state = "admitted" /\ h.receipt = Outcome(a) /\ h.by = By(a)
  BY <1>4 DEF HandoffRow, By, Outcome
<1> HIDE DEF h
<1>6. /\ State(a)' = "admitted" /\ UNCHANGED <<By(a), Outcome(a)>>
      /\ \A k \in Attempts : k # a => handoffs'[k[1]][k[2]] = handoffs[k[1]][k[2]]
  BY <1>3, <1>5, RowWritten, Zenon
<1>7. UNCHANGED <<control, episodes, runs, acked, late>>
  BY <1>1, <1>3 DEF NoWorkerStep
<1>8. AttemptInv(a)'
  BY Zenon, <1>2, <1>3, <1>6, <1>7 DEF AttemptInv
<1>9. ASSUME NEW m \in late, m.cmd \in {"dispatch", "ack"}, m.a = a PROVE LateInv(m)'
  BY <1>2, <1>9 DEF PhaseInv, LateInv
<1>10. /\ PhaseTypeOK' /\ BootInv' /\ ControlInv' /\ TargetInv' /\ sup'.pc # "dispatch"
  BY <1>1, <1>3, EndFacts, RestRow
<1> QED
  BY <1>6, <1>7, <1>8, <1>9, <1>10, RowStep, Zenon

\* An episode is started: it had not been, and is not started by another
\* request that is still on its way.
LEMMA StartFacts ==
    ASSUME PhaseInv, NEW a \in Attempts, NEW e \in Receipt \cup {Episode("running")},
           State(a) = "may_have_been_dispatched", runs[a] = 0,
           episodes' = [episodes EXCEPT ![a] = e], runs' = [runs EXCEPT ![a] = @ + 1],
           UNCHANGED <<handoffs, control, acked>>
    PROVE  /\ episodes' \in [Attempts -> Receipt \cup {Episode("none"), Episode("running")}]
           /\ runs' \in [Attempts -> Nat] /\ runs'[a] = 1 /\ episodes'[a] = e
           /\ AttemptInv(a)'
           /\ \A k \in Attempts : k # a => episodes'[k] = episodes[k] /\ runs'[k] = runs[k]
<1>1. PhaseTypeOK /\ AttemptInv(a)
  BY DEF PhaseInv
<1>2. /\ runs'[a] = 1 /\ episodes'[a] = e
      /\ \A k \in Attempts : k # a => episodes'[k] = episodes[k] /\ runs'[k] = runs[k]
      /\ episodes' \in [Attempts -> Receipt \cup {Episode("none"), Episode("running")}]
      /\ runs' \in [Attempts -> Nat]
  BY <1>1 DEF PhaseTypeOK
<1>3. e.status # "none"
  BY DEF Receipt, Episode
<1>4. UNCHANGED <<State(a), By(a), Outcome(a)>>
  BY Zenon DEF State, By, Outcome
<1>5. AttemptInv(a)'
  <2>1. /\ a \notin acked /\ Outcome(a) = NoValue
        /\ By(a) \in Witness /\ By(a).mode = "Running" /\ control.row # NoValue
        /\ By(a).wk <= control.row.wk /\ By(a).seq <= control.row.seq
        /\ By(a).seq = control.row.seq => By(a) = control.row
    BY <1>1, Zenon DEF AttemptInv
  <2>2. /\ State(a)' = "may_have_been_dispatched" /\ control' = control /\ a \notin acked'
        /\ By(a)' = By(a) /\ Outcome(a)' = NoValue
    BY Zenon, <1>4, <2>1
  <2>3. runs'[a] = 1 /\ episodes'[a].status # "none"
    BY <1>2, <1>3
  <2> QED
    BY <2>1, <2>2, <2>3, NatOrder, Zenon DEF AttemptInv
<1> QED
  BY <1>2, <1>5

\* The one dispatch: accepted, answered, refused or given up.
LEMMA DispatchInv ==
    ASSUME PhaseInv, HandoffInv, Dispatch
    PROVE  PhaseInv'
<1>1. /\ sup.pc = "dispatch" /\ sup.pc \in Working /\ PhaseTypeOK /\ BootInv /\ ControlInv
  BY Zenon DEF Dispatch, PhaseInv, Working
<1>2. PICK a \in Attempts :
         /\ a = sup.target /\ runs[a] = 0 /\ State(a) = "may_have_been_dispatched"
         /\ By(a) = control.row
  BY <1>1, Zenon DEF PhaseInv, TargetInv
<1>3. By(a) \in Witness /\ control.row # NoValue
  BY <1>2, Zenon DEF PhaseInv, AttemptInv
<1>4. ASSUME NEW m \in late, m.cmd = "dispatch", m.a = a PROVE FALSE
  BY Zenon, <1>1, <1>2, <1>4 DEF PhaseInv, LateInv
<1>5. CASE /\ ApplyDispatch(a) /\ Goto(sup, "admit")
           /\ UNCHANGED <<worker, acked, late>> /\ NoStoreStep /\ NoBoot
  <2>1. /\ episodes' \in [Attempts -> Receipt \cup {Episode("none"), Episode("running")}]
        /\ runs' \in [Attempts -> Nat] /\ runs'[a] = 1
        /\ AttemptInv(a)'
        /\ \A k \in Attempts : k # a => episodes'[k] = episodes[k] /\ runs'[k] = runs[k]
    BY <1>2, <1>5, StartFacts, Zenon DEF ApplyDispatch, NoStoreStep
  <2>2. "admit" \in Working
    BY DEF Working
  <2>3. sup' \in SupRow /\ sup'.pc = "admit" /\ sup'.target = a /\ BootInv' /\ ControlInv'
    BY <1>1, <1>2, <1>5, <2>2, GotoFacts, Zenon DEF NoStoreStep, NoBoot
  <2>4. PhaseTypeOK'
    BY <1>1, <1>5, <2>1, <2>3, Zenon DEF PhaseTypeOK, NoBoot
  <2>5. TargetInv'
    BY <1>2, <1>5, <2>1, <2>3, Zenon DEF TargetInv, State, By, NoStoreStep
  <2> QED
    BY <1>4, <1>5, <2>1, <2>3, <2>4, <2>5, EpisodeStep, Zenon DEF NoStoreStep
<1>6. ASSUME NEW r \in Receipt,
             episodes' = [episodes EXCEPT ![a] = r], runs' = [runs EXCEPT ![a] = @ + 1],
             sup' = [sup EXCEPT !.pc = "complete", !.receipt = r, !.w = NoValue],
             UNCHANGED <<worker, acked, late>>, NoStoreStep, NoBoot
      PROVE  PhaseInv'
  <2>1. /\ episodes' \in [Attempts -> Receipt \cup {Episode("none"), Episode("running")}]
        /\ runs' \in [Attempts -> Nat] /\ runs'[a] = 1 /\ episodes'[a] = r
        /\ AttemptInv(a)'
        /\ \A k \in Attempts : k # a => episodes'[k] = episodes[k] /\ runs'[k] = runs[k]
    BY <1>2, <1>6, StartFacts, Zenon DEF NoStoreStep
  <2>2. /\ sup' \in SupRow /\ sup'.pc = "complete" /\ sup'.target = a /\ sup'.receipt = r
        /\ sup'.w = NoValue
        /\ sup'.me = sup.me /\ sup'.child = sup.child /\ sup'.boot = sup.boot
    BY <1>1, <1>2, <1>6, Zenon DEF PhaseTypeOK, SupRow, Place
  <2>3. BootInv' /\ PhaseTypeOK'
    BY <1>1, <1>6, <2>1, <2>2, MoveFacts DEF PhaseTypeOK, NoBoot, Working
  <2>4. ControlInv'
    BY <1>1, <1>6, <2>2 DEF ControlInv, NoStoreStep, NoBoot
  <2>5. ValidHandoff(a[1], a[2])
    <3>1. a[1] \in Jobs /\ a[2] \in Numbers
      BY DEF Attempts
    <3>2. HandoffAgrees(a[1], a[2])
      BY <3>1 DEF HandoffInv
    <3> QED
      BY <1>2, <3>2, Zenon DEF HandoffAgrees, ValidHandoff, State, Nonterminal
  <2>6. Authorised(a[1], a[2], NoValue)
    BY Zenon, <1>2, <1>3 DEF Authorised, SameIncarnation, By
  <2>7. ValidHandoff(a[1], a[2])' /\ Authorised(a[1], a[2], NoValue)' /\ UNCHANGED State(a)
    BY Zenon, <1>6, <2>5, <2>6 DEF ValidHandoff, Authorised, SameIncarnation, State, NoStoreStep
  <2>8. TargetInv'
    BY <1>2, <2>1, <2>2, <2>7, Zenon DEF TargetInv
  <2> QED
    BY <1>4, <1>6, <2>1, <2>2, <2>3, <2>4, <2>8, EpisodeStep DEF NoStoreStep
<1>7. CASE sup' = EndOf(sup) /\ NoStoreStep /\ NoWorkerStep /\ NoBoot
  BY <1>1, <1>7, EndFacts, RestStep DEF NoBoot
<1>8. CASE GiveUp([cmd |-> "dispatch", a |-> a, w |-> By(a)])
  <2>1. [cmd |-> "dispatch", a |-> a, w |-> By(a)] \in Request
    BY <1>3, Zenon DEF Request
  <2> QED
    BY <1>1, <1>2, <1>8, <2>1, GiveUpInv, Zenon
<1> QED
  BY <1>2, <1>5, <1>6, <1>7, <1>8, Zenon DEF Dispatch, By

\* The worker is gone: no request of an exchange can be read any more.
LEMMA GoneFacts ==
    ASSUME PhaseInv, HandoffTypeOK, WorkerGone, UNCHANGED <<control, lastBoot>>,
           \/ UNCHANGED sup
           \/ /\ sup' \in SupRow /\ sup'.boot = 0 /\ sup'.pc \notin Working /\ sup'.me = sup.me
    PROVE  /\ worker' \in WorkerRow /\ late' = {} /\ BootInv' /\ ControlInv'
<1>1. PhaseTypeOK /\ BootInv /\ ControlInv
  BY DEF PhaseInv
<1>2. worker' = Down /\ Down \in WorkerRow /\ worker'.boot = 0 /\ late' = {}
  BY DEF WorkerGone, Down, WorkerRow, DesiredMode
<1>3. /\ sup.me \in Nat /\ sup.boot \in Nat /\ lastBoot \in Nat
  BY <1>1, BootNat
<1>4. BootInv'
  BY <1>1, <1>2, <1>3 DEF BootInv
<1>5. control.row # NoValue => control.row.wk # 0
  BY WorkerPhaseAssumption DEF HandoffTypeOK, Witness
<1>6. sup'.pc \in {"persist", "lookup", "claim"} => UNCHANGED sup
  BY DEF Working
<1>7. sup'.pc = "persist" => sup'.boot # 0
  BY <1>1, <1>6 DEF BootInv, Working
<1>8. ControlInv'
  BY <1>1, <1>2, <1>5, <1>6, <1>7, Zenon DEF ControlInv
<1> QED
  BY <1>2, <1>4, <1>8

\* The worker of the component is stopped, started, or left as it is.
LEMMA ComponentsInv ==
    ASSUME PhaseInv, HandoffTypeOK, Components
    PROVE  PhaseInv'
<1>1. /\ sup.pc = "components" /\ PhaseTypeOK /\ BootInv /\ ControlInv /\ sup.boot = 0
      /\ UNCHANGED <<episodes, runs, acked, handoffs, control>>
  BY DEF Components, PhaseInv, BootInv, Working, NoStoreStep
<1>2. ASSUME NEW c \in BOOLEAN, NEW p \in {"finish", "probe"},
             sup' = [sup EXCEPT !.pc = p, !.phase = "post", !.child = c]
      PROVE  /\ sup' \in SupRow /\ sup'.pc = p /\ sup'.boot = 0 /\ sup'.me = sup.me /\ sup'.child = c
  BY <1>1, <1>2, Zenon DEF PhaseTypeOK, SupRow, Place
<1> DEFINE p == IF sup.skipPost THEN "finish" ELSE "probe"
<1>3. p \in {"finish", "probe"} /\ sup.child \in BOOLEAN /\ sup \in SupRow
  BY <1>1 DEF PhaseTypeOK, SupRow
<1>4. \/ sup' = [sup EXCEPT !.pc = p, !.phase = "post", !.child = FALSE]
         /\ WorkerGone /\ UNCHANGED lastBoot
      \/ sup' = [sup EXCEPT !.pc = p, !.phase = "post", !.child = TRUE]
         /\ worker.boot = 0 /\ lastBoot + 1 \in Boots
         /\ worker' = [Down EXCEPT !.boot = lastBoot + 1]
         /\ lastBoot' = lastBoot + 1 /\ UNCHANGED late
      \/ sup' = [sup EXCEPT !.pc = p, !.phase = "post", !.child = sup.child]
         /\ UNCHANGED <<worker, late, lastBoot>>
  <2>1. [sup EXCEPT !.pc = p, !.phase = "post"]
          = [sup EXCEPT !.pc = p, !.phase = "post", !.child = sup.child]
    BY <1>3, Zenon DEF SupRow
  <2>2. ASSUME NEW c \in BOOLEAN
        PROVE  [[sup EXCEPT !.pc = p, !.phase = "post"] EXCEPT !.child = c]
                  = [sup EXCEPT !.pc = p, !.phase = "post", !.child = c]
    BY <1>3 DEF SupRow
  <2> QED
    BY <2>1, <2>2 DEF Components
<1> HIDE DEF p
<1>5. /\ sup' \in SupRow /\ sup'.pc \in {"finish", "probe"} /\ sup'.boot = 0 /\ sup'.me = sup.me
  BY <1>2, <1>3, <1>4, Zenon
<1>6. sup'.pc \notin Working
  BY <1>5, Zenon DEF Working
<1>7. /\ sup.me \in Nat /\ worker.boot \in Nat /\ lastBoot \in Nat
      /\ control.row # NoValue => control.row.wk <= lastBoot
  BY <1>1, BootNat, Zenon DEF ControlInv
<1>8. control.row # NoValue => control.row.wk \in Nat /\ control.row.seq \in Nat
  BY WitnessNat DEF HandoffTypeOK
<1>9. TargetInv' /\ sup'.pc \notin {"persist", "lookup", "claim", "dispatch"}
  BY Zenon, <1>5 DEF TargetInv
<1>10. CASE WorkerGone /\ UNCHANGED lastBoot
  <2>1. worker' \in WorkerRow /\ late' = {} /\ BootInv' /\ ControlInv'
    BY <1>1, <1>5, <1>6, <1>10, GoneFacts
  <2>2. PhaseTypeOK'
    BY <1>1, <1>5, <1>10, <2>1 DEF PhaseTypeOK
  <2> QED
    BY <1>1, <1>9, <2>1, <2>2, PassStep
<1>11. CASE /\ worker.boot = 0 /\ lastBoot + 1 \in Boots
            /\ worker' = [Down EXCEPT !.boot = lastBoot + 1]
            /\ lastBoot' = lastBoot + 1 /\ UNCHANGED late
  <2>1. worker' \in WorkerRow /\ worker'.boot = lastBoot + 1 /\ late = {}
    BY <1>1, <1>11 DEF WorkerRow, Down, DesiredMode, BootInv
  <2>2. PhaseTypeOK'
    BY <1>1, <1>5, <1>11, <2>1 DEF PhaseTypeOK
  <2>3. BootInv'
    BY <1>1, <1>5, <1>6, <1>7, <1>11, <2>1 DEF BootInv
  <2>4. ControlInv'
    BY <1>1, <1>5, <1>7, <1>8, <1>9, <1>11, <2>1 DEF ControlInv
  <2> QED
    BY <1>1, <1>9, <1>11, <2>2, <2>3, <2>4, PassStep
<1>12. CASE /\ sup' = [sup EXCEPT !.pc = p, !.phase = "post", !.child = sup.child]
            /\ UNCHANGED <<worker, late, lastBoot>>
  <2>1. sup'.child = sup.child
    BY <1>2, <1>3, <1>12, Zenon
  <2>2. Resting(sup')
    BY <1>5, <1>6, <2>1 DEF Resting
  <2>3. BootInv' /\ ControlInv' /\ TargetInv'
    BY <1>1, <1>12, <2>2, RestFacts DEF BootInv
  <2>4. PhaseTypeOK'
    BY <1>1, <1>5, <1>12 DEF PhaseTypeOK
  <2> QED
    BY <1>1, <1>9, <1>12, <2>3, <2>4, PassStep
<1> QED
  BY <1>4, <1>10, <1>11, <1>12

\* The end of a pass.
LEMMA FinishInv ==
    ASSUME PhaseInv, Finish
    PROVE  PhaseInv'
<1>1. UNCHANGED <<handoffs, control>> /\ NoWorkerStep /\ UNCHANGED lastBoot
  BY DEF Finish, NoStoreStep, NoBoot
<1>2. Resting(sup')
  BY EndFacts DEF Finish, PhaseInv
<1>3. PhaseTypeOK' /\ BootInv' /\ ControlInv' /\ TargetInv' /\ sup'.pc # "dispatch"
  BY <1>1, <1>2, RestRow
<1> QED
  BY <1>1, <1>3, PassStep DEF NoWorkerStep

\* The first pass of a new supervisor.
LEMMA FirstPassInv ==
    ASSUME PhaseInv, HandoffTypeOK, FirstPass
    PROVE  PhaseInv'
<1>1. /\ sup.pc = "boot" /\ sup' = [sup EXCEPT !.pc = "idle"] /\ PhaseTypeOK /\ BootInv
      /\ UNCHANGED <<handoffs, control, episodes, runs, acked, lastBoot>>
  BY DEF FirstPass, Goto, NoBoot, PhaseInv
<1>2. /\ sup' \in SupRow /\ sup'.pc = "idle" /\ sup'.me = sup.me /\ sup'.child = sup.child
      /\ sup'.boot = 0
  BY <1>1 DEF PhaseTypeOK, SupRow, Place, BootInv, Working
<1>3. sup'.pc \notin Working /\ TargetInv'
  BY Zenon, <1>2 DEF Working, TargetInv
<1>4. CASE WorkerGone
  <2>1. worker' \in WorkerRow /\ late' = {} /\ BootInv' /\ ControlInv'
    BY <1>1, <1>2, <1>3, <1>4, GoneFacts
  <2>2. PhaseTypeOK'
    BY <1>1, <1>2, <2>1 DEF PhaseTypeOK
  <2> QED
    BY <1>1, <1>2, <1>3, <2>1, <2>2, PassStep
<1>5. CASE UNCHANGED <<worker, late>>
  <2>1. Resting(sup') /\ NoWorkerStep
    BY <1>1, <1>2, <1>3, <1>5 DEF Resting, NoWorkerStep
  <2>2. PhaseTypeOK' /\ BootInv' /\ ControlInv' /\ TargetInv' /\ sup'.pc # "dispatch"
    BY <1>1, <2>1, RestRow
  <2> QED
    BY <1>1, <1>5, <2>2, PassStep
<1> QED
  BY <1>4, <1>5 DEF FirstPass

\* A step of another party leaves what the pass knows of its attempt true when
\* it leaves the rows and the episode of that attempt alone.
LEMMA TargetKept ==
    ASSUME TargetInv, UNCHANGED <<sup, handoffs, control>>,
           sup.pc \in {"dispatch", "admit"} => runs'[sup.target] = runs[sup.target],
           sup.pc = "complete" => episodes'[sup.target] = episodes[sup.target],
           sup.pc \in {"complete", "ack", "settle"} =>
              /\ jobs'[sup.target[1]] = jobs[sup.target[1]]
              /\ attempts'[sup.target[1]][sup.target[2]] = attempts[sup.target[1]][sup.target[2]]
    PROVE  TargetInv'
<1>1. sup' = sup /\ handoffs' = handoffs /\ control' = control
  BY Zenon
<1>2. sup.pc \in {"complete", "ack", "settle"} =>
         /\ ValidHandoff(sup.target[1], sup.target[2]) =>
               ValidHandoff(sup.target[1], sup.target[2])'
         /\ Authorised(sup.target[1], sup.target[2], sup.w) =>
               Authorised(sup.target[1], sup.target[2], sup.w)'
  BY Zenon DEF ValidHandoff, Authorised, SameIncarnation
<1>3. sup.pc \in {"complete", "ack", "settle"} =>
         (Replayed(sup.target[1], sup.target[2], sup.receipt, sup.w) =>
            Replayed(sup.target[1], sup.target[2], sup.receipt, sup.w)')
  BY <1>2, Zenon DEF Replayed
<1>4. State(sup.target)' = State(sup.target) /\ By(sup.target)' = By(sup.target)
  BY Zenon DEF State, By
<1> QED
  BY <1>1, <1>2, <1>3, <1>4, Zenon DEF TargetInv

\* The death of the worker.
LEMMA WorkerDiesInv ==
    ASSUME PhaseInv, HandoffTypeOK, WorkerDies
    PROVE  PhaseInv'
<1>1. /\ WorkerGone
      /\ UNCHANGED <<jobs, attempts, handoffs, control, sup, episodes, runs, acked, lastBoot>>
  BY DEF WorkerDies
<1>2. worker' \in WorkerRow /\ late' = {} /\ BootInv' /\ ControlInv'
  BY <1>1, GoneFacts
<1>3. TargetInv'
  BY <1>1, TargetKept, Zenon DEF PhaseInv
<1>4. PhaseTypeOK'
  BY <1>1, <1>2 DEF PhaseInv, PhaseTypeOK
<1> QED
  BY <1>1, <1>2, <1>3, <1>4, PassStep

\* A new supervisor is younger than any worker.
LEMMA RestartInv ==
    ASSUME PhaseInv, HandoffTypeOK, Restart
    PROVE  PhaseInv'
<1>1. /\ lastBoot + 1 \in Boots /\ lastBoot' = lastBoot + 1
      /\ sup' = [Idle(lastBoot + 1, FALSE) EXCEPT !.pc = "boot"]
      /\ UNCHANGED <<handoffs, control, worker, episodes, runs, acked, late>>
      /\ PhaseTypeOK /\ BootInv /\ ControlInv
  BY DEF Restart, NoStoreStep, NoWorkerStep, PhaseInv
<1>2. /\ sup' \in SupRow /\ sup'.pc = "boot" /\ sup'.boot = 0 /\ sup'.me = lastBoot + 1
      /\ sup'.child = FALSE
  BY <1>1, Zenon DEF SupRow, Idle, Place, DesiredMode
<1>3. worker.boot \in Nat /\ lastBoot \in Nat
  BY <1>1, BootNat
<1>4. control.row # NoValue => control.row.wk \in Nat
  BY WitnessNat DEF HandoffTypeOK
<1>5. /\ lastBoot' = lastBoot + 1 /\ worker.boot <= lastBoot
      /\ UNCHANGED <<worker, late, control>> /\ (worker.boot = 0 => late = {})
  BY <1>1 DEF BootInv
<1>6. PhaseTypeOK' /\ TargetInv'
  BY <1>1, <1>2 DEF PhaseTypeOK, TargetInv
<1>7. BootInv'
  BY <1>2, <1>3, <1>5 DEF BootInv, Working
<1>8. ControlInv'
  <2>1. control.row # NoValue =>
           /\ control.row.wk <= lastBoot
           /\ worker.boot # 0 => control.row.wk <= worker.boot
           /\ worker.boot = control.row.wk => worker.seq >= control.row.seq
    BY <1>1 DEF ControlInv
  <2> QED
    BY <1>2, <1>3, <1>4, <1>5, <2>1 DEF ControlInv
<1> QED
  BY <1>1, <1>2, <1>6, <1>7, <1>8, PassStep

\* A change of mode touches no row.
LEMMA ChangeModeInv ==
    ASSUME PhaseInv, ChangeMode
    PROVE  PhaseInv'
<1>1. /\ UNCHANGED <<jobs, attempts, handoffs, control, sup, lastBoot>>
      /\ UNCHANGED <<worker, episodes, runs, acked, late>>
  BY DEF ChangeMode, SetDesiredMode, NoWorkerStep
<1>2. TargetInv'
  BY <1>1, TargetKept DEF PhaseInv
<1>3. PhaseTypeOK' /\ BootInv' /\ ControlInv'
  BY <1>1, Zenon DEF PhaseInv, PhaseTypeOK, BootInv, ControlInv
<1> QED
  BY <1>1, <1>2, <1>3, PassStep

\* A quarantine runs between two passes.
LEMMA OperatorQuarantineInv ==
    ASSUME PhaseInv, OperatorQuarantine
    PROVE  PhaseInv'
<1>1. /\ UNCHANGED <<handoffs, control, sup, lastBoot>> /\ sup.pc = "idle"
      /\ UNCHANGED <<worker, episodes, runs, acked, late>>
  BY DEF OperatorQuarantine, NoWorkerStep
<1>2. TargetInv'
  BY Zenon, <1>1 DEF TargetInv
<1>3. PhaseTypeOK' /\ BootInv' /\ ControlInv'
  BY <1>1, Zenon DEF PhaseInv, PhaseTypeOK, BootInv, ControlInv
<1> QED
  BY <1>1, <1>2, <1>3, PassStep

\* A new job is no job of a handoff.
LEMMA SubmitInv ==
    ASSUME PhaseInv, HandoffInv, Submit
    PROVE  PhaseInv'
<1>1. PICK j \in Jobs : SubmitJob(j)
  BY DEF Submit
<1>2. /\ UNCHANGED <<attempts, handoffs, control, sup, lastBoot>> /\ jobs[j].status = "absent"
      /\ UNCHANGED <<worker, episodes, runs, acked, late>>
      /\ \A k \in Jobs : k # j => jobs'[k] = jobs[k]
  <2>1. jobs \in [Jobs -> JobRow]
    BY DEF HandoffInv, StoreInv, TypeOK
  <2> QED
    BY <1>1, <2>1 DEF Submit, SubmitJob, NoWorkerStep, NoBoot
<1>3. sup.pc \in {"complete", "ack", "settle"} => jobs'[sup.target[1]] = jobs[sup.target[1]]
  <2> SUFFICES ASSUME sup.pc \in {"complete", "ack", "settle"}
               PROVE  jobs'[sup.target[1]] = jobs[sup.target[1]]
    OBVIOUS
  <2>1. sup.target \in Attempts /\ ValidHandoff(sup.target[1], sup.target[2])
    BY Zenon DEF PhaseInv, TargetInv, Replayed
  <2>2. sup.target[1] \in Jobs /\ jobs[sup.target[1]].status # "absent"
    BY <2>1, Zenon DEF Attempts, ValidHandoff
  <2> QED
    BY <1>2, <2>2, Zenon
<1>4. TargetInv'
  BY <1>2, <1>3, TargetKept, Zenon DEF PhaseInv
<1>5. PhaseTypeOK' /\ BootInv' /\ ControlInv'
  BY <1>2, Zenon DEF PhaseInv, PhaseTypeOK, BootInv, ControlInv
<1> QED
  BY <1>2, <1>4, <1>5, PassStep, Zenon

\* An episode ends: the pass holds no receipt of one that runs.
LEMMA FinishEpisodeInv ==
    ASSUME PhaseInv, FinishEpisode
    PROVE  PhaseInv'
<1>1. PICK a \in Attempts, r \in Receipt :
         episodes[a].status = "running" /\ episodes' = [episodes EXCEPT ![a] = r]
  BY Zenon DEF FinishEpisode
<1>2. /\ UNCHANGED <<jobs, attempts, handoffs, control, sup, lastBoot, worker, runs, acked, late>>
      /\ PhaseTypeOK /\ BootInv /\ ControlInv /\ TargetInv /\ AttemptInv(a)
  BY DEF FinishEpisode, PhaseInv
<1>3. /\ episodes' \in [Attempts -> Receipt \cup {Episode("none"), Episode("running")}]
      /\ episodes'[a] = r /\ \A k \in Attempts : k # a => episodes'[k] = episodes[k]
  BY <1>1, <1>2 DEF PhaseTypeOK
<1>4. r.status \notin {"none", "running"}
  BY DEF Receipt
<1>5. sup.pc = "complete" => episodes'[sup.target] = episodes[sup.target]
  <2>1. sup.pc = "complete" => sup.target \in Attempts /\ episodes[sup.target] \in Receipt
    BY <1>2, Zenon DEF TargetInv
  <2>2. episodes[a] \notin Receipt
    BY <1>1 DEF Receipt
  <2> QED
    BY <1>3, <2>1, <2>2
<1>6. TargetInv'
  BY <1>2, <1>5, TargetKept, Zenon
<1>7. PhaseTypeOK' /\ BootInv' /\ ControlInv'
  BY <1>2, <1>3, Zenon DEF PhaseTypeOK, BootInv, ControlInv
<1>8. UNCHANGED <<State(a), By(a), Outcome(a)>>
  BY <1>2, Zenon DEF State, By, Outcome
<1>9. AttemptInv(a)'
  BY <1>1, <1>2, <1>3, <1>4, <1>8, Zenon DEF AttemptInv
<1>10. ASSUME NEW m \in late', m.cmd = "dispatch", m.a = a PROVE runs'[a] = 0
  BY <1>2, <1>10, Zenon DEF PhaseInv, LateInv
<1> QED
  BY <1>2, <1>3, <1>6, <1>7, <1>9, <1>10, EpisodeStep, Zenon

\* A request that was given up is read after all.
LEMMA HandleLateInv ==
    ASSUME PhaseInv, HandoffTypeOK, HandleLate
    PROVE  PhaseInv'
<1>1. PICK m \in late :
        /\ late' = late \ {m}
        /\ CASE m.cmd = "control"  -> ApplyControl(m.w) /\ UNCHANGED <<episodes, runs, acked>>
             [] m.cmd = "dispatch" -> /\ IF DispatchAdmitted(m.w)
                                         THEN ApplyDispatch(m.a)
                                         ELSE UNCHANGED <<episodes, runs>>
                                      /\ UNCHANGED <<worker, acked>>
             [] m.cmd = "ack"      -> /\ acked' = acked \cup {m.a}
                                      /\ UNCHANGED <<worker, episodes, runs>>
  BY Zenon DEF HandleLate
<1>2. /\ UNCHANGED <<jobs, attempts, handoffs, control, sup, lastBoot>>
      /\ PhaseTypeOK /\ BootInv /\ ControlInv /\ TargetInv /\ m \in Request /\ LateInv(m)
      /\ late' \subseteq Request /\ late' \subseteq late
  BY <1>1 DEF HandleLate, PhaseInv, PhaseTypeOK
<1>3. CASE m.cmd = "control"
  <2>1. ApplyControl(m.w) /\ UNCHANGED <<episodes, runs, acked>> /\ m.w \in Witness
    BY <1>1, <1>2, <1>3 DEF Request
  <2>2. m.w.mode \in DesiredMode /\ m.w.seq \in Nat
    BY <2>1, WitnessNat
  <2>3. /\ worker' \in WorkerRow /\ worker'.boot = worker.boot /\ worker'.seq >= worker.seq
        /\ worker'.seq \in Nat
    <3>1. worker \in WorkerRow /\ worker.seq \in Nat
      BY <1>2, BootNat DEF PhaseTypeOK
    <3>2. CASE ControlAccepted(m.w)
      <4>1. worker' = [worker EXCEPT !.mode = m.w.mode, !.seq = m.w.seq] /\ m.w.seq >= worker.seq
        BY <2>1, <2>2, <3>1, <3>2 DEF ApplyControl, ControlAccepted
      <4> QED
        BY <2>2, <3>1, <4>1, Zenon DEF WorkerRow
    <3>3. CASE ~ControlAccepted(m.w)
      BY <2>1, <3>1, <3>3 DEF ApplyControl
    <3> QED
      BY <3>2, <3>3
  <2>4. PhaseTypeOK' /\ BootInv'
    BY <1>2, <2>1, <2>3, Zenon DEF PhaseTypeOK, BootInv
  <2>5. TargetInv'
    BY <1>2, <2>1, TargetKept, Zenon
  <2>6. ControlInv'
    <3>1. control.row # NoValue => control.row.seq \in Nat
      BY WitnessNat DEF HandoffTypeOK
    <3>2. worker.seq \in Nat /\ (sup.pc = "persist" => sup.w.seq \in Nat)
      <4>1. sup.pc = "persist" => sup.w \in Witness
        BY <1>2, Zenon DEF ControlInv
      <4> QED
        BY <1>2, <4>1, BootNat, WitnessNat
    <3>3. UNCHANGED <<sup, control, lastBoot>> /\ worker'.boot = worker.boot
      BY <1>2, <2>3, Zenon
    <3>4. control.row # NoValue =>
             (worker.boot = control.row.wk => worker'.seq >= control.row.seq)
      <4>1. control.row # NoValue =>
               (worker.boot = control.row.wk => worker.seq >= control.row.seq)
        BY Zenon, <1>2 DEF ControlInv
      <4> QED
        BY <2>3, <3>1, <3>2, <4>1
    <3>5. sup.pc = "persist" => (worker.boot = sup.boot => worker'.seq >= sup.w.seq)
      <4>1. sup.pc = "persist" => (worker.boot = sup.boot => worker.seq >= sup.w.seq)
        BY <1>2, Zenon DEF ControlInv
      <4> QED
        BY <2>3, <3>2, <4>1
    <3> QED
      BY <1>2, <3>3, <3>4, <3>5, Zenon DEF ControlInv
  <2> QED
    BY <1>2, <2>1, <2>4, <2>5, <2>6, PassStep
<1>4. CASE m.cmd = "dispatch" /\ DispatchAdmitted(m.w)
  <2>1. PICK a \in Attempts : a = m.a
    BY <1>2, <1>4, Zenon DEF Request
  <2>2. /\ ApplyDispatch(a) /\ UNCHANGED <<worker, acked>>
        /\ State(a) = "may_have_been_dispatched" /\ runs[a] = 0
        /\ ~(sup.pc = "dispatch" /\ sup.target = a) /\ m.w = By(a)
    BY <1>1, <1>2, <1>4, <2>1 DEF LateInv
  <2>3. /\ episodes' \in [Attempts -> Receipt \cup {Episode("none"), Episode("running")}]
        /\ runs' \in [Attempts -> Nat] /\ runs'[a] = 1
        /\ AttemptInv(a)'
        /\ \A k \in Attempts : k # a => episodes'[k] = episodes[k] /\ runs'[k] = runs[k]
    BY <1>2, <2>2, StartFacts, Zenon DEF ApplyDispatch
  <2>4. sup.pc \in {"dispatch", "admit", "complete"} => sup.target \in Attempts /\ sup.target # a
    <3>1. /\ sup.pc \in {"dispatch", "admit", "complete"} => sup.target \in Attempts
          /\ sup.pc = "complete" => episodes[sup.target] \in Receipt
          /\ sup.pc = "admit" => runs[sup.target] = 1
      BY <1>2, Zenon DEF TargetInv
    <3>2. episodes[a] \notin Receipt
      <4>1. episodes[a].status = "none"
        BY Zenon, <2>2 DEF PhaseInv, AttemptInv
      <4> QED
        BY <4>1 DEF Receipt
    <3>3. sup.pc = "complete" => sup.target # a
      BY <3>1, <3>2, Zenon
    <3>4. sup.pc = "admit" => sup.target # a
      BY <2>2, <3>1
    <3> QED
      BY <2>2, <3>1, <3>3, <3>4, Zenon
  <2>5. TargetInv'
    BY <1>2, <2>3, <2>4, TargetKept, Zenon
  <2>6. PhaseTypeOK' /\ BootInv' /\ ControlInv'
    BY <1>2, <2>2, <2>3, Zenon DEF PhaseTypeOK, BootInv, ControlInv
  <2>7. ASSUME NEW k \in late', k.cmd = "dispatch", k.a = a PROVE runs'[a] = 0
    <3>1. k \in late /\ k \in Request /\ k.w = By(a) /\ k # m
      BY <1>1, <1>2, <2>7 DEF PhaseInv, LateInv
    <3>2. k = m
      <4>1. /\ k \in [cmd : {"dispatch"}, a : Attempts, w : Witness]
            /\ m \in [cmd : {"dispatch"}, a : Attempts, w : Witness]
        BY <1>2, <1>4, <2>7, <3>1, Zenon DEF Request
      <4>2. k.cmd = m.cmd /\ k.a = m.a /\ k.w = m.w
        BY <1>4, <2>1, <2>2, <2>7, <3>1, Zenon
      <4> QED
        BY <4>1, <4>2
    <3> QED
      BY <3>1, <3>2
  <2> QED
    BY <1>2, <2>2, <2>3, <2>5, <2>6, <2>7, EpisodeStep, Zenon
<1>5. CASE m.cmd = "dispatch" /\ ~DispatchAdmitted(m.w)
  <2>1. UNCHANGED <<worker, acked, episodes, runs>>
    BY <1>1, <1>5
  <2>2. TargetInv'
    BY <1>2, <2>1, TargetKept, Zenon
  <2>3. PhaseTypeOK' /\ BootInv' /\ ControlInv'
    BY <1>2, <2>1, Zenon DEF PhaseTypeOK, BootInv, ControlInv
  <2> QED
    BY <1>2, <2>1, <2>2, <2>3, PassStep, Zenon
<1>6. CASE m.cmd = "ack"
  <2>1. UNCHANGED <<worker, episodes, runs>> /\ acked' = acked \cup {m.a}
    BY <1>1, <1>6
  <2>2. m.a \in Attempts /\ State(m.a) \in {"completed", "failed", "acknowledged"}
    BY <1>2, <1>6, Zenon DEF Request, LateInv
  <2>3. TargetInv'
    BY <1>2, <2>1, TargetKept, Zenon
  <2>4. PhaseTypeOK' /\ BootInv' /\ ControlInv'
    BY <1>2, <2>1, <2>2, Zenon DEF PhaseTypeOK, BootInv, ControlInv
  <2> QED
    BY <1>2, <2>1, <2>2, <2>3, <2>4, PassStep, Zenon
<1> QED
  BY <1>2, <1>3, <1>4, <1>5, <1>6, Zenon DEF Request

\* A new deployment satisfies the invariant.
LEMMA PhaseInitInv == PhaseInit => PhaseInv
<1> SUFFICES ASSUME PhaseInit PROVE PhaseInv
  OBVIOUS
<1>1. 1 \in Boots /\ 0 \notin Boots
  BY WorkerPhaseAssumption
<1>2. /\ sup \in SupRow /\ sup.pc = "boot" /\ sup.me = 1 /\ sup.boot = 0 /\ sup.child = FALSE
  BY <1>1, Zenon DEF PhaseInit, Idle, SupRow, Place, DesiredMode
<1>3. worker \in WorkerRow /\ worker.boot = 0
  BY DEF PhaseInit, Down, WorkerRow, DesiredMode
<1>4. /\ episodes = [a \in Attempts |-> Episode("none")] /\ runs = [a \in Attempts |-> 0]
      /\ acked = {} /\ late = {} /\ lastBoot = 1 /\ control.row = NoValue
  BY DEF PhaseInit, HandoffInit
<1>5. PhaseTypeOK
  BY <1>1, <1>2, <1>3, <1>4 DEF PhaseTypeOK
<1>6. BootInv /\ ControlInv /\ TargetInv
  <2>1. sup.pc \notin Working
    BY <1>2 DEF Working
  <2>2. BootInv
    BY <1>2, <1>3, <1>4, <2>1 DEF BootInv
  <2>3. ControlInv /\ TargetInv
    BY <1>2, <1>4, Zenon DEF ControlInv, TargetInv
  <2> QED
    BY <2>2, <2>3
<1>7. ASSUME NEW a \in Attempts PROVE AttemptInv(a)
  <2>1. State(a) = "none" /\ Outcome(a) = NoValue
    BY <1>7 DEF PhaseInit, HandoffInit, NoHandoff, State, Outcome, Attempts
  <2>2. runs[a] = 0 /\ episodes[a].status = "none"
    BY <1>4, <1>7 DEF Episode
  <2> QED
    BY <1>4, <2>1, <2>2, NatOrder, Zenon DEF AttemptInv
<1> QED
  BY <1>4, <1>5, <1>6, <1>7 DEF PhaseInv

\* Every step of the phases is a transaction of the store, or none at all.
LEMMA PhaseUsesStore ==
    ASSUME PhaseInv, HandoffInv, [PhaseNext]_phaseVars
    PROVE  [HandoffNext]_handoffVars
<1>1. /\ PhaseTypeOK /\ ControlInv /\ TargetInv /\ HandoffTypeOK /\ sup \in SupRow
  BY Zenon DEF PhaseInv, HandoffInv, PhaseTypeOK
<1>2. NoStoreStep => UNCHANGED handoffVars
  BY DEF NoStoreStep, handoffVars
<1>3. CASE FirstPass
  BY <1>3, Zenon DEF FirstPass, HandoffNext, JobStep
<1>4. CASE \/ BeginPass \/ Probe \/ PeerMismatch \/ EnsureControl \/ Lookup \/ Acknowledge
           \/ Gate \/ Dispatch \/ Components \/ Crash \/ Restart
  BY <1>2, <1>4, Zenon
  DEF BeginPass, Probe, PeerMismatch, EnsureControl, ControlGivenUp, GiveUp, Lookup, Acknowledge,
      Gate, Dispatch, Components, Crash, Restart
<1>5. CASE PersistControl
  <2>1. sup.w \in Witness /\ SetWorkerControl(sup.w)
    BY <1>1, <1>5, Zenon DEF PersistControl, ControlInv
  <2> QED
    BY <2>1 DEF HandoffNext, HandoffStep
<1>6. CASE Complete
  <2>1. /\ sup.target \in Attempts /\ sup.receipt \in Receipt /\ sup.w \in Witness \cup {NoValue}
    BY <1>1, <1>6, Zenon DEF Complete, TargetInv, SupRow
  <2>2. sup.target[1] \in Jobs /\ sup.target[2] \in Numbers
    BY <2>1 DEF Attempts
  <2>3. NoStoreStep \/ CompleteHandoff(sup.target[1], sup.target[2], sup.receipt, sup.w)
    BY Zenon, <1>6 DEF Complete
  <2> QED
    BY <1>2, <2>1, <2>2, <2>3, Zenon DEF HandoffNext, HandoffStep
<1>7. CASE Settle
  <2>1. /\ sup.target \in Attempts /\ sup.receipt \in Receipt /\ sup.w \in Witness \cup {NoValue}
    BY <1>1, <1>7 DEF Settle, TargetInv, SupRow
  <2>2. sup.target[1] \in Jobs /\ sup.target[2] \in Numbers
    BY <2>1 DEF Attempts
  <2>3. AcknowledgeHandoff(sup.target[1], sup.target[2], sup.receipt, sup.w)
    BY <1>7 DEF Settle
  <2> QED
    BY <2>1, <2>2, <2>3, Zenon DEF HandoffNext, HandoffStep
<1>8. CASE Claim
  <2>1. control.row \in Witness
    BY <1>1, <1>8, Zenon DEF Claim, ControlInv, HandoffTypeOK
  <2>2. NoStoreStep \/ \E j \in Jobs : ClaimNextWorkerHandoff(j, control.row)
    BY <1>8, Zenon DEF Claim
  <2> QED
    BY <1>2, <2>1, <2>2 DEF HandoffNext, HandoffStep
<1>9. CASE Mark \/ Admit
  <2>1. sup.target \in Attempts
    BY <1>1, <1>9, Zenon DEF Mark, Admit, TargetInv
  <2>2. sup.target[1] \in Jobs /\ sup.target[2] \in Numbers
    BY <2>1 DEF Attempts
  <2>3. \/ NoStoreStep \/ MarkDispatched(sup.target[1], sup.target[2])
        \/ MarkAdmitted(sup.target[1], sup.target[2])
    BY <1>9, Zenon DEF Mark, Admit
  <2> QED
    BY <1>2, <2>2, <2>3, Zenon DEF HandoffNext, HandoffStep
<1>10. CASE Finish
  <2>1. NoStoreStep \/ (SetDesiredMode("Stopped") /\ UNCHANGED <<handoffs, control>>)
    BY <1>10 DEF Finish
  <2>2. "Stopped" \in DesiredMode
    BY DEF DesiredMode
  <2> QED
    BY <1>2, <2>1, <2>2, Zenon DEF HandoffNext, JobStep
<1>11. CASE ChangeMode \/ OperatorQuarantine \/ Submit
  BY <1>11, Zenon DEF ChangeMode, OperatorQuarantine, Submit, HandoffNext, JobStep
<1>12. CASE HandleLate \/ FinishEpisode \/ WorkerDies \/ UNCHANGED phaseVars
  BY <1>12, Zenon DEF HandleLate, FinishEpisode, WorkerDies, phaseVars, handoffVars
<1> QED
  BY <1>3, <1>4, <1>5, <1>6, <1>7, <1>8, <1>9, <1>10, <1>11, <1>12 DEF PhaseNext, SupervisorStep

\* Every step of the supervisor, the worker, the operator and of a death keeps
\* the invariants of the store and of the phases.
LEMMA PhaseNextInv == HandoffInv /\ PhaseInv /\ [PhaseNext]_phaseVars => HandoffInv' /\ PhaseInv'
<1> SUFFICES ASSUME HandoffInv, PhaseInv, [PhaseNext]_phaseVars PROVE HandoffInv' /\ PhaseInv'
  OBVIOUS
<1>1. HandoffInv'
  BY PhaseUsesStore, HandoffNextInv
<1>2. HandoffTypeOK /\ TypeOK
  BY DEF HandoffInv, StoreInv
<1>3. CASE SupervisorStep
  BY <1>1, <1>2, <1>3, FirstPassInv, BeginPassInv, ProbeInv, PeerMismatchInv, EnsureControlInv,
     PersistControlInv, PhaseLookupInv, CompleteInv, AcknowledgeInv, SettleInvPhase, GateInv,
     ClaimInv, MarkInv, DispatchInv, AdmitInv, ComponentsInv, FinishInv
  DEF SupervisorStep
<1>4. CASE \/ HandleLate \/ FinishEpisode \/ WorkerDies
           \/ Crash \/ Restart \/ ChangeMode \/ OperatorQuarantine \/ Submit
  BY <1>1, <1>2, <1>4, HandleLateInv, FinishEpisodeInv, WorkerDiesInv, CrashInv, RestartInv,
     ChangeModeInv, OperatorQuarantineInv, SubmitInv, Zenon
<1>5. CASE UNCHANGED phaseVars
  <2>1. /\ UNCHANGED <<jobs, attempts, handoffs, control, sup, lastBoot>>
        /\ UNCHANGED <<worker, episodes, runs, acked, late>>
    BY <1>5 DEF phaseVars
  <2>2. TargetInv'
    BY <2>1, TargetKept, Zenon DEF PhaseInv
  <2>3. PhaseTypeOK' /\ BootInv' /\ ControlInv'
    BY <2>1, Zenon DEF PhaseInv, PhaseTypeOK, BootInv, ControlInv
  <2> QED
    BY <1>1, <2>1, <2>2, <2>3, PassStep, Zenon
<1> QED
  BY <1>1, <1>3, <1>4, <1>5 DEF PhaseNext

\* For every number of jobs, attempts, boots and deaths: the rows of the store,
\* the pass that works on them and the requests still on their way agree.
THEOREM PhaseInvariant == PhaseSpec => [](HandoffInv /\ PhaseInv)
<1>1. PhaseInit => HandoffInv /\ PhaseInv
  BY PhaseInitInv, HandoffInitInv DEF PhaseInit
<1> QED
  BY <1>1, PhaseNextInv, PTL DEF PhaseSpec

\* The reconciliation pass uses the store only through its transactions, so
\* everything proved of the store under any callers holds of it.
THEOREM PhasesImplementStore == PhaseSpec => HandoffSpec
<1>1. PhaseInit => HandoffInit
  BY DEF PhaseInit
<1>2. HandoffInv /\ PhaseInv /\ [PhaseNext]_phaseVars => [HandoffNext]_handoffVars
  BY PhaseUsesStore
<1> QED
  BY <1>1, <1>2, PhaseInvariant, PTL DEF PhaseSpec, HandoffSpec

\* However processes die and answers are lost, no attempt is started twice:
\* the row is marked before its one dispatch is sent (mark_worker_handoff_may_have_been_dispatched_at).
THEOREM AttemptsStartedOnce == PhaseSpec => []StartedOnce
<1>1. PhaseInv => StartedOnce
  BY Zenon DEF PhaseInv, AttemptInv, StartedOnce
<1> QED
  BY <1>1, PhaseInvariant, PTL

\* A running episode is always reserved in the store, so no second claim.
THEOREM RunningReserved == PhaseSpec => []RunningIsReserved
<1>1. HandoffInv /\ PhaseInv => RunningIsReserved
  <2> SUFFICES ASSUME HandoffInv, PhaseInv, NEW a \in Attempts, episodes[a].status = "running"
               PROVE  /\ a \in Unresolved
                      /\ State(a) \in {"may_have_been_dispatched", "admitted"}
    BY DEF RunningIsReserved
  <2>1. State(a) \in {"may_have_been_dispatched", "admitted"}
    BY Zenon DEF PhaseInv, AttemptInv
  <2>2. a[1] \in Jobs /\ a[2] \in Numbers /\ HandoffAgrees(a[1], a[2])
    BY Zenon DEF Attempts, HandoffInv
  <2>3. attempts[a[1]][a[2]] \in {"running", "unknown"}
    BY <2>1, <2>2, Zenon DEF HandoffAgrees, Nonterminal, State
  <2> QED
    BY <2>1, <2>3 DEF Unresolved, UnresolvedStatus, Attempts
<1> QED
  BY <1>1, PhaseInvariant, PTL

\* What the store records is the receipt of the worker, and only a recorded
\* receipt is ever acknowledged to it.
THEOREM OutcomesAreTheWorkers == PhaseSpec => []OutcomeIsTheWorkers
<1>1. PhaseInv => OutcomeIsTheWorkers
  BY Zenon DEF PhaseInv, AttemptInv, OutcomeIsTheWorkers, Outcome, State
<1> QED
  BY <1>1, PhaseInvariant, PTL

\* The transaction after an exchange never meets a conflict: nothing another
\* process does in between changes the rows the pass read.
THEOREM FinishesNeverConflict == PhaseSpec => []FinishNeverConflicts
<1>1. HandoffInv /\ PhaseInv => FinishNeverConflicts
  <2> SUFFICES ASSUME HandoffInv, PhaseInv PROVE FinishNeverConflicts
    OBVIOUS
  <2> DEFINE a == sup.target
  <2>1. TargetInv
    BY DEF PhaseInv
  <2>2. ASSUME sup.pc = "complete"
        PROVE  CanComplete(a[1], a[2], sup.w) \/ Replayed(a[1], a[2], sup.receipt, sup.w)
    <3>1. /\ a \in Attempts /\ episodes[a] = sup.receipt
          /\ ValidHandoff(a[1], a[2]) /\ Authorised(a[1], a[2], sup.w)
          /\ State(a) \in {"may_have_been_dispatched", "admitted", "completed", "failed"}
      BY <2>1, <2>2, Zenon DEF TargetInv
    <3>2. State(a) \in {"completed", "failed"} => Outcome(a) = episodes[a]
      BY <3>1, Zenon DEF PhaseInv, AttemptInv
    <3> QED
      BY <3>1, <3>2, Zenon DEF CanComplete, Replayed, State, Outcome
  <2>3. sup.pc = "settle" => Replayed(a[1], a[2], sup.receipt, sup.w)
    BY <2>1, Zenon DEF TargetInv
  <2>4. ASSUME sup.pc = "admit"
        PROVE  ValidHandoff(a[1], a[2]) /\ SameIncarnation(a[1], a[2])
    <3>1. a \in Attempts /\ State(a) = "may_have_been_dispatched" /\ By(a) = control.row
      BY <2>1, <2>4, Zenon DEF TargetInv
    <3>2. control.row # NoValue
      BY <3>1, Zenon DEF PhaseInv, AttemptInv
    <3>3. a[1] \in Jobs /\ a[2] \in Numbers /\ HandoffAgrees(a[1], a[2])
      BY <3>1, Zenon DEF Attempts, HandoffInv
    <3> QED
      BY <3>1, <3>2, <3>3, Zenon DEF HandoffAgrees, ValidHandoff, SameIncarnation, Nonterminal, State, By
  <2> QED
    BY <2>2, <2>3, <2>4, Zenon DEF FinishNeverConflicts
<1> QED
  BY <1>1, PhaseInvariant, PTL

\* A worker that admits the dispatch of a handoff stands where the store does.
LEMMA AdmittedIsCurrent ==
    ASSUME PhaseInv, HandoffTypeOK, NEW a \in Attempts, State(a) # "none",
           DispatchAdmitted(By(a))
    PROVE  /\ control.row # NoValue /\ control.row.mode = "Running"
           /\ control.row.wk = worker.boot /\ control.row.seq = worker.seq
<1>1. /\ By(a) \in Witness /\ By(a).mode = "Running" /\ control.row # NoValue
      /\ By(a).wk <= control.row.wk /\ By(a).seq <= control.row.seq
      /\ By(a).seq = control.row.seq => By(a) = control.row
  BY Zenon DEF PhaseInv, AttemptInv
<1>2. By(a).wk = worker.boot /\ By(a).seq = worker.seq
  BY Zenon DEF DispatchAdmitted
<1>3. control.row \in Witness
  BY <1>1 DEF HandoffTypeOK
<1>4. /\ By(a).wk \in Nat /\ By(a).seq \in Nat /\ control.row.wk \in Nat /\ control.row.seq \in Nat
  BY <1>1, <1>3, WitnessNat, Zenon
<1>5. worker.boot # 0
  BY <1>1, <1>2, WorkerPhaseAssumption, Zenon DEF Witness
<1>6. /\ control.row.wk <= worker.boot
      /\ worker.boot = control.row.wk => worker.seq >= control.row.seq
  BY <1>1, <1>5, Zenon DEF PhaseInv, ControlInv
<1>7. control.row.wk = worker.boot
  BY <1>1, <1>2, <1>4, <1>6, NatOrder, Zenon
<1>8. control.row.seq = worker.seq
  BY <1>1, <1>2, <1>4, <1>6, <1>7, NatOrder, Zenon
<1> QED
  BY <1>1, <1>2, <1>7, <1>8, Zenon

\* Work starts only under the control row that is current in the store, also
\* when the dispatch was given up and is read late.
THEOREM NoStartsAfterPause == PhaseSpec => NoStartAfterPause
<1> DEFINE Current == /\ control.row # NoValue /\ control.row.mode = "Running"
                      /\ control.row.wk = worker.boot /\ control.row.seq = worker.seq
<1>1. ASSUME HandoffInv, PhaseInv, PhaseNext, runs' # runs PROVE Current
  <2>1. HandoffTypeOK
    BY <1>1 DEF HandoffInv
  <2>2. CASE Dispatch
    <3>1. /\ sup.target \in Attempts /\ State(sup.target) # "none"
      BY <1>1, <2>2, Zenon DEF Dispatch, PhaseInv, TargetInv
    <3>2. DispatchAdmitted(By(sup.target))
      BY <1>1, <2>2, Zenon DEF Dispatch, By, NoWorkerStep, GiveUp
    <3> QED
      BY <1>1, <2>1, <3>1, <3>2, AdmittedIsCurrent
  <2>3. CASE HandleLate
    <3>1. PICK m \in late : m.cmd = "dispatch" /\ DispatchAdmitted(m.w) /\ m \in Request
      BY <1>1, <2>3, Zenon DEF HandleLate, PhaseInv, PhaseTypeOK, Request
    <3>2. m.a \in Attempts /\ State(m.a) # "none" /\ m.w = By(m.a)
      BY Zenon, <1>1, <3>1 DEF PhaseInv, LateInv, Request
    <3> QED
      BY <1>1, <2>1, <3>1, <3>2, AdmittedIsCurrent, Zenon
  <2>4. CASE \/ FirstPass \/ BeginPass \/ Probe \/ PeerMismatch \/ EnsureControl \/ PersistControl
             \/ Lookup \/ Complete \/ Acknowledge \/ Settle \/ Gate \/ Claim \/ Mark \/ Admit
             \/ Components \/ Finish
    BY <1>1, <2>4, Zenon
    DEF FirstPass, BeginPass, Probe, PeerMismatch, EnsureControl, ControlGivenUp, PersistControl,
        Lookup, Complete, Acknowledge, Settle, Gate, Claim, Mark, Admit, Components, Finish,
        GiveUp, NoWorkerStep
  <2>5. CASE \/ FinishEpisode \/ WorkerDies \/ Crash \/ Restart \/ ChangeMode
             \/ OperatorQuarantine \/ Submit
    BY <1>1, <2>5, Zenon
    DEF FinishEpisode, WorkerDies, Crash, Restart, ChangeMode, OperatorQuarantine, Submit, NoWorkerStep
  <2> QED
    BY <1>1, <2>2, <2>3, <2>4, <2>5, Zenon DEF PhaseNext, SupervisorStep
<1>2. HandoffInv /\ PhaseInv /\ [PhaseNext]_phaseVars => [runs' # runs => Current]_phaseVars
  BY <1>1
<1> QED
  BY <1>2, PhaseInvariant, PTL DEF PhaseSpec, NoStartAfterPause
=============================================================================
