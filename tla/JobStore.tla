------------------------------ MODULE JobStore ------------------------------
(***************************************************************************)
(* The durable job queue of the watchdog store: tables jobs and attempts   *)
(* and the desired_mode row, with one action per store transaction         *)
(* (storage_jobs.rs, storage_retry_admin.rs, storage_quarantine_admin.rs,  *)
(* storage_metadata.rs).  Every transaction is atomic in SQLite, so it is  *)
(* one step; a call that is refused or that replays an earlier success     *)
(* changes no row and is a stuttering step.                                *)
(*                                                                         *)
(* Payloads, digests, lineage strings and audit text are left out.  A      *)
(* result stands for the pair (result, completion_digest), and lastError   *)
(* for who wrote the last_error column.                                    *)
(***************************************************************************)
EXTENDS Integers, FiniteSets

CONSTANTS
    Jobs,         \* identities a submitted job may be given
    WorkerIds,    \* values of the worker_id column
    Results,      \* results a job may complete with
    NoValue,      \* SQL NULL
    MaxJobs,      \* max_jobs: the retention bound of the jobs table
    MaxAttempts,  \* the largest attempt counter (u32::MAX in the code)
    MaxTime       \* the wall clock takes the values 0..MaxTime

ASSUME JobStoreAssumption ==
    /\ MaxJobs \in Nat /\ MaxAttempts \in Nat /\ MaxTime \in Nat
    /\ NoValue \notin Results /\ NoValue \notin WorkerIds /\ NoValue \notin Nat

VARIABLES
    jobs,         \* jobs[j]: the row of job j; status "absent" when there is none
    attempts,     \* attempts[j][n]: status of attempt n of j; "none" when no row
    desiredMode,  \* the metadata row desired_mode
    now           \* the wall clock the callers pass as now_ms

storeVars == <<jobs, attempts, desiredMode, now>>

DesiredMode   == {"Stopped", "Paused", "Running", "Draining"}
JobStatus     == {"queued", "running", "completed", "failed", "quarantined"}
AttemptStatus == {"running", "completed", "unknown", "failed"}
LastError     == {"none", "failure", "interrupted", "operator", "terminal"}
Numbers       == 1 .. MaxAttempts
Time          == 0 .. MaxTime

JobRow == [status    : JobStatus \cup {"absent"},
           created   : Time,
           nextRetry : Time \cup {NoValue},
           count     : 0 .. MaxAttempts,
           worker    : WorkerIds \cup {NoValue},
           result    : Results \cup {NoValue},
           lastError : LastError]

NoJob == [status |-> "absent", created |-> 0, nextRetry |-> NoValue, count |-> 0,
          worker |-> NoValue, result |-> NoValue, lastError |-> "none"]

StoreInit ==
    /\ jobs = [j \in Jobs |-> NoJob]
    /\ attempts = [j \in Jobs |-> [n \in Numbers |-> "none"]]
    /\ desiredMode \in DesiredMode
    /\ now = 0

-----------------------------------------------------------------------------
(* Queries the transactions make. *)

Present == {j \in Jobs : jobs[j].status # "absent"}

\* An attempt whose outcome the store does not know reserves the deployment.
UnresolvedStatus == {"running", "unknown"}

Unresolved == {a \in Jobs \X Numbers : attempts[a[1]][a[2]] \in UnresolvedStatus}

Eligible(j) ==
    /\ jobs[j].status = "queued"
    /\ jobs[j].nextRetry # NoValue
    /\ jobs[j].nextRetry <= now

\* ORDER BY created_at_ms, id LIMIT 1.  Identities are random, so any oldest
\* job may be the one selected.
Oldest(S) == {j \in S : \A k \in S : jobs[j].created <= jobs[k].created}

\* The latest attempt of a job: ORDER BY sequence DESC LIMIT 1.
IsLatest(j, n) ==
    /\ attempts[j][n] # "none"
    /\ \A m \in Numbers : attempts[j][m] # "none" => m <= n

-----------------------------------------------------------------------------
(* Transactions. *)

\* submit_job_at and insert_job_tx.
SubmitJob(j) ==
    /\ jobs[j].status = "absent"
    /\ Cardinality(Present) < MaxJobs
    /\ jobs' = [jobs EXCEPT ![j] = [NoJob EXCEPT !.status = "queued",
                                                 !.created = now,
                                                 !.nextRetry = now]]
    /\ UNCHANGED <<attempts, desiredMode, now>>

\* The two rows every claim writes, whoever the claimant is.
StartAttempt(j, w, retry) ==
    /\ jobs[j].count < MaxAttempts
    /\ jobs' = [jobs EXCEPT ![j] = [@ EXCEPT !.status = "running",
                                             !.worker = w,
                                             !.count = jobs[j].count + 1,
                                             !.nextRetry = retry]]
    /\ attempts' = [attempts EXCEPT ![j][jobs[j].count + 1] = "running"]

\* claim_next_job: the caller names itself; next_retry_at_ms is left as it was.
ClaimNextJob(j, w) ==
    /\ desiredMode = "Running"
    /\ Unresolved = {}
    /\ j \in Oldest({k \in Jobs : Eligible(k)})
    /\ StartAttempt(j, w, jobs[j].nextRetry)
    /\ UNCHANGED <<desiredMode, now>>

\* complete_job_at, first completion.  A repeated completion changes nothing.
CompleteJob(j, n, r) ==
    /\ jobs[j].status = "running"
    /\ attempts[j][n] = "running"
    /\ attempts' = [attempts EXCEPT ![j][n] = "completed"]
    /\ jobs' = [jobs EXCEPT ![j] = [@ EXCEPT !.status = "completed",
                                             !.result = r,
                                             !.lastError = "none"]]
    /\ UNCHANGED <<desiredMode, now>>

\* fail_job_at: retry is a time, or NoValue when the caller's budget is spent.
FailJob(j, n, retry) ==
    /\ jobs[j].status = "running"
    /\ attempts[j][n] = "running"
    /\ attempts' = [attempts EXCEPT ![j][n] = "failed"]
    /\ jobs' = [jobs EXCEPT ![j] = [@ EXCEPT
          !.status = IF retry = NoValue THEN "quarantined" ELSE "queued",
          !.nextRetry = retry,
          !.lastError = "failure",
          !.worker = NoValue]]
    /\ UNCHANGED <<desiredMode, now>>

\* quarantine_interrupted_jobs, called once by the first reconciliation of a
\* new supervisor.  A running job without exactly one running attempt makes
\* the whole transaction fail.
InterruptedAttempt(j) == {n \in Numbers : attempts[j][n] = "running"}

QuarantineInterruptedJobs ==
    LET interrupted == {j \in Jobs : jobs[j].status = "running"} IN
    /\ \A j \in interrupted : \E n \in Numbers : InterruptedAttempt(j) = {n}
    /\ attempts' = [j \in Jobs |-> [n \in Numbers |->
          IF j \in interrupted /\ attempts[j][n] = "running"
          THEN "unknown" ELSE attempts[j][n]]]
    /\ jobs' = [j \in Jobs |->
          IF j \in interrupted
          THEN [jobs[j] EXCEPT !.status = "quarantined", !.lastError = "interrupted"]
          ELSE jobs[j]]
    /\ UNCHANGED <<desiredMode, now>>

\* Mutant: any attempt that is over may be requeued.
RetryAnySettled(j, n, handedOff) ==
    /\ IsLatest(j, n)
    /\ attempts[j][n] \in {"failed", "completed"}
    /\ jobs[j].status \in {"failed", "quarantined", "completed"}
    /\ ~handedOff
    /\ jobs' = [jobs EXCEPT ![j] = [@ EXCEPT !.status = "queued",
                                             !.nextRetry = now,
                                             !.worker = NoValue]]
    /\ UNCHANGED <<attempts, desiredMode, now>>

\* admit_operator_retry, first admission of a requeue.  handedOff says that a
\* worker_handoffs row exists for the job.
RetryAttempt(j, n, handedOff) ==
    /\ IsLatest(j, n)
    /\ attempts[j][n] = "failed"
    /\ jobs[j].status \in {"failed", "quarantined"}
    /\ jobs[j].result = NoValue
    /\ ~handedOff
    /\ jobs' = [jobs EXCEPT ![j] = [@ EXCEPT !.status = "queued",
                                             !.nextRetry = now,
                                             !.worker = NoValue]]
    /\ UNCHANGED <<attempts, desiredMode, now>>

\* admit_operator_quarantine, first admission.  The result and the worker
\* ownership of the job are kept.
QuarantineAttempt(j, n) ==
    /\ IsLatest(j, n)
    /\ attempts[j][n] # "completed"
    /\ jobs[j].status \in {"running", "failed"}
    /\ attempts' = [attempts EXCEPT ![j][n] = IF @ = "running" THEN "unknown" ELSE @]
    /\ jobs' = [jobs EXCEPT ![j] = [@ EXCEPT !.status = "quarantined",
                                             !.nextRetry = NoValue,
                                             !.lastError = "operator"]]
    /\ UNCHANGED <<desiredMode, now>>

\* set_desired_mode_at.
SetDesiredMode(m) ==
    /\ desiredMode' = m
    /\ UNCHANGED <<jobs, attempts, now>>

\* The wall clock moves on, or is stepped back.
Tick ==
    /\ now' \in Time
    /\ UNCHANGED <<jobs, attempts, desiredMode>>

\* The job API without a worker: in-process callers and the job subcommands.
Next ==
    \/ \E j \in Jobs : SubmitJob(j)
    \/ \E j \in Jobs, w \in WorkerIds : ClaimNextJob(j, w)
    \/ \E j \in Jobs, n \in Numbers, r \in Results : CompleteJob(j, n, r)
    \/ \E j \in Jobs, n \in Numbers, retry \in Time \cup {NoValue} : FailJob(j, n, retry)
    \/ QuarantineInterruptedJobs
    \/ \E j \in Jobs, n \in Numbers : RetryAttempt(j, n, FALSE)
    \/ \E j \in Jobs, n \in Numbers : QuarantineAttempt(j, n)
    \/ \E m \in DesiredMode : SetDesiredMode(m)
    \/ Tick

Spec == StoreInit /\ [][Next]_storeVars

-----------------------------------------------------------------------------
(* Properties. *)

\* The store's rows keep their types.
TypeOK ==
    /\ jobs \in [Jobs -> JobRow]
    /\ attempts \in [Jobs -> [Numbers -> AttemptStatus \cup {"none"}]]
    /\ desiredMode \in DesiredMode
    /\ now \in Time

\* At most one attempt of the whole deployment has no known outcome, across
\* every job and claimant: claim_next_job refuses while one exists, and
\* neither quarantine nor a restart releases it.
SingleReservation == \A a, b \in Unresolved : a = b

\* An attempt that has a successor is one that is known to have failed: a
\* completed or uncertain attempt is never run again, whatever mix of
\* interruptions, quarantines and operator retries the job went through.
OnlyFailuresAreRetried ==
    \A j \in Jobs, n \in Numbers :
        n < jobs[j].count => attempts[j][n] = "failed"

\* The status of a job tells the truth about its latest attempt, which is
\* what every transaction relies on when it reads one table to write both.
TablesAgree ==
    \A j \in Jobs :
        /\ jobs[j].status = "absent" => jobs[j].count = 0
        /\ jobs[j].status \notin {"absent", "queued"} => jobs[j].count > 0
        /\ \A n \in Numbers :
              /\ attempts[j][n] = "none" <=> n > jobs[j].count
              /\ attempts[j][n] = "running"
                    <=> (jobs[j].status = "running" /\ n = jobs[j].count)
              /\ attempts[j][n] = "completed"
                    <=> (jobs[j].status = "completed" /\ n = jobs[j].count)
              /\ attempts[j][n] = "unknown"
                    => (jobs[j].status = "quarantined" /\ n = jobs[j].count)

\* A completed job, its result and its attempts are never written again.
CompletedIsFinal ==
    [][\A j \in Jobs : jobs[j].status = "completed" =>
           /\ jobs'[j] = jobs[j]
           /\ attempts'[j] = attempts[j]]_storeVars

\* The abstract outcome of an attempt: running and unknown are both open.
AbstractOutcome ==
    [j \in Jobs |-> [n \in Numbers |->
        IF attempts[j][n] \in UnresolvedStatus THEN "open" ELSE attempts[j][n]]]

Ledger == INSTANCE AttemptLedger WITH outcome <- AbstractOutcome

\* The job transactions implement the attempt ledger's promise.
ImplementsAttemptLedger == Ledger!Spec
=============================================================================
