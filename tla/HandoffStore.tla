---------------------------- MODULE HandoffStore ----------------------------
(***************************************************************************)
(* The worker half of the watchdog store: tables worker_handoffs and       *)
(* worker_control over the job queue of JobStore.  One action per store    *)
(* transaction of storage_worker_claims_*.rs and storage_worker_           *)
(* completion_*.rs; a refused or repeated call changes no row.             *)
(*                                                                         *)
(* The immutable worker binding is the same for every row, so it is left   *)
(* out.  A boot identity is a number; a handoff tuple is its job and       *)
(* attempt; a terminal receipt is a status and a result, and its digests   *)
(* are the receipt itself.                                                 *)
(***************************************************************************)
EXTENDS JobStore

CONSTANTS
    EpisodeJobs,   \* jobs of the kind the worker runs
    Owner,         \* worker_owner_id of the binding
    Boots,         \* boot identities of watchdog and worker processes
    MaxSeq         \* largest control sequence (the wire integer bound)

ASSUME HandoffAssumption ==
    /\ EpisodeJobs \subseteq Jobs
    /\ Owner \in WorkerIds
    /\ MaxSeq \in Nat

VARIABLES
    handoffs,      \* handoffs[j][n]: the handoff of attempt n of job j
    control        \* the worker_control row; seq 0 when there is none

handoffVars == <<jobs, attempts, desiredMode, now, handoffs, control>>

HandoffState == {"prepared", "may_have_been_dispatched", "admitted",
                 "completed", "failed", "acknowledged"}
Nonterminal  == {"prepared", "may_have_been_dispatched", "admitted"}
Receipt      == [status : {"completed", "failed"}, result : Results]
Witness      == {w \in [wd : Boots, wk : Boots, mode : DesiredMode, seq : 1 .. MaxSeq] :
                    w.wd # w.wk}

HandoffRow == [state   : HandoffState \cup {"none"},
               by      : Witness \cup {NoValue},
               receipt : Receipt \cup {NoValue},
               at      : Time]

NoHandoff == [state |-> "none", by |-> NoValue, receipt |-> NoValue, at |-> 0]

HandoffInit ==
    /\ StoreInit
    /\ handoffs = [j \in Jobs |-> [n \in Numbers |-> NoHandoff]]
    /\ control = [row |-> NoValue, at |-> 0]

-----------------------------------------------------------------------------
(* Queries. *)

Rows == {a \in Jobs \X Numbers : handoffs[a[1]][a[2]].state # "none"}

HandedOff(j) == \E n \in Numbers : handoffs[j][n].state # "none"

\* unresolved_handoff_exists.
UnresolvedHandoffs == {a \in Rows : handoffs[a[1]][a[2]].state \in Nonterminal}

\* Mutant: a row with an outcome is no longer looked at.
PendingUnresolved == UnresolvedHandoffs

\* next_worker_handoff_for_reconciliation selects the oldest of these.
Pending == {a \in Rows : handoffs[a[1]][a[2]].state # "acknowledged"}

\* validate_handoff_job: what every load of a handoff demands of the job and
\* attempt rows it refers to.
ValidHandoff(j, n) ==
    LET h == handoffs[j][n] IN
    /\ jobs[j].count = n
    /\ \/ /\ h.state \in Nonterminal
          /\ \/ jobs[j].status = "running" /\ attempts[j][n] = "running"
             \/ jobs[j].status = "quarantined" /\ attempts[j][n] = "unknown"
          /\ jobs[j].result = NoValue
          /\ jobs[j].worker = Owner
       \/ /\ h.state \in {"completed", "acknowledged"}
          /\ h.receipt.status = "completed"
          /\ jobs[j].status = "completed" /\ attempts[j][n] = "completed"
          /\ jobs[j].result = h.receipt.result
          /\ jobs[j].lastError = "none"
          /\ jobs[j].worker = Owner
       \/ /\ h.state \in {"failed", "acknowledged"}
          /\ h.receipt.status = "failed"
          /\ jobs[j].status = "failed" /\ attempts[j][n] = "failed"
          /\ jobs[j].result = h.receipt.result
          /\ jobs[j].lastError = "terminal"
          /\ jobs[j].worker = NoValue

\* validate_current_worker_incarnation_tx.
SameIncarnation(j, n) ==
    /\ control.row # NoValue
    /\ control.row.wd = handoffs[j][n].by.wd
    /\ control.row.wk = handoffs[j][n].by.wk

\* The authority of a terminal report or acknowledgment: the incarnation the
\* handoff was bound to, or a recovery witness that is the current control row.
Authorised(j, n, w) ==
    IF w = NoValue THEN SameIncarnation(j, n) ELSE control.row = w

-----------------------------------------------------------------------------
(* Transactions. *)

\* set_worker_control_at, a newer sequence.
SetWorkerControl(w) ==
    /\ now >= control.at
    /\ control.row # NoValue => w.seq > control.row.seq
    /\ control' = [row |-> w, at |-> now]
    /\ UNCHANGED <<jobs, attempts, desiredMode, now, handoffs>>

\* The checks of claim_next_worker_handoff that fail with a conflict.
ClaimAdmissible(w) ==
    /\ control.row = w
    /\ w.mode = "Running"
    /\ desiredMode = "Running"

\* claim_next_worker_handoff.
ClaimNextWorkerHandoff(j, w) ==
    /\ ClaimAdmissible(w)
    /\ Unresolved = {} /\ UnresolvedHandoffs = {}
    /\ j \in Oldest({k \in EpisodeJobs : Eligible(k)})
    /\ jobs[j].created <= now
    /\ StartAttempt(j, Owner, NoValue)
    /\ handoffs' = [handoffs EXCEPT ![j][jobs[j].count + 1] =
          [state |-> "prepared", by |-> w, receipt |-> NoValue, at |-> now]]
    /\ UNCHANGED <<desiredMode, now, control>>

\* mark_worker_handoff_may_have_been_dispatched_at.
MarkDispatched(j, n) ==
    /\ ValidHandoff(j, n)
    /\ handoffs[j][n].state = "prepared"
    /\ now >= handoffs[j][n].at
    /\ desiredMode = "Running"
    /\ control.row = handoffs[j][n].by
    /\ handoffs' = [handoffs EXCEPT ![j][n] = [@ EXCEPT !.state = "may_have_been_dispatched", !.at = now]]
    /\ UNCHANGED <<jobs, attempts, desiredMode, now, control>>

\* mark_worker_handoff_admitted_at.
MarkAdmitted(j, n) ==
    /\ ValidHandoff(j, n)
    /\ SameIncarnation(j, n)
    /\ handoffs[j][n].state = "may_have_been_dispatched"
    /\ now >= handoffs[j][n].at
    /\ handoffs' = [handoffs EXCEPT ![j][n] = [@ EXCEPT !.state = "admitted", !.at = now]]
    /\ UNCHANGED <<jobs, attempts, desiredMode, now, control>>

\* complete_worker_handoff_with_authority_at, first completion.
CompleteHandoff(j, n, r, w) ==
    /\ ValidHandoff(j, n)
    /\ Authorised(j, n, w)
    /\ handoffs[j][n].state \in {"may_have_been_dispatched", "admitted"}
    /\ now >= handoffs[j][n].at
    /\ attempts' = [attempts EXCEPT ![j][n] = r.status]
    /\ jobs' = [jobs EXCEPT ![j] = [@ EXCEPT
          !.status = r.status,
          !.result = r.result,
          !.lastError = IF r.status = "completed" THEN "none" ELSE "terminal",
          !.worker = IF r.status = "completed" THEN jobs[j].worker ELSE NoValue]]
    /\ handoffs' = [handoffs EXCEPT ![j][n] =
          [@ EXCEPT !.state = r.status, !.receipt = r, !.at = now]]
    /\ UNCHANGED <<desiredMode, now, control>>

\* acknowledge_worker_handoff_with_authority_at, first acknowledgment.
AcknowledgeHandoff(j, n, r, w) ==
    /\ ValidHandoff(j, n)
    /\ handoffs[j][n].receipt = r
    /\ handoffs[j][n].state \in {"completed", "failed"}
    /\ Authorised(j, n, w)
    /\ now >= handoffs[j][n].at
    /\ handoffs' = [handoffs EXCEPT ![j][n] = [@ EXCEPT !.state = "acknowledged", !.at = now]]
    /\ UNCHANGED <<jobs, attempts, desiredMode, now, control>>

-----------------------------------------------------------------------------
(* The store under any callers.  A direct claimant settles only attempts it *)
(* claimed, whose identity nobody else is told; everything else may be      *)
(* called at any time, with any witness and any receipt.                    *)

JobStep ==
    /\ \/ \E j \in Jobs : SubmitJob(j)
       \/ \E j \in Jobs, w \in WorkerIds : ClaimNextJob(j, w)
       \/ \E j \in Jobs, n \in Numbers, r \in Results :
             handoffs[j][n].state = "none" /\ CompleteJob(j, n, r)
       \/ \E j \in Jobs, n \in Numbers, retry \in Time \cup {NoValue} :
             handoffs[j][n].state = "none" /\ FailJob(j, n, retry)
       \/ QuarantineInterruptedJobs
       \/ \E j \in Jobs, n \in Numbers : RetryAttempt(j, n, HandedOff(j))
       \/ \E j \in Jobs, n \in Numbers : QuarantineAttempt(j, n)
       \/ \E m \in DesiredMode : SetDesiredMode(m)
       \/ Tick
    /\ UNCHANGED <<handoffs, control>>

HandoffStep ==
    \/ \E w \in Witness : SetWorkerControl(w)
    \/ \E j \in Jobs, w \in Witness : ClaimNextWorkerHandoff(j, w)
    \/ \E j \in Jobs, n \in Numbers : MarkDispatched(j, n) \/ MarkAdmitted(j, n)
    \/ \E j \in Jobs, n \in Numbers, r \in Receipt, w \in Witness \cup {NoValue} :
          CompleteHandoff(j, n, r, w) \/ AcknowledgeHandoff(j, n, r, w)

HandoffNext == JobStep \/ HandoffStep

HandoffSpec == HandoffInit /\ [][HandoffNext]_handoffVars

-----------------------------------------------------------------------------
(* Properties. *)

\* The handoff and control rows keep their types.
HandoffTypeOK ==
    /\ handoffs \in [Jobs -> [Numbers -> HandoffRow]]
    /\ control \in [row : Witness \cup {NoValue}, at : Time]

\* A handoff whose outcome is open always passes the check that every load
\* makes, so the reconciliation that must settle it can read it, whatever the
\* operator, a restart or a direct claimant did to the job meanwhile.
OpenHandoffsLoad == \A a \in UnresolvedHandoffs : ValidHandoff(a[1], a[2])

\* A job that was handed to the worker once is never queued or claimed again:
\* its handoff stays the one of its latest attempt.
HandedOffOnce ==
    \A a \in Rows : /\ jobs[a[1]].count = a[2]
                   /\ jobs[a[1]].status # "queued"

\* What a terminal handoff says is what the job and attempt rows say, also
\* after an operator has quarantined the failed job.
OutcomeMatchesReceipt ==
    \A a \in Rows :
        LET h == handoffs[a[1]][a[2]] IN
        h.state \notin Nonterminal =>
            /\ h.receipt \in Receipt
            /\ attempts[a[1]][a[2]] = h.receipt.status
            /\ jobs[a[1]].result = h.receipt.result

\* No step takes a handoff back, or changes a receipt once recorded.
Rank == [none |-> 0, prepared |-> 1, may_have_been_dispatched |-> 2, admitted |-> 3,
         completed |-> 4, failed |-> 4, acknowledged |-> 5]

HandoffsOnlyAdvance ==
    [][\A j \in Jobs, n \in Numbers :
          /\ handoffs'[j][n] # handoffs[j][n] =>
                Rank[handoffs'[j][n].state] > Rank[handoffs[j][n].state]
          /\ handoffs[j][n].receipt # NoValue =>
                handoffs'[j][n].receipt = handoffs[j][n].receipt]_handoffVars
=============================================================================
