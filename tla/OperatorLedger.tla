--------------------------- MODULE OperatorLedger ---------------------------
(***************************************************************************)
(* The durable ledger of operator commands and the audit log it shares its *)
(* transactions with (storage_admin/, storage_retry_admin.rs,              *)
(* storage_quarantine_admin.rs, storage_metadata.rs), for a deployment     *)
(* that has an admin endpoint.  There the desired mode is changed only by  *)
(* ledger commands, by the end of a drain and by a stop of the OS service. *)
(*                                                                         *)
(* Each admission is one immediate SQLite transaction of the owning loop,  *)
(* so it is one step; a refused or replayed one changes no row.  A         *)
(* fingerprint is the command with its arguments.  An audit row is the     *)
(* class of action that wrote it, which decides the limit it is held to.   *)
(***************************************************************************)
EXTENDS Integers, Sequences

CONSTANTS
    Keys,                \* idempotency keys
    Ids,                 \* request ids, fresh for every request sent
    Args,                \* arguments a command may carry
    MaxCommands,         \* MAX_OPERATOR_COMMANDS
    ReservedLifecycle,   \* RESERVED_LIFECYCLE_COMMANDS
    MaxAudit,            \* MAX_AUDIT_RECORDS
    ReservedCritical,    \* RESERVED_CRITICAL_AUDIT_RECORDS
    MaxJobs              \* max_jobs

\* RESERVED_STOP_COMMANDS and RESERVED_STOP_AUDIT_RECORDS are both 1.
ReservedStop == 1

ASSUME LedgerAssumption ==
    /\ MaxCommands \in Nat /\ ReservedLifecycle \in 0 .. MaxCommands
    /\ MaxAudit \in Nat /\ ReservedCritical \in 0 .. MaxAudit
    /\ MaxJobs \in Nat

VARIABLES
    ledger,       \* table operator_commands, in sequence order
    audit,        \* table audit: the class of each row
    jobs,         \* the number of rows of table jobs
    desiredMode   \* the metadata row desired_mode

ledgerVars == <<ledger, audit, jobs, desiredMode>>

DesiredMode == {"Stopped", "Paused", "Running", "Draining"}

\* OperatorCommand::desired_mode.
Lifecycle == {"start", "resume", "pause", "drain", "stop"}
ModeOf(name) ==
    CASE name \in {"start", "resume"} -> "Running"
      [] name = "pause" -> "Paused"
      [] name = "drain" -> "Draining"
      [] name = "stop"  -> "Stopped"

\* Commands whose transaction also changes the job tables.
JobCommand == {"job_submit", "quarantine", "retry"}
Mutation   == Lifecycle \cup JobCommand \cup {"reconcile", "backup", "release_activate"}

Request == [key : Keys, id : Ids, name : Mutation, args : Args]

\* job: the job id in the response of a submission; durable: the flag in the
\* response of a backup.
Receipt == [key : Keys, id : Ids, name : Mutation, args : Args,
            job : Nat, durable : BOOLEAN]

AuditClass == {"ordinary", "command", "lifecycle", "stop"}

LedgerInit ==
    /\ ledger = <<>>
    /\ audit = <<>>
    /\ jobs = 0
    /\ desiredMode \in DesiredMode

-----------------------------------------------------------------------------
(* Limits. *)

\* Mutant: every lifecycle command may use the emergency slot.
LedgerLimitShared(name) ==
    IF name \in Lifecycle THEN MaxCommands + ReservedStop
    ELSE MaxCommands - ReservedLifecycle

\* enforce_ledger_capacity.
LedgerLimit(name) ==
    IF name = "stop" THEN MaxCommands + ReservedStop
    ELSE IF name \in Lifecycle THEN MaxCommands
    ELSE MaxCommands - ReservedLifecycle

LedgerHasRoom(name) == Len(ledger) < LedgerLimit(name)

\* insert_audit_tx.
AuditLimit(class) ==
    CASE class = "stop" -> MaxAudit + ReservedStop
      [] class \in {"command", "lifecycle"} -> MaxAudit
      [] class = "ordinary" -> MaxAudit - ReservedCritical

AuditHasRoom(class) == Len(audit) < AuditLimit(class)

CommandClass(name) ==
    IF name = "stop" THEN "stop"
    ELSE IF name \in Lifecycle THEN "lifecycle"
    ELSE "command"

-----------------------------------------------------------------------------
(* Admission. *)

KeyUsed(k) == \E i \in DOMAIN ledger : ledger[i].key = k
IdUsed(d)  == \E i \in DOMAIN ledger : ledger[i].id = d

\* The row a replayed request is answered from.
Replays(r) == \E i \in DOMAIN ledger : /\ ledger[i].key = r.key
                                       /\ ledger[i].name = r.name
                                       /\ ledger[i].args = r.args

Fresh(r) == ~KeyUsed(r.key) /\ ~IdUsed(r.id) /\ LedgerHasRoom(r.name)

Record(r, job) ==
    ledger' = Append(ledger, [key |-> r.key, id |-> r.id, name |-> r.name,
                              args |-> r.args, job |-> job, durable |-> FALSE])

\* admit_operator_command, and complete_release_activation's share of it.
AdmitCommand(r) ==
    /\ r.name \notin JobCommand
    /\ Fresh(r)
    /\ AuditHasRoom(CommandClass(r.name))
    /\ desiredMode' = IF r.name \in Lifecycle THEN ModeOf(r.name) ELSE desiredMode
    /\ Record(r, 0)
    /\ audit' = Append(audit, CommandClass(r.name))
    /\ UNCHANGED jobs

\* admit_operator_job_submission: one job row, one receipt, two audit rows.
AdmitJobSubmission(r) ==
    /\ r.name = "job_submit"
    /\ Fresh(r)
    /\ jobs < MaxJobs
    /\ AuditHasRoom("ordinary") /\ Len(audit) + 1 < AuditLimit("command")
    /\ jobs' = jobs + 1
    /\ Record(r, jobs + 1)
    /\ audit' = audit \o <<"ordinary", "command">>
    /\ UNCHANGED desiredMode

\* admit_operator_quarantine and admit_operator_retry: what they do to the
\* job tables is in JobStore, and whether the attempt qualifies is open here.
AdmitDisposition(r) ==
    /\ r.name \in {"quarantine", "retry"}
    /\ Fresh(r)
    /\ AuditHasRoom("ordinary") /\ Len(audit) + 1 < AuditLimit("command")
    /\ Record(r, 0)
    /\ audit' = audit \o <<"ordinary", "command">>
    /\ UNCHANGED <<jobs, desiredMode>>

\* complete_operator_backup: the one update of a retained receipt.
CompleteBackup(i) ==
    /\ i \in DOMAIN ledger /\ ledger[i].name = "backup" /\ ~ledger[i].durable
    /\ AuditHasRoom("command")
    /\ ledger' = [ledger EXCEPT ![i].durable = TRUE]
    /\ audit' = Append(audit, "command")
    /\ UNCHANGED <<jobs, desiredMode>>

-----------------------------------------------------------------------------
(* The other writers of these rows. *)

\* set_desired_mode_at(Stopped): the end of a drain, or a stop of the service.
StopMode ==
    /\ AuditHasRoom("lifecycle")
    /\ desiredMode' = "Stopped"
    /\ audit' = Append(audit, "lifecycle")
    /\ UNCHANGED <<ledger, jobs>>

FinishDrain == desiredMode = "Draining" /\ StopMode

RequestStop == StopMode

\* Store::audit, establish_new_generation and the job and worker transactions.
OrdinaryAudit ==
    /\ AuditHasRoom("ordinary")
    /\ audit' = Append(audit, "ordinary")
    /\ UNCHANGED <<ledger, jobs, desiredMode>>

Admit(r) == AdmitCommand(r) \/ AdmitJobSubmission(r) \/ AdmitDisposition(r)

LedgerNext ==
    \/ \E r \in Request : Admit(r)
    \/ \E i \in DOMAIN ledger : CompleteBackup(i)
    \/ FinishDrain
    \/ RequestStop
    \/ OrdinaryAudit

LedgerSpec == LedgerInit /\ [][LedgerNext]_ledgerVars

-----------------------------------------------------------------------------
(* Properties. *)

\* The rows hold values of their columns.
LedgerTypeOK ==
    /\ ledger \in Seq(Receipt)
    /\ audit \in Seq(AuditClass)
    /\ jobs \in 0 .. MaxJobs
    /\ desiredMode \in DesiredMode

\* A deployment that is not stopped can be stopped: whatever fills the ledger
\* and the audit log, a fresh stop command still fits in both
\* (storage_metadata.rs 26, storage_admin/types.rs 27), until one has used an
\* emergency slot, and from then on nothing can start the deployment again.
StopAlwaysPossible ==
    desiredMode # "Stopped" => LedgerHasRoom("stop") /\ AuditHasRoom("stop")

\* The emergency slot holds nothing but a stop, and the lifecycle reserve
\* nothing but lifecycle commands (storage_admin/types.rs 27 to 39).
ReservesAreKept ==
    \A i \in DOMAIN ledger :
        /\ i > MaxCommands => ledger[i].name = "stop"
        /\ i > MaxCommands - ReservedLifecycle => ledger[i].name \in Lifecycle

\* No two receipts share an idempotency key or a request id, however often a
\* request is sent again.
OneReceiptPerCommand ==
    \A i, j \in DOMAIN ledger :
        (ledger[i].key = ledger[j].key \/ ledger[i].id = ledger[j].id) => i = j

\* A submission is acknowledged together with a job row of its own: the job a
\* receipt names exists and belongs to no other receipt.
SubmissionsHaveJobs ==
    \A i \in DOMAIN ledger :
        ledger[i].name = "job_submit" =>
            /\ ledger[i].job \in 1 .. jobs
            /\ \A j \in DOMAIN ledger : ledger[j].job = ledger[i].job => j = i

\* A mode other than Stopped becomes visible only together with the receipt of
\* the command that asked for it (storage_admin/admission.rs 117 to 119).
ModeNeedsReceipt ==
    [][desiredMode' # desiredMode /\ desiredMode' # "Stopped" =>
         /\ Len(ledger') = Len(ledger) + 1
         /\ LET last == ledger'[Len(ledger')]
            IN  last.name \in Lifecycle /\ ModeOf(last.name) = desiredMode']_ledgerVars

\* A retained receipt is never deleted, and the only thing that ever changes in
\* one is the durable flag of a backup, once (storage_admin/types.rs 22).
ReceiptsAreRetained ==
    [][/\ Len(ledger) <= Len(ledger')
       /\ \A i \in DOMAIN ledger :
            \/ ledger'[i] = ledger[i]
            \/ /\ ledger[i].name = "backup" /\ ~ledger[i].durable
               /\ ledger'[i] = [ledger[i] EXCEPT !.durable = TRUE]]_ledgerVars
=============================================================================
