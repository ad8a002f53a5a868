----------------------------- MODULE BackupProofs -----------------------------
(***************************************************************************)
(* Proofs about the operator ledger, for every set of keys, ids and        *)
(* arguments and every limit, and about the loop that owns it.  Every      *)
(* action of the ledger appends at most one receipt or sets the durable    *)
(* flag of one, so the lemmas first say what each does to the tables; the  *)
(* invariants then follow case by case.                                    *)
(*                                                                         *)
(* The commands of the owning loop (release activations, backups,          *)
(* lifecycle commands) follow, for every set of releases, keys, backups    *)
(* and limits and any number of requests and process deaths.  The          *)
(* invariants the runs check say nothing of a command in progress:         *)
(* DispatchIsAlone adds that nothing starts under an activation and that   *)
(* its marker is in place, CopyIsOfRow that a backup in progress belongs   *)
(* to its receipt, and FilesAreImages that every finished file is an       *)
(* earlier state of the ledger.  The loop implements OperatorLedger, so    *)
(* the theorems about the ledger hold of it.                               *)
(*                                                                         *)
(* The endpoint through which the owner of the ledger is reached is the    *)
(* last section.  It shares no variable with the rest.                     *)
(***************************************************************************)
EXTENDS Backup, AdminEndpoint, TLAPS

-----------------------------------------------------------------------------
(* The operator ledger. *)

\* A receipt of anything but a submission names no job.
OthersNameNoJob ==
    \A i \in DOMAIN ledger : ledger[i].name # "job_submit" => ledger[i].job = 0

LedgerInv ==
    /\ LedgerTypeOK
    /\ StopAlwaysPossible
    /\ ReservesAreKept
    /\ OneReceiptPerCommand
    /\ OthersNameNoJob
    /\ SubmissionsHaveJobs

\* The receipt an admission appends.
NewReceipt(r, job) == [key |-> r.key, id |-> r.id, name |-> r.name,
                       args |-> r.args, job |-> job, durable |-> FALSE]

\* The initial tables satisfy the invariant.
LEMMA LedgerInitInv == LedgerInit => LedgerInv
  <1> SUFFICES ASSUME LedgerInit PROVE LedgerInv
    OBVIOUS
  <1>1. LedgerTypeOK
    BY LedgerAssumption DEF LedgerInit, LedgerTypeOK
  <1>2. StopAlwaysPossible
    BY LedgerAssumption
    DEF LedgerInit, StopAlwaysPossible, LedgerHasRoom, AuditHasRoom, LedgerLimit,
        AuditLimit, ReservedStop
  <1>3. ReservesAreKept /\ OneReceiptPerCommand /\ OthersNameNoJob /\ SubmissionsHaveJobs
    BY DEF LedgerInit, ReservesAreKept, OneReceiptPerCommand, OthersNameNoJob,
           SubmissionsHaveJobs
  <1> QED BY <1>1, <1>2, <1>3 DEF LedgerInv

\* What an admission does to the ledger: the old rows stay, one row is added.
LEMMA RecordAppends ==
  ASSUME LedgerTypeOK, NEW r \in Request, NEW job \in Nat, Record(r, job)
  PROVE  /\ NewReceipt(r, job) \in Receipt
         /\ ledger' \in Seq(Receipt)
         /\ Len(ledger') = Len(ledger) + 1
         /\ DOMAIN ledger' = DOMAIN ledger \cup {Len(ledger) + 1}
         /\ DOMAIN ledger = 1 .. Len(ledger)
         /\ Len(ledger) \in Nat
         /\ \A i \in DOMAIN ledger : ledger'[i] = ledger[i]
         /\ ledger'[Len(ledger) + 1] = NewReceipt(r, job)
  <1>1. NewReceipt(r, job) \in Receipt
    BY DEF NewReceipt, Receipt, Request
  <1>2. ledger \in Seq(Receipt) /\ ledger' = Append(ledger, NewReceipt(r, job))
    BY DEF LedgerTypeOK, Record, NewReceipt
  <1> QED BY <1>1, <1>2

\* Whatever a fresh admission adds keeps the rows apart and in their limits.
LEMMA FreshRowIsNew ==
  ASSUME LedgerInv, NEW r \in Request, NEW job \in Nat, Fresh(r), Record(r, job)
  PROVE  /\ ReservesAreKept'
         /\ OneReceiptPerCommand'
  <1> DEFINE n == Len(ledger) + 1
  <1>1. LedgerTypeOK
    BY DEF LedgerInv
  <1>2. /\ DOMAIN ledger' = DOMAIN ledger \cup {n}
        /\ DOMAIN ledger = 1 .. Len(ledger) /\ Len(ledger) \in Nat
        /\ \A i \in DOMAIN ledger : ledger'[i] = ledger[i]
        /\ ledger'[n] = NewReceipt(r, job)
    BY <1>1, RecordAppends, Zenon
  <1>3. ledger'[n].key = r.key /\ ledger'[n].id = r.id /\ ledger'[n].name = r.name
    BY <1>2 DEF NewReceipt
  <1>4. OneReceiptPerCommand'
    <2>1. \A i \in DOMAIN ledger : ledger[i].key # r.key /\ ledger[i].id # r.id
      BY DEF Fresh, KeyUsed, IdUsed
    <2>2. OneReceiptPerCommand
      BY DEF LedgerInv
    <2> QED BY <1>2, <1>3, <2>1, <2>2 DEF OneReceiptPerCommand
  <1>5. ReservesAreKept'
    <2>1. ReservesAreKept
      BY DEF LedgerInv
    <2>2. /\ n > MaxCommands => r.name = "stop"
          /\ n > MaxCommands - ReservedLifecycle => r.name \in Lifecycle
      BY <1>2, LedgerAssumption DEF Fresh, LedgerHasRoom, LedgerLimit, Lifecycle
    <2> QED BY <1>2, <1>3, <2>1, <2>2 DEF ReservesAreKept
  <1> QED BY <1>4, <1>5

\* After an admission only a stop can have used an emergency slot, and a stop
\* leaves the deployment stopped.
LEMMA StopStaysPossible ==
  ASSUME LedgerInv, NEW r \in Request, Admit(r)
  PROVE  StopAlwaysPossible'
  <1>1. LedgerTypeOK /\ StopAlwaysPossible
    BY DEF LedgerInv
  <1>2. Len(ledger) \in Nat /\ Len(audit) \in Nat
    BY <1>1 DEF LedgerTypeOK
  <1>3. LedgerLimit("stop") = MaxCommands + 1 /\ AuditLimit("stop") = MaxAudit + 1
    BY DEF LedgerLimit, AuditLimit, ReservedStop
  <1>4. Fresh(r)
    BY DEF Admit, AdmitCommand, AdmitJobSubmission, AdmitDisposition
  <1>5. \E job \in Nat : Record(r, job)
    BY <1>1, LedgerAssumption
    DEF Admit, AdmitCommand, AdmitJobSubmission, AdmitDisposition, LedgerTypeOK
  <1>6. Len(ledger') = Len(ledger) + 1
    BY <1>1, <1>5, RecordAppends
  <1>7. r.name # "stop" => Len(ledger') <= MaxCommands
    BY <1>2, <1>4, <1>6, LedgerAssumption DEF Fresh, LedgerHasRoom, LedgerLimit, Lifecycle
  <1>8. r.name = "stop" => desiredMode' = "Stopped"
    BY DEF Admit, AdmitCommand, AdmitJobSubmission, AdmitDisposition, JobCommand,
           Lifecycle, ModeOf
  <1>9. r.name # "stop" => Len(audit') <= MaxAudit
    <2>1. CASE AdmitCommand(r)
      <3>1. Len(audit') = Len(audit) + 1
        BY <1>1, <2>1 DEF AdmitCommand, LedgerTypeOK
      <3>2. r.name # "stop" => Len(audit) < MaxAudit
        BY <2>1 DEF AdmitCommand, AuditHasRoom, AuditLimit, CommandClass
      <3> QED BY <1>2, <3>1, <3>2, LedgerAssumption
    <2>2. CASE AdmitJobSubmission(r) \/ AdmitDisposition(r)
      <3>1. Len(audit') = Len(audit) + 2
        BY <1>1, <2>2 DEF AdmitJobSubmission, AdmitDisposition, LedgerTypeOK
      <3>2. Len(audit) + 1 < MaxAudit
        BY <2>2 DEF AdmitJobSubmission, AdmitDisposition, AuditLimit
      <3> QED BY <1>2, <3>1, <3>2, LedgerAssumption
    <2> QED BY <2>1, <2>2 DEF Admit
  <1> QED
    BY <1>3, <1>6, <1>7, <1>8, <1>9, <1>2, LedgerAssumption
    DEF StopAlwaysPossible, LedgerHasRoom, AuditHasRoom

\* Receipts name jobs of their own after an admission.
LEMMA JobsStayNamedOnce ==
  ASSUME LedgerInv, NEW r \in Request, Admit(r)
  PROVE  OthersNameNoJob' /\ SubmissionsHaveJobs'
  <1> DEFINE n == Len(ledger) + 1
  <1>1. LedgerTypeOK /\ OthersNameNoJob /\ SubmissionsHaveJobs
    BY DEF LedgerInv
  <1>2. jobs \in Nat
    BY <1>1, LedgerAssumption DEF LedgerTypeOK
  <1>3. CASE AdmitJobSubmission(r)
    <2>1. Record(r, jobs + 1) /\ jobs' = jobs + 1 /\ r.name = "job_submit"
      BY <1>3 DEF AdmitJobSubmission
    <2>2. /\ DOMAIN ledger' = DOMAIN ledger \cup {n}
          /\ \A i \in DOMAIN ledger : ledger'[i] = ledger[i]
          /\ ledger'[n] = NewReceipt(r, jobs + 1)
      <3>1. jobs + 1 \in Nat
        BY <1>2
      <3> QED BY <1>1, <2>1, <3>1, RecordAppends, Zenon
    <2>3. ledger'[n].name = "job_submit" /\ ledger'[n].job = jobs + 1
      BY <2>1, <2>2 DEF NewReceipt
    <2>4. OthersNameNoJob'
      BY <1>1, <2>2, <2>3 DEF OthersNameNoJob
    <2>5. \A i \in DOMAIN ledger : ledger[i].job \in 0 .. jobs
      BY <1>1, <1>2 DEF OthersNameNoJob, SubmissionsHaveJobs
    <2> QED BY <1>1, <1>2, <2>1, <2>2, <2>3, <2>4, <2>5 DEF SubmissionsHaveJobs
  <1>4. CASE AdmitCommand(r) \/ AdmitDisposition(r)
    <2>1. Record(r, 0) /\ jobs' = jobs /\ r.name # "job_submit"
      BY <1>4 DEF AdmitCommand, AdmitDisposition, JobCommand
    <2>2. /\ DOMAIN ledger' = DOMAIN ledger \cup {n}
          /\ \A i \in DOMAIN ledger : ledger'[i] = ledger[i]
          /\ ledger'[n] = NewReceipt(r, 0)
      BY <1>1, <2>1, RecordAppends, Zenon
    <2>3. ledger'[n].name # "job_submit" /\ ledger'[n].job = 0
      BY <2>1, <2>2 DEF NewReceipt
    <2> QED BY <1>1, <1>2, <2>1, <2>2, <2>3 DEF OthersNameNoJob, SubmissionsHaveJobs
  <1> QED BY <1>3, <1>4 DEF Admit

\* An admission keeps the types of the rows.
LEMMA AdmitType ==
  ASSUME LedgerTypeOK, NEW r \in Request, Admit(r)
  PROVE  LedgerTypeOK'
  <1>1. /\ ledger \in Seq(Receipt) /\ audit \in Seq(AuditClass)
        /\ jobs \in 0 .. MaxJobs /\ desiredMode \in DesiredMode
    BY DEF LedgerTypeOK
  <1>2. CommandClass(r.name) \in AuditClass
    BY DEF CommandClass, AuditClass
  <1>3. <<"ordinary", "command">> \in Seq(AuditClass)
    BY DEF AuditClass
  <1>4. audit' \in Seq(AuditClass)
    <2>1. CASE AdmitCommand(r)
      BY <1>1, <1>2, <2>1 DEF AdmitCommand
    <2>2. CASE AdmitJobSubmission(r) \/ AdmitDisposition(r)
      <3>1. audit' = audit \o <<"ordinary", "command">>
        BY <2>2 DEF AdmitJobSubmission, AdmitDisposition
      <3> QED BY <1>1, <1>3, <3>1
    <2> QED BY <2>1, <2>2 DEF Admit
  <1>5. desiredMode' \in DesiredMode
    BY <1>1
    DEF Admit, AdmitCommand, AdmitJobSubmission, AdmitDisposition, ModeOf, DesiredMode,
        Lifecycle
  <1>6. jobs' \in 0 .. MaxJobs
    BY <1>1, LedgerAssumption DEF Admit, AdmitCommand, AdmitJobSubmission, AdmitDisposition
  <1>7. \E job \in Nat : Record(r, job)
    BY <1>1, LedgerAssumption DEF Admit, AdmitCommand, AdmitJobSubmission, AdmitDisposition
  <1>8. ledger' \in Seq(Receipt)
    BY <1>7, RecordAppends
  <1> QED BY <1>4, <1>5, <1>6, <1>8 DEF LedgerTypeOK

\* An admission preserves the invariant.
LEMMA AdmitInv ==
  ASSUME LedgerInv, NEW r \in Request, Admit(r)
  PROVE  LedgerInv'
  <1>1. LedgerTypeOK'
    BY AdmitType DEF LedgerInv
  <1>2. Fresh(r)
    BY DEF Admit, AdmitCommand, AdmitJobSubmission, AdmitDisposition
  <1>3. \E job \in Nat : Record(r, job)
    BY LedgerAssumption
    DEF LedgerInv, LedgerTypeOK, Admit, AdmitCommand, AdmitJobSubmission, AdmitDisposition
  <1>4. ReservesAreKept' /\ OneReceiptPerCommand'
    BY <1>2, <1>3, FreshRowIsNew
  <1> QED
    BY <1>1, <1>4, StopStaysPossible, JobsStayNamedOnce DEF LedgerInv

\* What the completion of a backup does to the ledger: one flag changes.
LEMMA CompletionSetsFlag ==
  ASSUME LedgerTypeOK, NEW i \in DOMAIN ledger, CompleteBackup(i)
  PROVE  /\ ledger' \in Seq(Receipt)
         /\ Len(ledger') = Len(ledger) /\ DOMAIN ledger' = DOMAIN ledger
         /\ ledger'[i] = [ledger[i] EXCEPT !.durable = TRUE]
         /\ \A j \in DOMAIN ledger \ {i} : ledger'[j] = ledger[j]
         /\ \A j \in DOMAIN ledger :
               /\ ledger'[j].key = ledger[j].key /\ ledger'[j].id = ledger[j].id
               /\ ledger'[j].name = ledger[j].name /\ ledger'[j].job = ledger[j].job
  <1>1. ledger \in Seq(Receipt) /\ ledger[i] \in Receipt
    BY DEF LedgerTypeOK
  <1>2. ledger' = [ledger EXCEPT ![i] = [ledger[i] EXCEPT !.durable = TRUE]]
    BY DEF CompleteBackup
  <1>3. [ledger[i] EXCEPT !.durable = TRUE] \in Receipt
    BY <1>1, Zenon DEF Receipt
  <1>4. /\ [ledger[i] EXCEPT !.durable = TRUE].key = ledger[i].key
        /\ [ledger[i] EXCEPT !.durable = TRUE].id = ledger[i].id
        /\ [ledger[i] EXCEPT !.durable = TRUE].name = ledger[i].name
        /\ [ledger[i] EXCEPT !.durable = TRUE].job = ledger[i].job
    BY <1>1 DEF Receipt
  <1> QED BY <1>1, <1>2, <1>3, <1>4

\* The completion of a backup preserves the invariant.
LEMMA CompleteBackupInv ==
  ASSUME LedgerInv, NEW i \in DOMAIN ledger, CompleteBackup(i)
  PROVE  LedgerInv'
  <1>1. LedgerTypeOK
    BY DEF LedgerInv
  <1>2. /\ ledger' \in Seq(Receipt)
        /\ Len(ledger') = Len(ledger) /\ DOMAIN ledger' = DOMAIN ledger
        /\ \A j \in DOMAIN ledger :
             /\ ledger'[j].key = ledger[j].key /\ ledger'[j].id = ledger[j].id
             /\ ledger'[j].name = ledger[j].name /\ ledger'[j].job = ledger[j].job
    BY <1>1, CompletionSetsFlag, Zenon
  <1>3. audit' = Append(audit, "command") /\ Len(audit) < MaxAudit
        /\ jobs' = jobs /\ desiredMode' = desiredMode
    BY DEF CompleteBackup, AuditHasRoom, AuditLimit
  <1>4. audit' \in Seq(AuditClass) /\ Len(audit') = Len(audit) + 1 /\ Len(audit) \in Nat
    BY <1>1, <1>3 DEF LedgerTypeOK, AuditClass
  <1>5. LedgerTypeOK'
    BY <1>1, <1>2, <1>3, <1>4 DEF LedgerTypeOK
  <1>6. StopAlwaysPossible'
    <2>1. AuditLimit("stop") = MaxAudit + 1
      BY DEF AuditLimit, ReservedStop
    <2> QED
      BY <1>2, <1>3, <1>4, <2>1, LedgerAssumption
      DEF LedgerInv, StopAlwaysPossible, LedgerHasRoom, AuditHasRoom
  <1>7. ReservesAreKept' /\ OneReceiptPerCommand' /\ OthersNameNoJob' /\ SubmissionsHaveJobs'
    <2>1. ReservesAreKept /\ OneReceiptPerCommand /\ OthersNameNoJob /\ SubmissionsHaveJobs
      BY Zenon DEF LedgerInv
    <2>2. ReservesAreKept'
      BY <1>2, <2>1, Zenon DEF ReservesAreKept
    <2>3. OneReceiptPerCommand'
      BY <1>2, <2>1, Zenon DEF OneReceiptPerCommand
    <2>4. OthersNameNoJob'
      BY <1>2, <2>1, Zenon DEF OthersNameNoJob
    <2>5. SubmissionsHaveJobs'
      <3> SUFFICES ASSUME NEW k \in DOMAIN ledger, ledger[k].name = "job_submit"
                   PROVE  /\ ledger'[k].job \in 1 .. jobs
                          /\ \A j \in DOMAIN ledger : ledger'[j].job = ledger'[k].job => j = k
        BY <1>2, <1>3, Zenon DEF SubmissionsHaveJobs
      <3>1. /\ ledger[k].job \in 1 .. jobs
            /\ \A j \in DOMAIN ledger : ledger[j].job = ledger[k].job => j = k
        BY <2>1, Zenon DEF SubmissionsHaveJobs
      <3> QED
        BY <1>2, <3>1, Zenon
    <2> QED
      BY <2>2, <2>3, <2>4, <2>5, Zenon
  <1> QED BY <1>5, <1>6, <1>7 DEF LedgerInv

\* A step that leaves the ledger and the jobs alone and writes one audit row
\* within its limit, without starting the deployment, preserves the invariant.
LEMMA AuditStepInv ==
  ASSUME LedgerInv, NEW class \in AuditClass \ {"stop"}, AuditHasRoom(class),
         audit' = Append(audit, class), UNCHANGED <<ledger, jobs>>,
         desiredMode' \in {"Stopped", desiredMode}
  PROVE  LedgerInv'
  <1>1. LedgerTypeOK
    BY DEF LedgerInv
  <1>2. AuditLimit(class) <= MaxAudit
    BY LedgerAssumption DEF AuditClass, AuditLimit
  <1>3. audit' \in Seq(AuditClass) /\ Len(audit') = Len(audit) + 1 /\ Len(audit) \in Nat
    BY <1>1 DEF LedgerTypeOK
  <1>4. LedgerTypeOK'
    BY <1>1, <1>3 DEF LedgerTypeOK, DesiredMode
  <1>5. Len(audit') <= MaxAudit
    <2>1. Len(audit) < AuditLimit(class) /\ AuditLimit(class) \in Int
      BY LedgerAssumption DEF AuditHasRoom, AuditClass, AuditLimit
    <2> QED BY <1>2, <1>3, <2>1, LedgerAssumption
  <1>6. StopAlwaysPossible'
    <2>1. AuditLimit("stop") = MaxAudit + 1
      BY DEF AuditLimit, ReservedStop
    <2> QED
      BY <1>3, <1>5, <2>1, LedgerAssumption
      DEF LedgerInv, StopAlwaysPossible, LedgerHasRoom, AuditHasRoom
  <1>7. ReservesAreKept' /\ OneReceiptPerCommand' /\ OthersNameNoJob' /\ SubmissionsHaveJobs'
    BY DEF LedgerInv, ReservesAreKept, OneReceiptPerCommand, OthersNameNoJob,
           SubmissionsHaveJobs
  <1> QED BY <1>4, <1>6, <1>7 DEF LedgerInv

\* Every step preserves the invariant.
LEMMA LedgerNextInv == LedgerInv /\ [LedgerNext]_ledgerVars => LedgerInv'
  <1> SUFFICES ASSUME LedgerInv, [LedgerNext]_ledgerVars PROVE LedgerInv'
    OBVIOUS
  <1>1. ASSUME NEW r \in Request, Admit(r) PROVE LedgerInv'
    BY <1>1, AdmitInv
  <1>2. ASSUME NEW i \in DOMAIN ledger, CompleteBackup(i) PROVE LedgerInv'
    BY <1>2, CompleteBackupInv
  <1>3. CASE FinishDrain \/ RequestStop
    <2>1. StopMode /\ "lifecycle" \in AuditClass \ {"stop"}
      BY <1>3 DEF FinishDrain, RequestStop, AuditClass
    <2> QED BY <2>1, AuditStepInv DEF StopMode
  <1>4. CASE OrdinaryAudit
    <2>1. "ordinary" \in AuditClass \ {"stop"}
      BY DEF AuditClass
    <2> QED BY <1>4, <2>1, AuditStepInv DEF OrdinaryAudit
  <1>5. CASE UNCHANGED ledgerVars
    BY <1>5
    DEF ledgerVars, LedgerInv, LedgerTypeOK, StopAlwaysPossible, LedgerHasRoom,
        AuditHasRoom, ReservesAreKept, OneReceiptPerCommand, OthersNameNoJob,
        SubmissionsHaveJobs
  <1> QED BY <1>1, <1>2, <1>3, <1>4, <1>5 DEF LedgerNext

\* The invariant holds in every reachable state.
THEOREM LedgerInvariant == LedgerSpec => []LedgerInv
  BY LedgerInitInv, LedgerNextInv, PTL DEF LedgerSpec

\* The rows keep their types.
THEOREM LedgerTypeCorrect == LedgerSpec => []LedgerTypeOK
  <1>1. LedgerInv => LedgerTypeOK
    BY DEF LedgerInv
  <1> QED BY <1>1, LedgerInvariant, PTL

\* Whatever the limits are, a deployment that is not stopped has room for a
\* stop command in the ledger and in the audit log.
THEOREM StopFits == LedgerSpec => []StopAlwaysPossible
  <1>1. LedgerInv => StopAlwaysPossible
    BY DEF LedgerInv
  <1> QED BY <1>1, LedgerInvariant, PTL

\* Reserved slots hold only the commands they are reserved for.
THEOREM ReservesKept == LedgerSpec => []ReservesAreKept
  <1>1. LedgerInv => ReservesAreKept
    BY DEF LedgerInv
  <1> QED BY <1>1, LedgerInvariant, PTL

\* A key and a request id each lead to at most one receipt, and a receipt of a
\* submission to a job of its own.
THEOREM ReceiptsIdentifyCommands ==
  LedgerSpec => [](OneReceiptPerCommand /\ SubmissionsHaveJobs)
  <1>1. LedgerInv => OneReceiptPerCommand /\ SubmissionsHaveJobs
    BY DEF LedgerInv
  <1> QED BY <1>1, LedgerInvariant, PTL

\* Receipts are never lost or rewritten, but for the flag of a backup.
THEOREM ReceiptsRetained == LedgerSpec => ReceiptsAreRetained
  <1> DEFINE Kept == /\ Len(ledger) <= Len(ledger')
                     /\ \A i \in DOMAIN ledger :
                          \/ ledger'[i] = ledger[i]
                          \/ /\ ledger[i].name = "backup" /\ ~ledger[i].durable
                             /\ ledger'[i] = [ledger[i] EXCEPT !.durable = TRUE]
  <1>1. LedgerInv /\ [LedgerNext]_ledgerVars => [Kept]_ledgerVars
    <2> SUFFICES ASSUME LedgerInv, LedgerNext PROVE Kept
      BY DEF ledgerVars
    <2>1. LedgerTypeOK /\ Len(ledger) \in Nat
      BY DEF LedgerInv, LedgerTypeOK
    <2>2. ASSUME NEW r \in Request, Admit(r) PROVE Kept
      <3>1. \E job \in Nat : Record(r, job)
        BY <2>1, <2>2, LedgerAssumption
        DEF LedgerTypeOK, Admit, AdmitCommand, AdmitJobSubmission, AdmitDisposition
      <3>2. /\ Len(ledger') = Len(ledger) + 1
            /\ \A i \in DOMAIN ledger : ledger'[i] = ledger[i]
        BY <2>1, <3>1, RecordAppends
      <3> QED BY <2>1, <3>2
    <2>3. ASSUME NEW i \in DOMAIN ledger, CompleteBackup(i) PROVE Kept
      <3>1. /\ Len(ledger') = Len(ledger)
            /\ ledger'[i] = [ledger[i] EXCEPT !.durable = TRUE]
            /\ \A j \in DOMAIN ledger \ {i} : ledger'[j] = ledger[j]
        BY <2>1, <2>3, CompletionSetsFlag
      <3>2. ledger[i].name = "backup" /\ ~ledger[i].durable
        BY <2>3 DEF CompleteBackup
      <3>3. ASSUME NEW j \in DOMAIN ledger
            PROVE  \/ ledger'[j] = ledger[j]
                   \/ /\ ledger[j].name = "backup" /\ ~ledger[j].durable
                      /\ ledger'[j] = [ledger[j] EXCEPT !.durable = TRUE]
        <4>1. CASE j = i
          BY <3>1, <3>2, <4>1, Zenon
        <4>2. CASE j # i
          BY <3>1, <4>2
        <4> QED BY <4>1, <4>2
      <3> QED BY <2>1, <3>1, <3>3
    <2>4. CASE FinishDrain \/ RequestStop \/ OrdinaryAudit
      BY <2>1, <2>4 DEF FinishDrain, RequestStop, StopMode, OrdinaryAudit
    <2> QED BY <2>2, <2>3, <2>4 DEF LedgerNext
  <1> QED BY <1>1, LedgerInvariant, PTL DEF LedgerSpec, ReceiptsAreRetained

\* A mode other than Stopped appears only with the receipt that asked for it.
THEOREM ModeHasReceipt == LedgerSpec => ModeNeedsReceipt
  <1> DEFINE last == ledger'[Len(ledger')]
             Asked == desiredMode' # desiredMode /\ desiredMode' # "Stopped" =>
                        /\ Len(ledger') = Len(ledger) + 1
                        /\ last.name \in Lifecycle /\ ModeOf(last.name) = desiredMode'
  <1>1. LedgerInv /\ [LedgerNext]_ledgerVars => [Asked]_ledgerVars
    <2> SUFFICES ASSUME LedgerInv, LedgerNext,
                        desiredMode' # desiredMode, desiredMode' # "Stopped"
                 PROVE  /\ Len(ledger') = Len(ledger) + 1
                        /\ last.name \in Lifecycle /\ ModeOf(last.name) = desiredMode'
      BY DEF ledgerVars
    <2>1. PICK r \in Request : AdmitCommand(r)
      BY DEF LedgerNext, Admit, AdmitJobSubmission, AdmitDisposition, CompleteBackup,
             FinishDrain, RequestStop, StopMode, OrdinaryAudit
    <2>2. r.name \in Lifecycle /\ desiredMode' = ModeOf(r.name) /\ Record(r, 0)
      BY <2>1 DEF AdmitCommand
    <2>3. Len(ledger') = Len(ledger) + 1 /\ last = NewReceipt(r, 0)
      BY <2>2, RecordAppends DEF LedgerInv
    <2> QED BY <2>2, <2>3 DEF NewReceipt
  <1> QED BY <1>1, LedgerInvariant, PTL DEF LedgerSpec, ModeNeedsReceipt

-----------------------------------------------------------------------------
(* The owning loop. *)

DispatchIsAlone ==
    /\ dispatch.phase # "idle" =>
          /\ desiredMode = "Stopped" /\ running = NoRelease
          /\ dispatch.request.args \in [release : Releases, rollback : BOOLEAN]
          /\ dispatch.request.name = "release_activate"
    /\ dispatch.phase \in {"prepared", "verified"} =>
          /\ IsPending /\ Pending.release = dispatch.request.args.release

ReleaseInv ==
    /\ ReleaseTypeOK
    /\ SelectorIsReadable
    /\ ChildrenRunTheSelection
    /\ DispatchIsAlone

\* The empty selector of a new deployment satisfies the invariant.
LEMMA ReleaseInitInv == Init => ReleaseInv
  BY ReleaseAssumption
  DEF Init, ReleaseInv, ReleaseTypeOK, SelectorIsReadable, ChildrenRunTheSelection,
      DispatchIsAlone, Selector, MaybeRelease, IsPending, Pending, NoMarker, Resting

\* A step that leaves the selector and the children alone and ends the dispatch,
\* or leaves it as it is without a change of mode, preserves the invariant.
LEMMA QuietStep ==
  ASSUME ReleaseInv, UNCHANGED <<selector, running>>, good' \subseteq Releases,
         dispatch' = Resting \/ UNCHANGED <<dispatch, desiredMode>>
  PROVE  ReleaseInv'
  <1>1. ReleaseTypeOK'
    BY DEF ReleaseInv, ReleaseTypeOK, Resting
  <1>2. SelectorIsReadable' /\ ChildrenRunTheSelection'
    BY DEF ReleaseInv, SelectorIsReadable, ChildrenRunTheSelection, IsPending, Pending
  <1>3. DispatchIsAlone'
    BY DEF ReleaseInv, DispatchIsAlone, IsPending, Pending, Resting
  <1> QED BY <1>1, <1>2, <1>3 DEF ReleaseInv

\* The marker of a request is a marker, and never taken for its absence.
LEMMA MarkerIsMarker ==
  ASSUME ReleaseInv, NEW r \in Request,
         r.args \in [release : Releases, rollback : BOOLEAN]
  PROVE  /\ MarkerFor(r) \in Marker /\ MarkerFor(r) # NoMarker
         /\ MarkerFor(r).release = r.args.release
         /\ MarkerFor(r).previous = selector.active
  <1>1. selector.active \in MaybeRelease
    BY DEF ReleaseInv, ReleaseTypeOK, Selector
  <1>2. r.key \in Keys /\ r.id \in Ids
    BY DEF Request
  <1>3. MarkerFor(r) \in Marker
    BY <1>1, <1>2 DEF MarkerFor, Marker
  <1>4. DOMAIN MarkerFor(r) = {"release", "rollback", "key", "id", "previous"}
    BY DEF MarkerFor
  <1>5. DOMAIN NoMarker = {"none"}
    BY DEF NoMarker
  <1>6. MarkerFor(r) # NoMarker
    BY <1>4, <1>5
  <1> QED BY <1>3, <1>6 DEF MarkerFor

\* Validation leaves a dispatch that holds still.
LEMMA ValidateInv ==
  ASSUME ReleaseInv, NEW r \in Request, r.name = "release_activate",
         r.args \in [release : Releases, rollback : BOOLEAN], Validate(r)
  PROVE  ReleaseInv'
  <1>1. CASE Admissible(r.args)
    <2>1. /\ dispatch' = [phase |-> "validated", request |-> r, prior |-> selector.active]
          /\ UNCHANGED <<selector, good, running, desiredMode>>
      BY <1>1 DEF Validate, ledgerVars
    <2>2. dispatch'.phase = "validated" /\ dispatch'.request = r
          /\ dispatch'.prior = selector.active
      BY <2>1
    <2>3. desiredMode = "Stopped" /\ running = NoRelease
      BY <1>1 DEF Admissible
    <2>4. ReleaseTypeOK'
      BY <2>1 DEF ReleaseInv, ReleaseTypeOK, Selector, InDispatch
    <2>5. SelectorIsReadable' /\ ChildrenRunTheSelection'
      BY <2>1 DEF ReleaseInv, SelectorIsReadable, ChildrenRunTheSelection, IsPending, Pending
    <2>6. DispatchIsAlone'
      BY <2>1, <2>2, <2>3 DEF DispatchIsAlone
    <2> QED BY <2>4, <2>5, <2>6 DEF ReleaseInv
  <1>2. CASE ~Admissible(r.args)
    <2>1. dispatch' = Resting /\ UNCHANGED <<selector, good, running>>
      BY <1>2 DEF Validate, Answer
    <2>2. good' \subseteq Releases
      BY <2>1 DEF ReleaseInv, ReleaseTypeOK
    <2> QED BY <2>1, <2>2, QuietStep
  <1> QED BY <1>1, <1>2

\* How a dispatch moves to its next phase.
LEMMA PhaseStep ==
  ASSUME ReleaseInv, dispatch.phase # "idle", NEW p \in {"validated", "prepared", "verified"},
         dispatch' = [dispatch EXCEPT !.phase = p]
  PROVE  /\ dispatch' \in InDispatch
         /\ dispatch'.phase = p /\ dispatch'.request = dispatch.request
         /\ dispatch.request \in Request
  <1>1. dispatch \in InDispatch
    BY DEF ReleaseInv, ReleaseTypeOK, Resting
  <1> QED BY <1>1 DEF InDispatch

\* The first transaction stores the marker and leaves the selection alone.
LEMMA PrepareInv == ASSUME ReleaseInv, Prepare PROVE ReleaseInv'
  <1> DEFINE r == dispatch.request
  <1>1. /\ dispatch.phase = "validated"
        /\ selector' = [selector EXCEPT !.state = "prepared", !.pending = MarkerFor(r)]
        /\ dispatch' = [dispatch EXCEPT !.phase = "prepared"]
        /\ UNCHANGED <<good, running, desiredMode>>
    BY DEF Prepare
  <1>2. r \in Request /\ r.args \in [release : Releases, rollback : BOOLEAN]
    BY <1>1, PhaseStep DEF ReleaseInv, DispatchIsAlone
  <1>3. /\ MarkerFor(r) \in Marker /\ MarkerFor(r) # NoMarker
        /\ MarkerFor(r).release = r.args.release
        /\ MarkerFor(r).previous = selector.active
    BY <1>2, MarkerIsMarker
  <1>4. selector \in Selector
    BY DEF ReleaseInv, ReleaseTypeOK
  <1>5. /\ selector'.state = "prepared" /\ selector'.active = selector.active
        /\ selector'.previous = selector.previous /\ selector'.pending = MarkerFor(r)
        /\ selector' \in Selector
    BY <1>1, <1>3, <1>4, Zenon DEF Selector
  <1>6. dispatch' \in InDispatch /\ dispatch'.phase = "prepared" /\ dispatch'.request = r
    BY <1>1, PhaseStep
  <1>7. ReleaseTypeOK'
    BY <1>1, <1>5, <1>6 DEF ReleaseInv, ReleaseTypeOK
  <1>8. SelectorIsReadable' /\ ChildrenRunTheSelection'
    BY <1>1, <1>3, <1>5
    DEF ReleaseInv, SelectorIsReadable, ChildrenRunTheSelection, IsPending, Pending
  <1>9. DispatchIsAlone'
    BY <1>1, <1>2, <1>3, <1>5, <1>6 DEF ReleaseInv, DispatchIsAlone, IsPending, Pending
  <1> QED BY <1>7, <1>8, <1>9 DEF ReleaseInv

\* Moving on to a later phase of the same dispatch changes nothing durable.
LEMMA AdvanceInv ==
  ASSUME ReleaseInv, NEW p \in {"prepared", "verified"}, dispatch.phase # "idle",
         IsPending /\ Pending.release = dispatch.request.args.release,
         dispatch' = [dispatch EXCEPT !.phase = p],
         UNCHANGED <<selector, good, running, desiredMode>>
  PROVE  ReleaseInv'
  <1>1. /\ dispatch' \in InDispatch
        /\ dispatch'.phase = p /\ dispatch'.request = dispatch.request
    BY PhaseStep
  <1>2. ReleaseTypeOK'
    BY <1>1 DEF ReleaseInv, ReleaseTypeOK
  <1>3. SelectorIsReadable' /\ ChildrenRunTheSelection'
    BY DEF ReleaseInv, SelectorIsReadable, ChildrenRunTheSelection, IsPending, Pending
  <1>4. DispatchIsAlone'
    BY <1>1 DEF ReleaseInv, DispatchIsAlone, IsPending, Pending
  <1> QED BY <1>2, <1>3, <1>4 DEF ReleaseInv

\* The second transaction selects the release of the marker and clears it.
LEMMA CompleteInv ==
  ASSUME ReleaseInv, Complete
  PROVE  /\ ReleaseInv'
         /\ IsPending /\ selector'.active = Pending.release /\ selector'.pending = NoMarker
         /\ desiredMode = "Stopped" /\ running = NoRelease
  <1> DEFINE rel == dispatch.request.args.release
  <1>1. /\ dispatch.phase = "verified" /\ dispatch' = Resting
        /\ selector' = Select(rel) /\ IsPending
        /\ UNCHANGED <<good, running, desiredMode>>
    BY DEF Complete, Completable, Answer
  <1>2. /\ desiredMode = "Stopped" /\ running = NoRelease
        /\ rel \in Releases /\ Pending.release = rel
    BY <1>1 DEF ReleaseInv, DispatchIsAlone
  <1>3. selector \in Selector /\ Pending.previous \in MaybeRelease
    BY <1>1 DEF ReleaseInv, ReleaseTypeOK, Selector, Marker, IsPending, Pending
  <1>4. /\ selector'.state = "active" /\ selector'.active = rel
        /\ selector'.previous = Pending.previous /\ selector'.pending = NoMarker
        /\ selector' \in Selector
    BY <1>1, <1>2, <1>3, Zenon DEF Select, Selector, MaybeRelease
  <1>5. ReleaseTypeOK'
    BY <1>1, <1>4 DEF ReleaseInv, ReleaseTypeOK
  <1>6. SelectorIsReadable'
    BY <1>2, <1>4, ReleaseAssumption DEF SelectorIsReadable, IsPending, Pending
  <1>7. ChildrenRunTheSelection' /\ DispatchIsAlone'
    BY <1>1, <1>2 DEF ChildrenRunTheSelection, DispatchIsAlone, Resting
  <1> QED BY <1>1, <1>2, <1>4, <1>5, <1>6, <1>7 DEF ReleaseInv

\* Every step preserves the invariant.
LEMMA ReleaseNextInv == ReleaseInv /\ [Next]_vars => ReleaseInv'
  <1> SUFFICES ASSUME ReleaseInv, [Next]_vars PROVE ReleaseInv'
    OBVIOUS
  <1>0. good \subseteq Releases
    BY DEF ReleaseInv, ReleaseTypeOK
  <1>1. ASSUME NEW k \in Keys, NEW d \in Ids, NEW a \in [release : Releases, rollback : BOOLEAN],
               NEW r, r = [key |-> k, id |-> d, name |-> "release_activate", args |-> a],
               AnswerFromReceipt(r) \/ Validate(r)
        PROVE  ReleaseInv'
    <2>1. a \in Args
      BY ReleaseAssumption
    <2>2. r \in Request /\ r.args = a /\ r.name = "release_activate"
      BY <1>1, <2>1 DEF Request, Mutation
    <2>3. CASE AnswerFromReceipt(r)
      BY <1>0, <2>3, QuietStep DEF AnswerFromReceipt, Answer
    <2>4. CASE Validate(r)
      BY <2>2, <2>4, ValidateInv
    <2> QED BY <1>1, <2>3, <2>4
  <1>2. ASSUME NEW r, OtherCommand(r) PROVE ReleaseInv'
    BY <1>0, <1>2, QuietStep DEF OtherCommand, Answer
  <1>3. CASE Prepare
    BY <1>3, PrepareInv
  <1>4. CASE PrepareAgain
    BY <1>4, AdvanceInv DEF PrepareAgain, MarkerIsOf, ledgerVars
  <1>5. CASE PrepareConflict \/ CompleteRefused \/ Crash
    BY <1>0, <1>5, QuietStep DEF PrepareConflict, CompleteRefused, Crash, Answer
  <1>6. CASE Verify
    <2>1. CASE dispatch.request.args.release \in good
      <3>1. IsPending /\ Pending.release = dispatch.request.args.release
        BY <1>6 DEF Verify, ReleaseInv, DispatchIsAlone
      <3> QED BY <1>6, <2>1, <3>1, AdvanceInv DEF Verify, ledgerVars
    <2>2. CASE dispatch.request.args.release \notin good
      BY <1>0, <1>6, <2>2, QuietStep DEF Verify, Answer
    <2> QED BY <2>1, <2>2
  <1>7. CASE Complete
    BY <1>7, CompleteInv
  <1>8. CASE Launch \/ Settle
    <2>1. /\ dispatch.phase = "idle" /\ UNCHANGED <<selector, good, dispatch>>
          /\ running' \in {selector.active, NoRelease}
      BY <1>8 DEF Launch, Settle
    <2>2. ReleaseTypeOK'
      BY <2>1 DEF ReleaseInv, ReleaseTypeOK, Selector, MaybeRelease
    <2>3. SelectorIsReadable' /\ ChildrenRunTheSelection' /\ DispatchIsAlone'
      BY <2>1
      DEF ReleaseInv, SelectorIsReadable, ChildrenRunTheSelection, DispatchIsAlone,
          IsPending, Pending
    <2> QED BY <2>2, <2>3 DEF ReleaseInv
  <1>9. CASE CatalogChange
    BY <1>9, QuietStep DEF CatalogChange, ledgerVars
  <1>10. CASE UNCHANGED vars
    BY <1>0, <1>10, QuietStep DEF vars, releaseVars, ledgerVars
  <1> QED
    BY <1>1, <1>2, <1>3, <1>4, <1>5, <1>6, <1>7, <1>8, <1>9, <1>10, Zenon DEF Next

-----------------------------------------------------------------------------
(* The loop with backups beside the activations. *)

\* A step of a backup leaves the selector and the children alone.
LEMMA BackupStepInv == ASSUME ReleaseInv, BackupStep PROVE ReleaseInv'
  <1>0. good \subseteq Releases
    BY DEF ReleaseInv, ReleaseTypeOK
  <1>1. ASSUME NEW r, r.name = "backup", AdmitBackup(r) PROVE ReleaseInv'
    <2>1. "backup" \notin Lifecycle
      BY DEF Lifecycle
    <2>2. UNCHANGED <<selector, running, good, dispatch, desiredMode>>
      BY <1>1, <2>1 DEF AdmitBackup, AdmitCommand
    <2> QED BY <1>0, <2>2, QuietStep
  <1>2. ASSUME NEW r, ReplayBackup(r) PROVE ReleaseInv'
    <2>1. UNCHANGED <<selector, running, good, dispatch, desiredMode>>
      BY <1>2, Zenon DEF ReplayBackup, ledgerVars
    <2> QED BY <1>0, <2>1, QuietStep
  <1>3. CASE ConfirmDurable \/ FinishBackup \/ AbandonBackup
    <2>1. dispatch' = Resting /\ UNCHANGED <<selector, running, good>>
      BY <1>3 DEF ConfirmDurable, FinishBackup, AbandonBackup, EndCopy, Answer
    <2> QED BY <1>0, <2>1, QuietStep
  <1>4. CASE ReserveDestination \/ FindDestination \/ CopyStore \/ VerifyCopy
    <2>1. UNCHANGED <<selector, running, good, dispatch, desiredMode>>
      BY <1>4 DEF ReserveDestination, FindDestination, CopyStore, VerifyCopy, vars,
                  releaseVars, ledgerVars
    <2> QED BY <1>0, <2>1, QuietStep
  <1> QED BY <1>1, <1>2, <1>3, <1>4, Zenon DEF BackupStep

\* Every other step of the loop is one of the release selector.
LEMMA LoopIsNext == LoopStep \/ CatalogChange \/ Die => Next
  BY Zenon DEF LoopStep, Die, Next

\* Every step of the loop preserves the invariant.
LEMMA AdminNextReleaseInv == ReleaseInv /\ [AdminNext]_adminVars => ReleaseInv'
  <1> SUFFICES ASSUME ReleaseInv, [AdminNext]_adminVars PROVE ReleaseInv'
    OBVIOUS
  <1>1. CASE BackupStep
    BY <1>1, BackupStepInv
  <1>2. CASE LoopStep \/ CatalogChange \/ Die
    BY <1>2, LoopIsNext, ReleaseNextInv
  <1>3. CASE UNCHANGED adminVars
    BY <1>3, ReleaseNextInv DEF adminVars
  <1> QED BY <1>1, <1>2, <1>3 DEF AdminNext

\* The invariant holds in every reachable state.
THEOREM ReleaseInvariant == AdminSpec => []ReleaseInv
  <1>1. AdminInit => ReleaseInv
    BY ReleaseInitInv DEF AdminInit
  <1> QED BY <1>1, AdminNextReleaseInv, PTL DEF AdminSpec

\* The selector can be read after a death at any point of an activation.
THEOREM SelectorReadable == AdminSpec => []SelectorIsReadable
  <1>1. ReleaseInv => SelectorIsReadable
    BY DEF ReleaseInv
  <1> QED BY <1>1, ReleaseInvariant, PTL

\* Live children run the selected release.
THEOREM ChildrenMatchSelection == AdminSpec => []ChildrenRunTheSelection
  <1>1. ReleaseInv => ChildrenRunTheSelection
    BY DEF ReleaseInv
  <1> QED BY <1>1, ReleaseInvariant, PTL

\* A marker stands until its release is selected, and nothing else is selected.
THEOREM MarkerHonoured == AdminSpec => MarkerIsHonoured
  <1> DEFINE Honoured ==
        /\ IsPending =>
             \/ selector'.pending = Pending
             \/ selector'.pending = NoMarker /\ selector'.active = Pending.release
        /\ selector'.active # selector.active =>
             IsPending /\ desiredMode = "Stopped" /\ running = NoRelease
  <1>1. ReleaseInv /\ [AdminNext]_adminVars => [Honoured]_vars
    <2> SUFFICES ASSUME ReleaseInv, AdminNext PROVE Honoured
      BY DEF adminVars
    <2>1. CASE UNCHANGED selector
      BY <2>1 DEF Pending
    <2>2. CASE Complete
      BY <2>2, CompleteInv
    <2>3. CASE Prepare
      <3>1. ~IsPending /\ selector' = [selector EXCEPT !.state = "prepared",
                                         !.pending = MarkerFor(dispatch.request)]
        BY <2>3 DEF Prepare
      <3>2. selector \in Selector
        BY DEF ReleaseInv, ReleaseTypeOK
      <3>3. selector'.active = selector.active
        BY <3>1, <3>2 DEF Selector
      <3> QED BY <3>1, <3>3
    <2>4. CASE BackupStep
      <3>1. UNCHANGED selector
        BY <2>4, Zenon DEF BackupStep, AdmitBackup, ReplayBackup, ConfirmDurable, ReserveDestination,
               FindDestination, CopyStore, VerifyCopy, FinishBackup, AbandonBackup, vars,
               releaseVars
      <3> QED BY <2>1, <3>1
    <2>5. UNCHANGED selector \/ Complete \/ Prepare \/ BackupStep
      BY Zenon DEF AdminNext, LoopStep, AnswerFromReceipt, Validate, OtherCommand, PrepareAgain,
             PrepareConflict, Verify, CompleteRefused, Launch, Settle, CatalogChange, Die, Crash
    <2> QED BY <2>1, <2>2, <2>3, <2>4, <2>5
  <1> QED BY <1>1, ReleaseInvariant, PTL DEF AdminSpec, MarkerIsHonoured

-----------------------------------------------------------------------------
(* The loop implements the operator ledger. *)

\* A command without arguments and a backup command are requests.
LEMMA LoopRequests ==
  ASSUME NEW k \in Keys, NEW d \in Ids
  PROVE  /\ \A n \in {"start", "stop"} :
               [key |-> k, id |-> d, name |-> n, args |-> NoArgs] \in Request
         /\ \A b \in BackupIds : [key |-> k, id |-> d, name |-> "backup", args |-> b] \in Request
  <1>1. NoArgs \in Args /\ BackupIds \subseteq Args
    BY ReleaseAssumption, BackupAssumption, Zenon DEF NoArgs
  <1> QED BY <1>1 DEF Request, Mutation, Lifecycle

\* Every step of the loop appends a receipt, sets the flag of one, adds an
\* ordinary audit row, or leaves the tables of the ledger alone.
LEMMA AdminStepIsLedgerStep ==
  ASSUME ReleaseInv, [AdminNext]_adminVars PROVE [LedgerNext]_ledgerVars
  <1>1. CASE Complete
    <2> DEFINE r == dispatch.request
    <2>1. dispatch.phase = "verified" /\ dispatch \in InDispatch
      BY <1>1 DEF Complete, ReleaseInv, ReleaseTypeOK, Resting
    <2>2. r \in Request /\ r.name = "release_activate"
      BY <2>1 DEF InDispatch, ReleaseInv, DispatchIsAlone
    <2>3. /\ Fresh(r) /\ AuditHasRoom("command") /\ Record(r, 0)
          /\ audit' = Append(audit, "command") /\ UNCHANGED <<jobs, desiredMode>>
      BY <1>1 DEF Complete, Completable
    <2>4. AdmitCommand(r)
      BY <2>2, <2>3 DEF AdmitCommand, JobCommand, Lifecycle, CommandClass
    <2> QED BY <2>2, <2>4 DEF LedgerNext, Admit
  <1>2. CASE Prepare
    <2>1. OrdinaryAudit
      BY <1>2 DEF Prepare, OrdinaryAudit
    <2> QED BY <2>1 DEF LedgerNext
  <1>3. ASSUME NEW k \in Keys, NEW d \in Ids, NEW n \in {"start", "stop"},
               OtherCommand([key |-> k, id |-> d, name |-> n, args |-> NoArgs])
        PROVE  LedgerNext
    BY <1>3, LoopRequests, Zenon DEF OtherCommand, LedgerNext, Admit
  <1>4. ASSUME NEW k \in Keys, NEW d \in Ids, NEW b \in BackupIds,
               AdmitBackup([key |-> k, id |-> d, name |-> "backup", args |-> b])
        PROVE  LedgerNext
    BY <1>4, LoopRequests, Zenon DEF AdmitBackup, LedgerNext, Admit
  <1>5. CASE FinishBackup
    <2>1. CompleteBackup(copy.row) /\ copy.row \in DOMAIN ledger
      BY <1>5 DEF FinishBackup, CompleteBackup
    <2> QED BY <2>1 DEF LedgerNext
  <1>6. CASE UNCHANGED ledgerVars
    BY <1>6
  <1>7. CASE LoopStep
    BY <1>7, <1>1, <1>2, <1>3, <1>6, Zenon
    DEF LoopStep, AnswerFromReceipt, Validate, PrepareAgain, PrepareConflict, Verify,
        CompleteRefused, Launch, Settle
  <1>8. CASE BackupStep
    BY <1>8, <1>4, <1>5, <1>6, Zenon
    DEF BackupStep, ReplayBackup, ConfirmDurable, ReserveDestination, FindDestination,
        CopyStore, VerifyCopy, AbandonBackup, vars
  <1>9. CASE CatalogChange \/ Die \/ UNCHANGED adminVars
    BY <1>9, <1>6 DEF CatalogChange, Die, Crash, adminVars, vars
  <1> QED BY <1>7, <1>8, <1>9 DEF AdminNext

\* The commands of the owning loop implement the ledger: whatever a theorem
\* about LedgerSpec says holds of release activations and backups too, with a
\* process death between any two of their steps.
THEOREM LoopImplementsLedger == AdminSpec => LedgerSpec
  <1>1. AdminInit => LedgerInit
    BY DEF AdminInit, Init
  <1> QED BY <1>1, AdminStepIsLedgerStep, ReleaseInvariant, PTL DEF AdminSpec, LedgerSpec

\* In particular no receipt of the loop is lost, doubled or rewritten, and a
\* stop command always fits.
THEOREM LoopKeepsLedger == AdminSpec => []LedgerInv /\ ReceiptsAreRetained
  BY LoopImplementsLedger, LedgerInvariant, ReceiptsRetained, PTL

-----------------------------------------------------------------------------
(* The selection and the receipts. *)

\* A step that adds no receipt of an activation and changes none, and leaves the
\* selection alone, keeps them in agreement.
LEMMA SameActivations ==
  ASSUME SelectionMatchesReceipts, Activations' = Activations,
         \A i \in Activations : ledger'[i].args = ledger[i].args,
         selector'.active = selector.active, selector'.previous = selector.previous
  PROVE  SelectionMatchesReceipts'
  BY DEF SelectionMatchesReceipts, ActivatedBy, IsNewest

\* A receipt of another command is not one of an activation.
LEMMA OtherReceipt ==
  ASSUME LedgerTypeOK, NEW r \in Request, Record(r, 0), r.name # "release_activate"
  PROVE  /\ Activations' = Activations
         /\ \A i \in Activations : ledger'[i].args = ledger[i].args
  <1> DEFINE n == Len(ledger) + 1
  <1>1. /\ DOMAIN ledger' = DOMAIN ledger \cup {n}
        /\ \A i \in DOMAIN ledger : ledger'[i] = ledger[i]
        /\ ledger'[n] = NewReceipt(r, 0)
        /\ DOMAIN ledger = 1 .. Len(ledger) /\ Len(ledger) \in Nat
    BY RecordAppends, 0 \in Nat, Zenon
  <1>2. ledger'[n].name # "release_activate"
    BY <1>1 DEF NewReceipt
  <1> QED BY <1>1, <1>2 DEF Activations

\* The completion selects the release of the receipt it appends, and what was
\* selected becomes the rollback target.
LEMMA CompleteMatches ==
  ASSUME LedgerTypeOK, ReleaseInv, SelectionMatchesReceipts, Complete
  PROVE  SelectionMatchesReceipts'
  <1> DEFINE r == dispatch.request
             n == Len(ledger) + 1
  <1>1. dispatch.phase = "verified" /\ dispatch \in InDispatch
    BY DEF Complete, ReleaseInv, ReleaseTypeOK, Resting
  <1>2. r \in Request /\ r.name = "release_activate"
    BY <1>1 DEF InDispatch, ReleaseInv, DispatchIsAlone
  <1>3. Record(r, 0) /\ selector' = Select(r.args.release) /\ Pending.previous = selector.active
    BY Zenon DEF Complete, Completable
  <1>4. selector \in Selector
    BY DEF ReleaseInv, ReleaseTypeOK
  <1>5. selector'.active = r.args.release /\ selector'.previous = selector.active
    BY <1>3, <1>4 DEF Select, Selector
  <1>6. /\ DOMAIN ledger' = DOMAIN ledger \cup {n}
        /\ \A i \in DOMAIN ledger : ledger'[i] = ledger[i]
        /\ ledger'[n] = NewReceipt(r, 0)
        /\ DOMAIN ledger = 1 .. Len(ledger) /\ Len(ledger) \in Nat
    BY <1>2, <1>3, RecordAppends, 0 \in Nat, Zenon
  <1>7. ledger'[n].name = "release_activate" /\ ledger'[n].args = r.args
    <2>1. NewReceipt(r, 0).name = r.name /\ NewReceipt(r, 0).args = r.args
      BY DEF NewReceipt
    <2> QED BY <1>2, <1>6, <2>1, Zenon
  <1>8. /\ Activations' = Activations \cup {n} /\ n \notin Activations
        /\ \A i \in Activations : i < n /\ ledger'[i] = ledger[i]
        /\ Activations \subseteq Nat /\ n \in Nat
    <2>1. n \notin DOMAIN ledger /\ n \in Nat
          /\ \A i \in DOMAIN ledger : i < n /\ i \in Nat
      BY <1>6
    <2>2. Activations' = Activations \cup {n}
      BY <1>6, <1>7, Zenon DEF Activations
    <2>3. Activations \subseteq DOMAIN ledger
      BY Zenon DEF Activations
    <2> QED
      BY <1>6, <2>1, <2>2, <2>3, Zenon
  <1>9. \A i : IsNewest(i, Activations') => i = n
    <2> SUFFICES ASSUME NEW i, i \in Activations', \A j \in Activations' : j <= i
                 PROVE  i = n
      BY Zenon DEF IsNewest
    <2>1. n <= i /\ (i = n \/ (i \in Nat /\ i < n)) /\ n \in Nat
      BY <1>8, Zenon
    <2> QED BY <2>1
  <1>10. ActivatedBy(Activations, selector.active)
    BY DEF SelectionMatchesReceipts
  <1>11. (Activations \cup {n}) \ {n} = Activations
    BY <1>8
  <1> QED
    <2>1. ActivatedBy(Activations, selector.active)'
      BY <1>5, <1>7, <1>8, <1>9, Zenon DEF ActivatedBy
    <2>2. ASSUME NEW i \in Activations', IsNewest(i, Activations')
          PROVE  ActivatedBy(Activations \ {i}, selector.previous)'
      BY <1>5, <1>8, <1>9, <1>10, <1>11, <2>2, Zenon DEF ActivatedBy
    <2>3. Activations' # {}
      BY <1>8
    <2> QED BY <2>1, <2>2, <2>3 DEF SelectionMatchesReceipts, IsNewest

\* The completion of a backup changes nothing of a receipt but its flag.
LEMMA FlagOnly ==
  ASSUME NEW x \in Receipt
  PROVE  /\ [x EXCEPT !.durable = TRUE].name = x.name
         /\ [x EXCEPT !.durable = TRUE].args = x.args
         /\ [x EXCEPT !.durable = TRUE].durable
         /\ [[x EXCEPT !.durable = TRUE] EXCEPT !.durable = FALSE] = [x EXCEPT !.durable = FALSE]
         /\ ~x.durable => [x EXCEPT !.durable = FALSE] = x
  BY Zenon DEF Receipt

LEMMA FlagStep ==
  ASSUME LedgerTypeOK, NEW i \in DOMAIN ledger, CompleteBackup(i)
  PROVE  /\ DOMAIN ledger' = DOMAIN ledger /\ Len(ledger') = Len(ledger)
         /\ ledger'[i] = [ledger[i] EXCEPT !.durable = TRUE] /\ ledger[i] \in Receipt
         /\ \A j \in DOMAIN ledger \ {i} : ledger'[j] = ledger[j]
         /\ \A j \in DOMAIN ledger : /\ ledger'[j].name = ledger[j].name
                                     /\ ledger'[j].args = ledger[j].args
  <1>1. ledger[i] \in Receipt
    BY DEF LedgerTypeOK
  <1> QED BY <1>1, CompletionSetsFlag, FlagOnly, Zenon

\* Every step keeps the selection and the receipts in agreement.
LEMMA SelectionNext ==
  ASSUME LedgerTypeOK, ReleaseInv, SelectionMatchesReceipts, [AdminNext]_adminVars
  PROVE  SelectionMatchesReceipts'
  <1>1. CASE UNCHANGED <<ledger, selector>>
    BY <1>1, SameActivations DEF Activations
  <1>2. CASE Complete
    BY <1>2, CompleteMatches
  <1>3. CASE Prepare
    <2>1. selector \in Selector
      BY DEF ReleaseInv, ReleaseTypeOK
    <2>2. /\ UNCHANGED ledger
          /\ selector' = [selector EXCEPT !.state = "prepared",
                                          !.pending = MarkerFor(dispatch.request)]
      BY <1>3 DEF Prepare
    <2>3. selector'.active = selector.active /\ selector'.previous = selector.previous
      BY <2>1, <2>2 DEF Selector
    <2> QED BY <2>2, <2>3, SameActivations DEF Activations
  <1>4. ASSUME NEW r \in Request, AdmitCommand(r), r.name # "release_activate", UNCHANGED selector
        PROVE  SelectionMatchesReceipts'
    BY <1>4, OtherReceipt, SameActivations DEF AdmitCommand
  <1>5. CASE FinishBackup
    <2>1. copy.row \in DOMAIN ledger /\ CompleteBackup(copy.row) /\ UNCHANGED selector
      BY <1>5 DEF FinishBackup, CompleteBackup
    <2>2. /\ DOMAIN ledger' = DOMAIN ledger
          /\ \A j \in DOMAIN ledger : /\ ledger'[j].name = ledger[j].name
                                      /\ ledger'[j].args = ledger[j].args
      BY <2>1, FlagStep, Zenon
    <2> QED BY <2>1, <2>2, SameActivations, Zenon DEF Activations
  <1>6. CASE LoopStep
    BY <1>6, <1>1, <1>2, <1>3, <1>4, LoopRequests, Zenon
    DEF LoopStep, AnswerFromReceipt, Validate, PrepareAgain, PrepareConflict, Verify,
        CompleteRefused, Launch, Settle, OtherCommand, ledgerVars
  <1>7. CASE BackupStep
    BY <1>7, <1>1, <1>4, <1>5, LoopRequests, Zenon
    DEF BackupStep, AdmitBackup, ReplayBackup, ConfirmDurable, ReserveDestination,
        FindDestination, CopyStore, VerifyCopy, AbandonBackup, vars, releaseVars, ledgerVars
  <1>8. CASE CatalogChange \/ Die \/ UNCHANGED adminVars
    BY <1>8, <1>1 DEF CatalogChange, Die, Crash, adminVars, vars, releaseVars, ledgerVars
  <1> QED BY <1>6, <1>7, <1>8 DEF AdminNext

\* The selected release and the rollback target are always those of the last
\* two receipts of activations, wherever the process died.
THEOREM SelectionMatches == AdminSpec => []SelectionMatchesReceipts
  <1>1. AdminInit => SelectionMatchesReceipts
    BY DEF AdminInit, Init, LedgerInit, SelectionMatchesReceipts, ActivatedBy, Activations
  <1>2. LedgerInv => LedgerTypeOK
    BY DEF LedgerInv
  <1> QED BY <1>1, <1>2, SelectionNext, ReleaseInvariant, LoopKeepsLedger, PTL DEF AdminSpec

-----------------------------------------------------------------------------
(* Backups. *)

StoreImage == [state : {"complete"}, ledger : Seq(Receipt), release : MaybeRelease]
InCopy == [phase : {"admitted", "reserved", "copied", "verified"},
           request : Request, row : Nat, replayed : BOOLEAN]

BackupTypeOK ==
    /\ files \in [BackupIds -> {Absent, Partial} \cup StoreImage]
    /\ copy \in {CopyRest} \cup InCopy

\* Every complete file is an image of an earlier state of the store, whether or
\* not a receipt vouches for it.
FilesAreImages ==
    \A b \in BackupIds :
        files[b].state = "complete" => ExtendedBy(files[b].ledger, ledger)

BackupsAreNamed ==
    \A i \in DOMAIN ledger : ledger[i].name = "backup" => ledger[i].args \in BackupIds

\* What the loop works on is the backup of a receipt; the file it has reserved
\* is still empty, and the one it has verified holds that receipt.
CopyIsOfRow ==
    copy # CopyRest =>
        /\ copy.row \in DOMAIN ledger
        /\ Row.name = "backup" /\ Row.args = copy.request.args
        /\ copy.phase = "reserved" => Destination = Partial
        /\ copy.phase = "verified" => /\ Destination.state = "complete"
                                      /\ copy.row \in DOMAIN Destination.ledger

BackupInv ==
    /\ BackupTypeOK
    /\ FilesAreImages
    /\ BackupsAreNamed
    /\ CopyIsOfRow
    /\ DurableIsRestorable

\* An image of the store stays one when a receipt is appended.
LEMMA AppendExtends ==
  ASSUME LedgerTypeOK, NEW r \in Request, Record(r, 0),
         NEW old \in Seq(Receipt), ExtendedBy(old, ledger)
  PROVE  ExtendedBy(old, ledger')
  <1>1. /\ Len(ledger') = Len(ledger) + 1 /\ Len(ledger) \in Nat
        /\ DOMAIN ledger = 1 .. Len(ledger)
        /\ \A i \in DOMAIN ledger : ledger'[i] = ledger[i]
    BY RecordAppends, 0 \in Nat
  <1>2. Len(old) <= Len(ledger) /\ Len(old) \in Nat /\ DOMAIN old = 1 .. Len(old)
    BY DEF ExtendedBy
  <1>3. Len(old) <= Len(ledger') /\ DOMAIN old \subseteq DOMAIN ledger
    BY <1>1, <1>2
  <1> QED BY <1>1, <1>3 DEF ExtendedBy

\* It stays one when a backup is completed.
LEMMA CompletionExtends ==
  ASSUME LedgerTypeOK, NEW n \in DOMAIN ledger, CompleteBackup(n),
         NEW old \in Seq(Receipt), ExtendedBy(old, ledger)
  PROVE  ExtendedBy(old, ledger')
  <1>1. Len(old) <= Len(ledger')
    BY FlagStep, Zenon DEF ExtendedBy
  <1>2. Len(ledger) \in Nat /\ DOMAIN ledger = 1 .. Len(ledger) /\ DOMAIN old = 1 .. Len(old)
    BY DEF LedgerTypeOK
  <1>3. DOMAIN old \subseteq DOMAIN ledger
    BY <1>2 DEF ExtendedBy
  <1>4. ~ledger[n].durable
    BY DEF CompleteBackup
  <1>5. ASSUME NEW i \in DOMAIN old
        PROVE  old[i] = ledger'[i] \/ old[i] = [ledger'[i] EXCEPT !.durable = FALSE]
    <2>1. old[i] = ledger[i] \/ old[i] = [ledger[i] EXCEPT !.durable = FALSE]
      BY DEF ExtendedBy
    <2>2. CASE i = n
      BY <1>4, <2>1, <2>2, FlagStep, FlagOnly, Zenon
    <2>3. CASE i # n
      BY <1>3, <2>1, <2>3, FlagStep, Zenon
    <2> QED BY <2>2, <2>3
  <1> QED BY <1>1, <1>5 DEF ExtendedBy

\* The loop is at rest, or works on a backup.
LEMMA CopyCases ==
  ASSUME BackupTypeOK
  PROVE  /\ copy.phase = "idle" <=> copy = CopyRest
         /\ copy # CopyRest => copy \in InCopy
  BY DEF BackupTypeOK, CopyRest, InCopy

\* What a step that appends a receipt keeps, whatever it does to the copy.
LEMMA AppendKeepsBackups ==
  ASSUME LedgerTypeOK, BackupInv, NEW r \in Request, Record(r, 0), UNCHANGED files,
         r.name = "backup" => r.args \in BackupIds
  PROVE  FilesAreImages' /\ BackupsAreNamed' /\ DurableIsRestorable'
  <1> DEFINE n == Len(ledger) + 1
  <1>1. /\ DOMAIN ledger' = DOMAIN ledger \cup {n}
        /\ \A i \in DOMAIN ledger : ledger'[i] = ledger[i]
        /\ ledger'[n] = NewReceipt(r, 0)
    BY RecordAppends, 0 \in Nat, Zenon
  <1>2. /\ ledger'[n].name = r.name /\ ledger'[n].args = r.args /\ ~ledger'[n].durable
    BY <1>1 DEF NewReceipt
  <1>3. \A b \in BackupIds : files[b].state = "complete" =>
            files[b].ledger \in Seq(Receipt) /\ ExtendedBy(files[b].ledger, ledger)
    BY DEF BackupInv, BackupTypeOK, FilesAreImages, StoreImage, Absent, Partial
  <1>4. \A b \in BackupIds : files[b].state = "complete" => ExtendedBy(files[b].ledger, ledger')
    BY <1>3, AppendExtends, Zenon
  <1>5. FilesAreImages'
    BY <1>4 DEF FilesAreImages, ExtendedBy
  <1>6. BackupsAreNamed'
    BY <1>1, <1>2 DEF BackupInv, BackupsAreNamed
  <1>7. ASSUME NEW i \in DOMAIN ledger', ledger'[i].name = "backup", ledger'[i].durable
        PROVE  /\ files[ledger'[i].args].state = "complete"
               /\ i \in DOMAIN files[ledger'[i].args].ledger
               /\ ExtendedBy(files[ledger'[i].args].ledger, ledger')
    <2>1. i \in DOMAIN ledger /\ ledger'[i] = ledger[i]
      BY <1>1, <1>2, <1>7
    <2>2. /\ files[ledger[i].args].state = "complete"
          /\ i \in DOMAIN files[ledger[i].args].ledger /\ ledger[i].args \in BackupIds
      BY <1>7, <2>1, Zenon DEF BackupInv, DurableIsRestorable, BackupsAreNamed
    <2> QED BY <1>4, <2>1, <2>2
  <1>8. DurableIsRestorable'
    BY <1>7 DEF DurableIsRestorable, ExtendedBy
  <1> QED BY <1>5, <1>6, <1>8

\* A step of the loop at rest, which may append a receipt of another command.
LEMMA LoopKeepsBackups ==
  ASSUME LedgerTypeOK, BackupInv, copy = CopyRest, UNCHANGED backupVars,
         \/ UNCHANGED ledger
         \/ \E r \in Request : Record(r, 0) /\ r.name # "backup"
  PROVE  BackupInv'
  <1>1. BackupTypeOK' /\ CopyIsOfRow'
    BY Zenon DEF BackupInv, BackupTypeOK, CopyIsOfRow, backupVars
  <1>2. CASE UNCHANGED ledger
    BY <1>1, <1>2, Zenon DEF BackupInv, FilesAreImages, BackupsAreNamed, DurableIsRestorable, ExtendedBy,
                      backupVars
  <1>3. CASE \E r \in Request : Record(r, 0) /\ r.name # "backup"
    BY <1>1, <1>3, AppendKeepsBackups DEF BackupInv, backupVars
  <1> QED BY <1>2, <1>3

\* A step that only moves the copy on, or ends it.
LEMMA CopyMoves ==
  ASSUME BackupInv, UNCHANGED <<ledger, files>>,
         copy' \in {CopyRest} \cup InCopy, CopyIsOfRow'
  PROVE  BackupInv'
  BY DEF BackupInv, BackupTypeOK, FilesAreImages, BackupsAreNamed, DurableIsRestorable, ExtendedBy

LEMMA AdmitBackupInv ==
  ASSUME LedgerTypeOK, BackupInv, NEW r \in Request, r.name = "backup", r.args \in BackupIds,
         AdmitBackup(r)
  PROVE  BackupInv'
  <1>1. Record(r, 0) /\ UNCHANGED files
        /\ copy' = [phase |-> "admitted", request |-> r, row |-> Len(ledger) + 1, replayed |-> FALSE]
    BY Zenon DEF AdmitBackup, AdmitCommand
  <1>2. FilesAreImages' /\ BackupsAreNamed' /\ DurableIsRestorable'
    BY <1>1, AppendKeepsBackups
  <1>3. Len(ledger) + 1 \in Nat /\ BackupTypeOK'
    <2>1. Len(ledger) \in Nat
      BY DEF LedgerTypeOK
    <2>2. copy' \in InCopy
      BY <1>1, <2>1 DEF InCopy
    <2> QED BY <1>1, <2>1, <2>2 DEF BackupInv, BackupTypeOK
  <1>4. /\ Len(ledger) + 1 \in DOMAIN ledger'
        /\ ledger'[Len(ledger) + 1].name = "backup"
        /\ ledger'[Len(ledger) + 1].args = r.args
    <2>1. /\ DOMAIN ledger' = DOMAIN ledger \cup {Len(ledger) + 1}
          /\ ledger'[Len(ledger) + 1] = NewReceipt(r, 0)
      BY <1>1, RecordAppends, 0 \in Nat, Zenon
    <2> QED BY <2>1 DEF NewReceipt
  <1>5. CopyIsOfRow'
    BY <1>1, <1>4, Zenon DEF CopyIsOfRow, Row
  <1> QED BY <1>2, <1>3, <1>5 DEF BackupInv

LEMMA ReplayBackupInv ==
  ASSUME LedgerTypeOK, BackupInv, NEW r \in Request, r.name = "backup", ReplayBackup(r)
  PROVE  BackupInv'
  <1>1. PICK i \in DOMAIN ledger :
            /\ ledger[i].name = r.name /\ ledger[i].args = r.args
            /\ copy' = [phase |-> "admitted", request |-> r, row |-> i, replayed |-> TRUE]
    BY Zenon DEF ReplayBackup
  <1>2. UNCHANGED <<ledger, files>>
    BY Zenon DEF ReplayBackup, ledgerVars
  <1>3. i \in Nat
    BY DEF LedgerTypeOK
  <1>4. copy' \in InCopy
    BY <1>1, <1>3, Zenon DEF InCopy
  <1>5. CopyIsOfRow'
    BY <1>1, <1>2 DEF CopyIsOfRow, Row
  <1> QED BY <1>2, <1>4, <1>5, CopyMoves

\* A step that changes one file, which was not complete and so is vouched for by
\* no receipt.
LEMMA FileStep ==
  ASSUME LedgerTypeOK, BackupInv, UNCHANGED ledger, copy # CopyRest,
         Destination.state # "complete",
         NEW f \in {Partial} \cup StoreImage,
         f.state = "complete" => ExtendedBy(f.ledger, ledger),
         files' = [files EXCEPT ![copy.request.args] = f]
  PROVE  /\ files' \in [BackupIds -> {Absent, Partial} \cup StoreImage]
         /\ files'[copy.request.args] = f
         /\ FilesAreImages' /\ BackupsAreNamed' /\ DurableIsRestorable'
  <1> DEFINE b == copy.request.args
  <1>1. b \in BackupIds
    BY DEF BackupInv, CopyIsOfRow, BackupsAreNamed, Row
  <1>2. /\ files' \in [BackupIds -> {Absent, Partial} \cup StoreImage]
        /\ files'[b] = f /\ \A c \in BackupIds \ {b} : files'[c] = files[c]
    BY <1>1 DEF BackupInv, BackupTypeOK
  <1>3. FilesAreImages'
    BY <1>2 DEF BackupInv, FilesAreImages, ExtendedBy
  <1>4. BackupsAreNamed'
    BY DEF BackupInv, BackupsAreNamed
  <1>5. \A i \in DOMAIN ledger : ledger[i].name = "backup" /\ ledger[i].durable =>
            ledger[i].args \in BackupIds \ {b}
    BY Zenon DEF BackupInv, BackupsAreNamed, DurableIsRestorable, Destination
  <1>6. DurableIsRestorable'
    BY <1>2, <1>5 DEF BackupInv, DurableIsRestorable, ExtendedBy
  <1> QED BY <1>2, <1>3, <1>4, <1>6

LEMMA ReserveInv ==
  ASSUME LedgerTypeOK, BackupInv, ReserveDestination
  PROVE  BackupInv'
  <1>1. copy \in InCopy /\ copy # CopyRest
    BY CopyCases DEF ReserveDestination, BackupInv, CopyRest
  <1>2. UNCHANGED ledger
    BY DEF ReserveDestination, vars, ledgerVars
  <1>3. Destination.state # "complete" /\ Partial.state # "complete"
    BY DEF ReserveDestination, Absent, Partial
  <1>4. /\ files' \in [BackupIds -> {Absent, Partial} \cup StoreImage]
        /\ files'[copy.request.args] = Partial
        /\ FilesAreImages' /\ BackupsAreNamed' /\ DurableIsRestorable'
    BY <1>1, <1>2, <1>3, FileStep, Zenon DEF ReserveDestination
  <1>5. /\ copy' \in InCopy /\ copy'.phase = "reserved"
        /\ copy'.request = copy.request /\ copy'.row = copy.row
    BY <1>1 DEF ReserveDestination, InCopy
  <1>6. CopyIsOfRow'
    BY <1>1, <1>2, <1>4, <1>5 DEF BackupInv, CopyIsOfRow, Row, Destination
  <1> QED BY <1>4, <1>5, <1>6 DEF BackupInv, BackupTypeOK

LEMMA CopyStoreInv ==
  ASSUME LedgerTypeOK, ReleaseInv, BackupInv, CopyStore
  PROVE  BackupInv'
  <1>1. copy \in InCopy /\ copy # CopyRest
    BY CopyCases DEF CopyStore, BackupInv, CopyRest
  <1>2. UNCHANGED ledger
    BY DEF CopyStore, vars, ledgerVars
  <1>3. Destination.state # "complete"
    BY <1>1 DEF CopyStore, BackupInv, CopyIsOfRow, Partial
  <1>4. ledger \in Seq(Receipt) /\ Image \in StoreImage /\ Image.ledger = ledger
    BY DEF LedgerTypeOK, ReleaseInv, ReleaseTypeOK, Selector, Image, StoreImage
  <1>5. ExtendedBy(Image.ledger, ledger)
    <2>1. Len(ledger) \in Nat
      BY <1>4
    <2> QED BY <1>4, <2>1 DEF ExtendedBy
  <1>6. /\ files' \in [BackupIds -> {Absent, Partial} \cup StoreImage]
        /\ FilesAreImages' /\ BackupsAreNamed' /\ DurableIsRestorable'
    BY <1>1, <1>2, <1>3, <1>4, <1>5, FileStep, Zenon DEF CopyStore
  <1>7. /\ copy' \in InCopy /\ copy'.phase = "copied"
        /\ copy'.request = copy.request /\ copy'.row = copy.row
    BY <1>1 DEF CopyStore, InCopy
  <1>8. CopyIsOfRow'
    BY <1>1, <1>2, <1>7 DEF BackupInv, CopyIsOfRow, Row
  <1> QED BY <1>6, <1>7, <1>8 DEF BackupInv, BackupTypeOK

LEMMA FinishBackupInv ==
  ASSUME LedgerTypeOK, BackupInv, FinishBackup
  PROVE  BackupInv'
  <1> DEFINE n == copy.row
             b == ledger[n].args
  <1>1. copy # CopyRest /\ copy.phase = "verified"
    BY CopyCases DEF FinishBackup, BackupInv, CopyRest
  <1>2. n \in DOMAIN ledger /\ CompleteBackup(n) /\ copy' = CopyRest /\ UNCHANGED files
    BY DEF FinishBackup, CompleteBackup, EndCopy
  <1>3. \A c \in BackupIds : files[c].state = "complete" =>
            files[c].ledger \in Seq(Receipt) /\ ExtendedBy(files[c].ledger, ledger)
    BY DEF BackupInv, BackupTypeOK, FilesAreImages, StoreImage, Absent, Partial
  <1>4. \A c \in BackupIds : files[c].state = "complete" => ExtendedBy(files[c].ledger, ledger')
    BY <1>2, <1>3, CompletionExtends
  <1>5. /\ DOMAIN ledger' = DOMAIN ledger
        /\ \A j \in DOMAIN ledger \ {n} : ledger'[j] = ledger[j]
        /\ \A j \in DOMAIN ledger : /\ ledger'[j].name = ledger[j].name
                                    /\ ledger'[j].args = ledger[j].args
    BY <1>2, FlagStep, Zenon
  <1>6. b \in BackupIds /\ files[b].state = "complete" /\ n \in DOMAIN files[b].ledger
    BY <1>1 DEF BackupInv, CopyIsOfRow, BackupsAreNamed, Row, Destination
  <1>7. ASSUME NEW i \in DOMAIN ledger', ledger'[i].name = "backup", ledger'[i].durable
        PROVE  /\ files[ledger'[i].args].state = "complete"
               /\ i \in DOMAIN files[ledger'[i].args].ledger
               /\ ExtendedBy(files[ledger'[i].args].ledger, ledger')
    <2>1. CASE i = n
      BY <1>2, <1>4, <1>5, <1>6, <2>1, Zenon
    <2>2. CASE i # n
      <3>1. i \in DOMAIN ledger /\ ledger'[i] = ledger[i]
        BY <1>5, <2>2
      <3>2. /\ files[ledger[i].args].state = "complete"
            /\ i \in DOMAIN files[ledger[i].args].ledger /\ ledger[i].args \in BackupIds
        BY <1>7, <3>1 DEF BackupInv, DurableIsRestorable, BackupsAreNamed
      <3> QED BY <1>4, <3>1, <3>2, Zenon
    <2> QED BY <2>1, <2>2, Zenon
  <1>8. DurableIsRestorable'
    BY <1>2, <1>7 DEF DurableIsRestorable, ExtendedBy
  <1>9. BackupsAreNamed'
    BY <1>5 DEF BackupInv, BackupsAreNamed
  <1>10. FilesAreImages'
    BY <1>2, <1>4 DEF FilesAreImages, ExtendedBy
  <1>11. BackupTypeOK' /\ CopyIsOfRow'
    BY <1>2, Zenon DEF BackupInv, BackupTypeOK, CopyIsOfRow
  <1> QED BY <1>8, <1>9, <1>10, <1>11 DEF BackupInv

\* The steps that look at the destination, and the ends of a backup.
LEMMA LookInv ==
  ASSUME BackupInv,
         ConfirmDurable \/ FindDestination \/ VerifyCopy \/ AbandonBackup
  PROVE  BackupInv'
  <1>1. UNCHANGED <<ledger, files>>
    BY DEF ConfirmDurable, FindDestination, VerifyCopy, AbandonBackup, vars, ledgerVars
  <1>2. CASE ConfirmDurable \/ AbandonBackup
    <2>1. copy' = CopyRest
      BY <1>2 DEF ConfirmDurable, AbandonBackup, EndCopy
    <2> QED BY <1>1, <2>1, CopyMoves DEF CopyIsOfRow
  <1>3. CASE FindDestination \/ VerifyCopy
    <2>1. copy \in InCopy /\ copy # CopyRest
      BY <1>3, CopyCases DEF FindDestination, VerifyCopy, BackupInv, CopyRest
    <2>2. /\ copy' \in InCopy
          /\ copy'.phase = "copied" \/ (copy'.phase = "verified" /\ Verifies)
          /\ copy'.request = copy.request /\ copy'.row = copy.row
      BY <1>3, <2>1 DEF FindDestination, VerifyCopy, InCopy
    <2>3. CopyIsOfRow'
      <3>1. /\ copy.row \in DOMAIN ledger
            /\ ledger[copy.row].name = "backup" /\ ledger[copy.row].args = copy.request.args
        BY <2>1 DEF BackupInv, CopyIsOfRow, Row
      <3>2. copy'.phase = "verified" =>
               /\ files[copy.request.args].state = "complete"
               /\ copy.row \in DOMAIN files[copy.request.args].ledger
        BY <2>2, Zenon DEF Verifies, Destination
      <3> QED BY <1>1, <2>2, <3>1, <3>2 DEF CopyIsOfRow, Row, Destination
    <2> QED BY <1>1, <2>2, <2>3, CopyMoves
  <1> QED BY <1>2, <1>3

LEMMA BackupNextInv ==
  ASSUME LedgerTypeOK, ReleaseInv, BackupInv, [AdminNext]_adminVars
  PROVE  BackupInv'
  <1>1. CASE LoopStep
    <2>1. copy = CopyRest /\ UNCHANGED backupVars
      BY <1>1, CopyCases DEF LoopStep, BackupInv
    <2>2. CASE Complete
      <3>1. dispatch.request \in Request /\ dispatch.request.name = "release_activate"
        <4>1. dispatch.phase = "verified"
          BY <2>2, Zenon DEF Complete
        <4>2. dispatch \in {Resting} \cup InDispatch /\ DispatchIsAlone
          BY Zenon DEF ReleaseInv, ReleaseTypeOK
        <4>3. dispatch.request \in Request
          BY <4>1, <4>2 DEF Resting, InDispatch
        <4> QED BY <4>1, <4>2, <4>3 DEF DispatchIsAlone
      <3> QED BY <2>1, <2>2, <3>1, LoopKeepsBackups DEF Complete
    <2>3. ASSUME NEW k \in Keys, NEW d \in Ids, NEW n \in {"start", "stop"},
                 OtherCommand([key |-> k, id |-> d, name |-> n, args |-> NoArgs])
          PROVE  BackupInv'
      <3> DEFINE r == [key |-> k, id |-> d, name |-> n, args |-> NoArgs]
      <3>1. r \in Request /\ Record(r, 0) /\ r.name # "backup"
        BY <2>3, LoopRequests, Zenon DEF OtherCommand, AdmitCommand
      <3> HIDE DEF r
      <3> QED BY <2>1, <3>1, LoopKeepsBackups
    <2>4. CASE UNCHANGED ledger
      BY <2>1, <2>4, LoopKeepsBackups
    <2> QED BY <1>1, <2>2, <2>3, <2>4, Zenon
            DEF LoopStep, AnswerFromReceipt, Validate, Prepare, PrepareAgain, PrepareConflict,
                Verify, CompleteRefused, Launch, Settle, ledgerVars
  <1>2. CASE BackupStep
    <2>1. ASSUME NEW k \in Keys, NEW d \in Ids, NEW b \in BackupIds,
                 LET r == [key |-> k, id |-> d, name |-> "backup", args |-> b]
                 IN  AdmitBackup(r) \/ ReplayBackup(r)
          PROVE  BackupInv'
      <3> DEFINE r == [key |-> k, id |-> d, name |-> "backup", args |-> b]
      <3>1. r \in Request /\ r.name = "backup" /\ r.args \in BackupIds
        BY LoopRequests, Zenon
      <3>2. AdmitBackup(r) \/ ReplayBackup(r)
        BY <2>1
      <3> HIDE DEF r
      <3> QED BY <3>1, <3>2, AdmitBackupInv, ReplayBackupInv
    <2> QED BY <1>2, <2>1, ReserveInv, CopyStoreInv, FinishBackupInv, LookInv, Zenon DEF BackupStep
  <1>3. CASE CatalogChange /\ UNCHANGED backupVars
    <2>1. UNCHANGED <<ledger, files, copy>>
      BY <1>3 DEF CatalogChange, ledgerVars, backupVars
    <2> QED BY <2>1, CopyMoves, Zenon DEF BackupInv, BackupTypeOK, CopyIsOfRow, Row, Destination
  <1>4. CASE Die
    <2>1. UNCHANGED <<ledger, files>> /\ copy' = CopyRest
      BY <1>4 DEF Die, Crash, ledgerVars
    <2> QED BY <2>1, CopyMoves, Zenon DEF CopyIsOfRow
  <1>5. CASE UNCHANGED adminVars
    <2>1. UNCHANGED <<ledger, files, copy>>
      BY <1>5 DEF adminVars, vars, ledgerVars, backupVars
    <2> QED BY <2>1, CopyMoves, Zenon DEF BackupInv, BackupTypeOK, CopyIsOfRow, Row, Destination
  <1> QED BY <1>1, <1>2, <1>3, <1>4, <1>5 DEF AdminNext

\* Whatever died, failed or was sent again, a receipt that says durable stands
\* for a complete file that holds the receipt and is an earlier state of the store.
THEOREM BackupsRestorable == AdminSpec => []DurableIsRestorable
  <1>1. AdminInit => BackupInv
    BY DEF AdminInit, Init, LedgerInit, BackupInv, BackupTypeOK, FilesAreImages, BackupsAreNamed,
           CopyIsOfRow, DurableIsRestorable, Absent, Partial
  <1>2. LedgerInv => LedgerTypeOK
    BY DEF LedgerInv
  <1>3. AdminSpec => []BackupInv
    BY <1>1, <1>2, BackupNextInv, ReleaseInvariant, LoopKeepsLedger, PTL DEF AdminSpec
  <1>4. BackupInv => DurableIsRestorable
    BY DEF BackupInv
  <1> QED BY <1>3, <1>4, PTL

-----------------------------------------------------------------------------
(* The admin endpoint.  The path and the lock belong to the same           *)
(* controller when the controllers share a database.                       *)

ControllerRow ==
    [pc : {"off", "bind", "stat", "probe", "recheck", "remove", "rebind", "listen", "identify",
           "serve", "compare", "unlink", "unlock"},
     own : SUBSET SocketInode, guard : SUBSET SocketInode, seen : SUBSET SocketInode,
     probes : Nat]

OneDatabase == \A c, d \in Controllers : OwnerPath(c) = OwnerPath(d)

\* From the bind on, the path is the one of the controller that bound it.
HasSocket == {"listen", "identify", "serve"}

EndpointInv ==
    /\ controller \in [Controllers -> ControllerRow]
    /\ path \in SUBSET SocketInode
    /\ OneDatabase =>
          /\ \A c, d \in Controllers : HoldsLock(c) /\ HoldsLock(d) => c = d
          /\ \A c \in Controllers : controller[c].pc \in HasSocket => path = controller[c].own

\* A step of the controller that has the lock, or may take it.
LEMMA ControllerStep ==
  ASSUME EndpointInv, UNCHANGED database, NEW c \in Controllers, NEW new \in ControllerRow,
         controller' = [controller EXCEPT ![c] = new],
         HoldsLock(c) \/ LockFree(c),
         path' \in SUBSET SocketInode,
         OneDatabase /\ new.pc \in HasSocket => path' = new.own
  PROVE  EndpointInv'
  <1>1. /\ controller' \in [Controllers -> ControllerRow]
        /\ controller'[c] = new /\ \A d \in Controllers \ {c} : controller'[d] = controller[d]
    BY Zenon DEF EndpointInv
  <1>2. OneDatabase' <=> OneDatabase
    BY DEF OneDatabase, OwnerPath
  <1>3. ASSUME OneDatabase PROVE \A d \in Controllers \ {c} : controller[d].pc = "off"
    BY <1>3 DEF EndpointInv, OneDatabase, HoldsLock, LockFree
  <1>4. OneDatabase => \A d, e \in Controllers : HoldsLock(d)' /\ HoldsLock(e)' => d = e
    BY <1>1, <1>3 DEF HoldsLock
  <1>5. ASSUME OneDatabase, NEW d \in Controllers, controller'[d].pc \in HasSocket
        PROVE  path' = controller'[d].own
    BY <1>1, <1>3, <1>5 DEF HasSocket
  <1> QED BY <1>1, <1>2, <1>4, <1>5, Zenon DEF EndpointInv, HoldsLock

\* Every step is one of a controller that has the lock or takes it, and where it
\* leaves that controller with a socket, the path leads to it.
LEMMA EndpointNextInv ==
  ASSUME EndpointInv, [EndpointNext]_endpointVars PROVE EndpointInv'
  <1>1. CASE UNCHANGED endpointVars
    BY <1>1, Zenon DEF EndpointInv, OneDatabase, OwnerPath, HoldsLock, endpointVars
  <1>2. ASSUME NEW c \in Controllers,
               \/ AcquireLock(c) \/ RefuseStart(c) \/ BindSocket(c) \/ Listen(c) \/ Identify(c)
               \/ StatSocket(c) \/ ProbeSocket(c) \/ RecheckSocket(c) \/ RemoveSocket(c)
               \/ CloseListener(c) \/ CompareIdentity(c) \/ Unlink(c) \/ ReleaseLock(c)
               \/ ControllerCrashes(c)
        PROVE  EndpointInv'
    <2> DEFINE row == controller[c]
    <2>1. /\ row \in ControllerRow /\ path \in SUBSET SocketInode /\ Off \in ControllerRow
          /\ Off.pc = "off"
      BY Zenon DEF EndpointInv, ControllerRow, Off
    <2>2. \A pc \in {"bind", "stat", "recheck", "remove", "rebind", "identify", "compare",
                     "unlink", "unlock"} :
             LET new == [row EXCEPT !.pc = pc]
             IN  new \in ControllerRow /\ new.pc = pc /\ new.own = row.own
      BY <2>1 DEF ControllerRow
    <2> USE DEF HoldsLock, HasSocket
    <2>3. CASE AcquireLock(c)
      BY <2>1, <2>2, <2>3, ControllerStep, Zenon DEF AcquireLock, AtPc, Ctl
    <2>4. CASE RefuseStart(c)
      BY <2>1, <2>4, ControllerStep, Zenon DEF RefuseStart, StartFails, Ctl
    <2>5. CASE BindSocket(c)
      <3>1. CASE path = {}
        <4>1. PICK i \in SocketInode :
                  /\ path' = {i} /\ Ctl(c, [Off EXCEPT !.pc = "listen", !.own = {i}])
                  /\ UNCHANGED database
          BY <2>5, <3>1, Zenon DEF BindSocket
        <4>2. /\ [Off EXCEPT !.pc = "listen", !.own = {i}] \in ControllerRow
              /\ [Off EXCEPT !.pc = "listen", !.own = {i}].own = {i}
          BY <2>1, Zenon DEF ControllerRow
        <4> QED BY <2>5, <4>1, <4>2, ControllerStep, Zenon DEF BindSocket, Ctl
      <3>2. CASE path # {}
        BY <2>1, <2>2, <2>5, <3>2, ControllerStep, Zenon DEF BindSocket, StartFails, AtPc, Ctl
      <3> QED BY <3>1, <3>2
    <2>6. CASE Listen(c)
      <3>1. UNCHANGED path /\ UNCHANGED database /\ row.pc = "listen"
            /\ controller' = [controller EXCEPT ![c] = [row EXCEPT !.pc = "identify"]]
        BY <2>6 DEF Listen, AtPc, Ctl
      <3>2. OneDatabase => path = row.own
        BY <3>1 DEF EndpointInv
      <3> QED BY <2>1, <2>2, <3>1, <3>2, ControllerStep, Zenon
    <2>7. CASE Identify(c)
      <3>1. CASE StartFails(c) /\ path' = {}
        BY <2>1, <2>7, <3>1, ControllerStep, Zenon DEF StartFails, Ctl, Identify
      <3>2. CASE /\ controller' = [controller EXCEPT ![c] =
                                     [row EXCEPT !.pc = "serve", !.guard = path]]
                 /\ UNCHANGED path /\ UNCHANGED database
        <4>1. row.pc = "identify"
          BY <2>7 DEF Identify
        <4>2. OneDatabase => path = row.own
          BY <4>1 DEF EndpointInv
        <4>3. /\ [row EXCEPT !.pc = "serve", !.guard = path] \in ControllerRow
              /\ [row EXCEPT !.pc = "serve", !.guard = path].own = row.own
          BY <2>1, Zenon DEF ControllerRow
        <4> QED BY <2>1, <3>2, <4>1, <4>2, <4>3, ControllerStep, Zenon
      <3> QED BY <2>7, <3>1, <3>2 DEF Identify, Ctl
    <2>8. CASE StatSocket(c)
      <3>1. /\ [row EXCEPT !.pc = "probe", !.seen = path, !.probes = 0] \in ControllerRow
            /\ [row EXCEPT !.pc = "probe", !.seen = path, !.probes = 0].pc = "probe"
        BY <2>1, Zenon DEF ControllerRow
      <3> QED BY <2>1, <2>8, <3>1, ControllerStep, Zenon DEF StatSocket, StartFails, Ctl
    <2>9. CASE ProbeSocket(c)
      <3>1. row.probes + 1 \in Nat
        BY <2>1 DEF ControllerRow
      <3>2. /\ [row EXCEPT !.probes = row.probes + 1] \in ControllerRow
            /\ [row EXCEPT !.probes = row.probes + 1].pc = row.pc
        BY <2>1, <3>1 DEF ControllerRow
      <3>3. /\ row.pc = "probe" /\ UNCHANGED path /\ UNCHANGED database
            /\ \/ controller' = [controller EXCEPT ![c] = Off]
               \/ controller' = [controller EXCEPT ![c] = [row EXCEPT !.pc = "recheck"]]
               \/ controller' = [controller EXCEPT ![c] = [row EXCEPT !.probes = row.probes + 1]]
        BY <2>9 DEF ProbeSocket, StartFails, AtPc, Ctl
      <3> QED BY <2>1, <2>2, <3>2, <3>3, ControllerStep, Zenon
    <2>10. CASE RecheckSocket(c)
      BY <2>1, <2>2, <2>10, ControllerStep, Zenon DEF RecheckSocket, StartFails, AtPc, Ctl
    <2>11. CASE RemoveSocket(c)
      BY <2>1, <2>2, <2>11, ControllerStep, Zenon DEF RemoveSocket, StartFails, AtPc, Ctl
    <2>12. CASE CloseListener(c) \/ CompareIdentity(c) \/ Unlink(c)
      BY <2>1, <2>2, <2>12, ControllerStep, Zenon DEF CloseListener, CompareIdentity, Unlink, AtPc, Ctl
    <2>13. CASE ReleaseLock(c) \/ ControllerCrashes(c)
      BY <2>1, <2>13, ControllerStep DEF ReleaseLock, ControllerCrashes, Ctl
    <2> QED BY <1>2, <2>3, <2>4, <2>5, <2>6, <2>7, <2>8, <2>9, <2>10, <2>11, <2>12, <2>13
  <1> QED BY <1>1, <1>2 DEF EndpointNext

\* For any number of controllers of one database, starts, probes and crashes,
\* the controller that serves is the one at the endpoint's path.
THEOREM OwnerReached == EndpointSpec => []OwnerIsReached
  <1>1. EndpointInit => EndpointInv
    <2> SUFFICES ASSUME EndpointInit PROVE EndpointInv
      OBVIOUS
    <2>1. Off \in ControllerRow /\ Off.pc = "off"
      BY DEF Off, ControllerRow
    <2>2. path \in SUBSET SocketInode /\ controller \in [Controllers -> ControllerRow]
      BY <2>1 DEF EndpointInit
    <2>3. \A c \in Controllers : controller[c].pc = "off"
      BY <2>1 DEF EndpointInit
    <2> QED BY <2>2, <2>3 DEF EndpointInv, HoldsLock, HasSocket
  <1>2. EndpointInv => OwnerIsReached
    BY Zenon DEF EndpointInv, OneDatabase, OwnerIsReached, IncumbentIsKept, HasSocket
  <1> QED BY <1>1, <1>2, EndpointNextInv, PTL DEF EndpointSpec
================================================================================
