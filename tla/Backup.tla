------------------------------- MODULE Backup -------------------------------
(***************************************************************************)
(* The backup command (storage_backup_admin.rs, Store::backup_to) beside   *)
(* the other commands of the owning loop: lifecycle commands and release   *)
(* activations.  A backup is admitted to the ledger first, then copied,    *)
(* verified and completed, each in a step of its own; the process may die  *)
(* between any two.                                                        *)
(***************************************************************************)
EXTENDS ReleaseSelector

CONSTANT BackupIds   \* logical names of backups

ASSUME BackupAssumption == BackupIds \subseteq Args

VARIABLES
    files,    \* files[b]: the destination of backup b
    copy      \* the backup the loop is working on, and how far it is

backupVars == <<files, copy>>
adminVars == <<vars, backupVars>>

Absent  == [state |-> "absent"]
Partial == [state |-> "partial"]

CopyRest == [phase |-> "idle"]

\* The store as the owning loop sees it now.
Image == [state |-> "complete", ledger |-> ledger, release |-> selector.active]

AdminInit ==
    /\ Init
    /\ files = [b \in BackupIds |-> Absent]
    /\ copy = CopyRest

-----------------------------------------------------------------------------
(* perform_operator_backup. *)

\* The backup ends and its caller is told the status.
EndCopy(status) ==
    /\ copy' = CopyRest
    /\ Answer(copy.request, status)

Row == ledger[copy.row]
Destination == files[copy.request.args]

AdmitBackup(r) ==
    /\ copy.phase = "idle"
    /\ Arrives(r)
    /\ AdmitCommand(r)
    /\ copy' = [phase |-> "admitted", request |-> r, row |-> Len(ledger) + 1, replayed |-> FALSE]
    /\ UNCHANGED <<selector, good, running, dispatch, reply, crashes, files>>

ReplayBackup(r) ==
    /\ copy.phase = "idle"
    /\ Arrives(r)
    /\ \E i \in DOMAIN ledger :
          /\ ledger[i].key = r.key /\ ledger[i].name = r.name /\ ledger[i].args = r.args
          /\ copy' = [phase |-> "admitted", request |-> r, row |-> i, replayed |-> TRUE]
    /\ UNCHANGED <<ledgerVars, selector, good, running, dispatch, reply, crashes, files>>

\* Mutant: any complete file of that name will do.
VerifiesAnyFile == Destination.state = "complete"

\* verify_backup: a complete database of this deployment and release that
\* contains the admitted receipt at its sequence.
Verifies ==
    /\ Destination.state = "complete"
    /\ Destination.release = selector.active
    /\ copy.row \in DOMAIN Destination.ledger
    /\ LET kept == Destination.ledger[copy.row]
       IN  kept.key = Row.key /\ kept.id = Row.id /\ kept.name = Row.name /\ kept.args = Row.args

\* The receipt says the backup is durable: it is verified again, not remade.
ConfirmDurable ==
    /\ copy.phase = "admitted"
    /\ Row.durable
    /\ EndCopy(IF Verifies THEN "ok" ELSE "refused")
    /\ UNCHANGED <<ledgerVars, selector, good, running, sent, crashes, files>>

\* backup_to: the exclusive creation of an empty destination.
ReserveDestination ==
    /\ copy.phase = "admitted"
    /\ ~Row.durable
    /\ Destination = Absent
    /\ files' = [files EXCEPT ![copy.request.args] = Partial]
    /\ copy' = [copy EXCEPT !.phase = "reserved"]
    /\ UNCHANGED vars

\* A destination that exists is only looked at, and only for a replay.
FindDestination ==
    /\ copy.phase = "admitted"
    /\ ~Row.durable
    /\ Destination # Absent
    /\ copy.replayed
    /\ copy' = [copy EXCEPT !.phase = "copied"]
    /\ UNCHANGED <<vars, files>>

\* VACUUM INTO and the flush.
CopyStore ==
    /\ copy.phase = "reserved"
    /\ files' = [files EXCEPT ![copy.request.args] = Image]
    /\ copy' = [copy EXCEPT !.phase = "copied"]
    /\ UNCHANGED vars

VerifyCopy ==
    /\ copy.phase = "copied"
    /\ Verifies
    /\ copy' = [copy EXCEPT !.phase = "verified"]
    /\ UNCHANGED <<vars, files>>

\* complete_operator_backup.
FinishBackup ==
    /\ copy.phase = "verified"
    /\ CompleteBackup(copy.row)
    /\ EndCopy("ok")
    /\ UNCHANGED <<selector, good, running, sent, crashes, files>>

\* No headroom, a name that is taken, a copy that fails or does not verify, or
\* no audit row left: the receipt stays undecided and a file stays as it is.
AbandonBackup ==
    /\ \/ copy.phase = "admitted" /\ ~Row.durable /\ (Destination = Absent \/ ~copy.replayed)
       \/ copy.phase = "reserved"
       \/ copy.phase = "copied" /\ ~Verifies
       \/ copy.phase = "verified" /\ ~AuditHasRoom("command")
    /\ EndCopy("refused")
    /\ UNCHANGED <<ledgerVars, selector, good, running, sent, crashes, files>>

-----------------------------------------------------------------------------

\* The loop is working on a backup: nothing else of the loop moves.
LoopStep ==
    /\ copy.phase = "idle"
    /\ \/ \E k \in Keys, d \in Ids, a \in [release : Releases, rollback : BOOLEAN] :
             LET r == [key |-> k, id |-> d, name |-> "release_activate", args |-> a]
             IN  AnswerFromReceipt(r) \/ Validate(r)
       \/ \E k \in Keys, d \in Ids, n \in {"start", "stop"} :
             OtherCommand([key |-> k, id |-> d, name |-> n, args |-> NoArgs])
       \/ Prepare \/ PrepareAgain \/ PrepareConflict \/ Verify \/ Complete \/ CompleteRefused
       \/ Launch \/ Settle
    /\ UNCHANGED backupVars

BackupStep ==
    \/ \E k \in Keys, d \in Ids, b \in BackupIds :
          LET r == [key |-> k, id |-> d, name |-> "backup", args |-> b]
          IN  AdmitBackup(r) \/ ReplayBackup(r)
    \/ ConfirmDurable \/ ReserveDestination \/ FindDestination
    \/ CopyStore \/ VerifyCopy \/ FinishBackup \/ AbandonBackup

\* The process of the owning loop dies.
Die ==
    /\ Crash
    /\ copy' = CopyRest
    /\ UNCHANGED files

AdminNext ==
    \/ LoopStep
    \/ BackupStep
    \/ CatalogChange /\ UNCHANGED backupVars
    \/ Die

AdminSpec == AdminInit /\ [][AdminNext]_adminVars

-----------------------------------------------------------------------------
(* Properties. *)

\* One ledger begins with the other, but for backups completed meanwhile.
ExtendedBy(old, new) ==
    /\ Len(old) <= Len(new)
    /\ \A i \in DOMAIN old :
          old[i] = new[i] \/ old[i] = [new[i] EXCEPT !.durable = FALSE]

\* A receipt that says durable stands for a complete file, which holds that
\* receipt at its own sequence and is an image of an earlier state of this very
\* store, whatever died, failed or was sent again on the way there.
DurableIsRestorable ==
    \A i \in DOMAIN ledger :
        ledger[i].name = "backup" /\ ledger[i].durable =>
            LET file == files[ledger[i].args]
            IN  /\ file.state = "complete"
                /\ i \in DOMAIN file.ledger
                /\ ExtendedBy(file.ledger, ledger)
=============================================================================
