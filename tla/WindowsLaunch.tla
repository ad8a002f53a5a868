----------------------------- MODULE WindowsLaunch -----------------------------
(***************************************************************************)
(* The Windows launcher (platform-windows native_launch, native_job,       *)
(* native_integrity, and the Windows half of runtime_process).  A launch   *)
(* opens the executable without sharing writes or deletions, hashes it,    *)
(* creates a named Job Object, creates the process suspended inside it,    *)
(* verifies it, asks the store for admission and resumes it while it still *)
(* holds the store's writer reservation.  The stop and the two recoveries  *)
(* of a restarted watchdog - by the planned job's name, or by the recorded *)
(* identity - are here too.                                                *)
(*                                                                         *)
(* Windows is external: a job's name lasts as long as one handle to it is  *)
(* open; when the last one closes, a job with the kill-on-close limit      *)
(* condemns its members; a dead process's handles close after its locks    *)
(* may already be free; an open handle that denies sharing keeps its file  *)
(* from being written, renamed or replaced.                                *)
(***************************************************************************)
EXTENDS Naturals

CONSTANTS
    MaxWinLaunch,    \* bound on the launches
    MaxWatchdogs,    \* bound on the starts of the watchdog
    MaxFileChanges   \* bound on the changes of the executable and its path

ASSUME WinAssumption ==
    MaxWinLaunch \in Nat \ {0} /\ MaxWatchdogs \in Nat \ {0} /\ MaxFileChanges \in Nat

VARIABLES
    winStore,   \* the rows a launch reads, and the writer reservation
    winProc,    \* the process each launch created
    winKid,     \* what it started, in its job
    job,        \* the named Job Object of each launch
    image,      \* the executable files, where the path leads, and who holds them
    launcher    \* the watchdog's thread

winVars == <<winStore, winProc, winKid, job, image, launcher>>

WinNonce == 1..MaxWinLaunch
ImageFile     == {"released", "foreign"}
NoFile   == "none"

NoImage == [state |-> "none", doomed |-> FALSE, runs |-> FALSE, generation |-> 0]
NoJob   == [named |-> FALSE, handles |-> {}, killOnClose |-> FALSE]

\* owners: the JobOwnedProcess of each launch; todo: the intents recovery has
\* still to treat; file: the identity the integrity guard recorded.
Thread(pc, todo) == [pc |-> pc, n |-> 0, file |-> NoFile, owners |-> {}, todo |-> todo]

WinInit ==
    /\ winStore \in [mode : {"Running"}, generation : {1}, writer : {"free"},
                     intent : {[n \in WinNonce |-> "none"]},
                     kind : {"plain", "worker", "gateway"}]
    /\ winProc = [n \in WinNonce |-> NoImage]
    /\ winKid = [n \in WinNonce |-> "none"]
    /\ job = [n \in WinNonce |-> NoJob]
    /\ image \in [path : ImageFile, approved : {[f \in ImageFile |-> f = "released"]},
                  held : {[n \in WinNonce |-> NoFile]}, changes : {0}]
    /\ launcher = Thread("idle", {})

-----------------------------------------------------------------------------
(* Jobs and files. *)

\* active_processes.
Active(n) ==
    (IF winProc[n].state \in {"suspended", "running"} THEN {"leader"} ELSE {})
    \cup (IF winKid[n] # "none" THEN {"kid"} ELSE {})

\* TerminateJobObject, and the end of a kill-on-close job: every member is
\* condemned; it takes some time to be gone.
Condemn(n) ==
    /\ winProc' = [winProc EXCEPT ![n].doomed = @ \/ "leader" \in Active(n)]
    /\ winKid' = [winKid EXCEPT ![n] = IF @ = "none" THEN @ ELSE "doomed"]

\* A handle to the job closes.
CloseJob(n, who) ==
    IF job[n].handles \subseteq {who}
    THEN /\ job' = [job EXCEPT ![n] = NoJob]
         /\ IF job[n].killOnClose THEN Condemn(n) ELSE UNCHANGED <<winProc, winKid>>
    ELSE /\ job' = [job EXCEPT ![n].handles = @ \ {who}]
         /\ UNCHANGED <<winProc, winKid>>

ReleaseImage(n) == image' = [image EXCEPT !.held[n] = NoFile]

\* hash_immutable_file of what a file now contains.
Matches(f) == image.approved[f]

Free(f) == \A n \in WinNonce : image.held[n] # f

Changed(new) ==
    /\ image.changes < MaxFileChanges
    /\ image' = [new EXCEPT !.changes = @ + 1]
    /\ UNCHANGED <<winStore, winProc, winKid, job, launcher>>

\* Somebody writes a file, or replaces what the path leads to.
WriteFile ==
    \E f \in ImageFile : Free(f) /\ Changed([image EXCEPT !.approved[f] = ~@])

ReplaceFile ==
    /\ Free(image.path)
    /\ \E f \in ImageFile \ {image.path} : Changed([image EXCEPT !.path = f])

\* A process ends by itself, by another's hand, or condemned.
WinExits(n) ==
    /\ "leader" \in Active(n)
    /\ winProc' = [winProc EXCEPT ![n].state = "gone", ![n].doomed = FALSE]
    /\ UNCHANGED <<winStore, winKid, job, image, launcher>>

WinKidExits(n) ==
    /\ winKid[n] # "none" /\ winKid' = [winKid EXCEPT ![n] = "none"]
    /\ UNCHANGED <<winStore, winProc, job, image, launcher>>

WinForks(n) ==
    /\ winProc[n].state = "running" /\ ~winProc[n].doomed /\ winKid[n] = "none"
    /\ winKid' = [winKid EXCEPT ![n] = "alive"]
    /\ UNCHANGED <<winStore, winProc, job, image, launcher>>

-----------------------------------------------------------------------------
(* The launch. *)

InCall(pc) == launcher.pc = pc
WinGoes(pc) == launcher' = [launcher EXCEPT !.pc = pc]
N == launcher.n
Quiet == IF launcher.todo = {} THEN "idle" ELSE "recover"

\* WindowsLaunchError::Ordinary: the handles of the call are dropped and the
\* runtime settles the intent.
Ordinary == WinGoes("winsettle") /\ ReleaseImage(N) /\ CloseJob(N, "live")

\* WindowsLaunchError::CleanupUncertain: the handles are dropped as well, the
\* intent stays prepared.
Uncertain == WinGoes(Quiet) /\ ReleaseImage(N) /\ CloseJob(N, "live")

Unspawned == UNCHANGED <<winStore, winProc, winKid>>
Unmoved   == UNCHANGED <<winProc, winKid, job, image>>

\* The runtime prepares an intent with its planned containment.
WinPrepare ==
    /\ InCall("idle") /\ winStore.mode = "Running" /\ winStore.writer = "free"
    /\ \A n \in WinNonce : winStore.intent[n] \in {"none", "cleaned"}
    /\ \E n \in WinNonce :
          /\ winStore.intent[n] = "none"
          /\ winStore' = [winStore EXCEPT !.intent[n] = "prepared"]
          /\ launcher' = [launcher EXCEPT !.pc = "guard", !.n = n]
    /\ Unmoved

\* Mutant: the handle shares writes and deletions.
OpenShared ==
    /\ InCall("guard")
    /\ \/ /\ Matches(image.path)
          /\ launcher' = [launcher EXCEPT !.pc = "barrier", !.file = image.path]
          /\ UNCHANGED <<job, image>> /\ Unspawned
       \/ Ordinary /\ UNCHANGED winStore

\* The specification is validated and allowlisted; IntegrityGuards::open holds
\* the file and its directory, and hashes the file through that handle.
OpenGuards ==
    /\ InCall("guard")
    /\ \/ /\ Matches(image.path)
          /\ launcher' = [launcher EXCEPT !.pc = "barrier", !.file = image.path]
          /\ image' = [image EXCEPT !.held[N] = image.path]
          /\ UNCHANGED job /\ Unspawned
       \/ Ordinary /\ UNCHANGED winStore

\* verify_path_barrier: the path leads to the held file and to its bytes.
PathBarrier == image.path = launcher.file /\ Matches(image.path)

FirstBarrier ==
    /\ InCall("barrier")
    /\ \/ PathBarrier /\ WinGoes("session") /\ UNCHANGED <<job, image>> /\ Unspawned
       \/ Ordinary /\ UNCHANGED winStore

\* The session a SessionSelector chooses, which may not be there yet.
SelectSession ==
    /\ InCall("session")
    /\ \/ WinGoes("job") /\ UNCHANGED <<job, image>> /\ Unspawned
       \/ Ordinary /\ UNCHANGED winStore

\* Mutant: the job has no kill-on-close limit.
CreateOpenJob ==
    /\ InCall("job")
    /\ \/ /\ ~job[N].named
          /\ job' = [job EXCEPT ![N] = [NoJob EXCEPT !.named = TRUE, !.handles = {"live"}]]
          /\ WinGoes("create") /\ UNCHANGED image /\ Unspawned
       \/ Ordinary /\ UNCHANGED winStore

\* create_job: a new named object with its limits; an existing one is refused.
CreateJob ==
    /\ InCall("job")
    /\ \/ /\ ~job[N].named
          /\ job' = [job EXCEPT ![N] = [named |-> TRUE, handles |-> {"live"},
                                        killOnClose |-> TRUE]]
          /\ WinGoes("create") /\ UNCHANGED image /\ Unspawned
       \/ Ordinary /\ UNCHANGED winStore

\* query_user_token and spawn_suspended_with_job: the process is created from
\* the path, inside the job, and does not run yet.  SpawnFailure::BeforeCreate.
CreateSuspended ==
    /\ InCall("create")
    /\ \/ /\ winProc' = [winProc EXCEPT ![N] =
                [state |-> "suspended", doomed |-> FALSE, runs |-> Matches(image.path),
                 generation |-> winStore.generation]]
          /\ WinGoes(IF winStore.kind = "plain" THEN "barrier2" ELSE "bootstrap")
          /\ UNCHANGED <<winStore, winKid, job, image>>
       \/ Ordinary /\ UNCHANGED winStore

Verified(next) == WinGoes(next) \/ WinGoes("condemn")

\* write_bootstrap: the whole frame in one write that does not wait, because
\* nobody reads yet.  SpawnFailure::Created.
WriteBootstrap ==
    /\ InCall("bootstrap") /\ Verified("barrier2")
    /\ UNCHANGED winStore /\ Unmoved

SecondBarrier ==
    /\ InCall("barrier2")
    /\ (PathBarrier /\ WinGoes("identity")) \/ WinGoes("condemn")
    /\ UNCHANGED winStore /\ Unmoved

\* verify_identity, while the leader is suspended.
IdentityVerifies == "leader" \in Active(N)

\* The live witness, the session, and is_member_running.
VerifyIdentity ==
    /\ InCall("identity")
    /\ \/ IdentityVerifies
          /\ WinGoes(IF winStore.kind = "plain" THEN "resume" ELSE "admit")
       \/ WinGoes("condemn")
    /\ UNCHANGED winStore /\ Unmoved

\* The rows a worker's or a gateway's admission checks.
Admitted ==
    /\ winStore.mode = "Running" /\ winStore.intent[N] = "prepared"
    /\ winStore.generation = winProc[N].generation

\* Mutant: the reservation is dropped when the check returns.
AdmitAndRelease ==
    /\ InCall("admit") /\ winStore.writer = "free"
    /\ (Admitted /\ WinGoes("resume")) \/ WinGoes("condemn")
    /\ UNCHANGED winStore /\ Unmoved

\* runtime_worker_admission::authorize, runtime_gateway_health_admission::
\* authorize_windows: the configuration is read again and the rows are checked
\* under a writer reservation, which the launch keeps.
AdmitResume ==
    /\ InCall("admit")
    /\ \/ /\ winStore.writer = "free" /\ Admitted
          /\ winStore' = [winStore EXCEPT !.writer = "launch"] /\ WinGoes("resume")
       \/ UNCHANGED winStore /\ WinGoes("condemn")
    /\ Unmoved

\* ResumeThread, and only then the reservation is dropped.
ResumeThread ==
    /\ InCall("resume")
    /\ \/ /\ winProc' = [winProc EXCEPT ![N].state =
                IF @ = "suspended" /\ ~winProc[N].doomed THEN "running" ELSE @]
          /\ launcher' = [launcher EXCEPT !.pc = "winrecord", !.owners = @ \cup {N}]
       \/ UNCHANGED winProc /\ WinGoes("condemn")
    /\ winStore' = [winStore EXCEPT !.writer = "free"]
    /\ UNCHANGED <<winKid, job, image>>

\* The runtime records the proof.
WinRecord ==
    /\ InCall("winrecord") /\ winStore.writer = "free"
    /\ winStore' = [winStore EXCEPT !.intent[N] = "active"]
    /\ WinGoes("idle") /\ Unmoved

-----------------------------------------------------------------------------
(* terminate_job_and_wait and its callers. *)

\* classify_spawn_cleanup: the job of a failed launch is terminated.
CondemnSpawned ==
    /\ InCall("condemn")
    /\ \/ Active(N) = {} /\ Ordinary
       \/ Active(N) # {} /\ Condemn(N) /\ WinGoes("drained") /\ UNCHANGED <<job, image>>
       \/ Uncertain
    /\ UNCHANGED winStore

\* The wait: no active process, over the settle delay; or the deadline.
DrainSpawned ==
    /\ InCall("drained")
    /\ (Active(N) = {} /\ Ordinary) \/ Uncertain
    /\ UNCHANGED winStore

WinSettle ==
    /\ InCall("winsettle") /\ winStore.writer = "free"
    /\ winStore' = [winStore EXCEPT !.intent[N] = "cleaned"]
    /\ WinGoes(Quiet) /\ Unmoved

\* A pass that inspects an owned process and stops it: it ended, or it must not
\* run.  is_running looks at the leader's handle alone.
WinInspect(n) ==
    /\ InCall("idle") /\ n \in launcher.owners /\ winStore.intent[n] = "active"
    /\ winProc[n].state = "gone" \/ winStore.mode # "Running"
    /\ launcher' = [launcher EXCEPT !.pc = "winstop", !.n = n]
    /\ UNCHANGED winStore /\ Unmoved

Stopped ==
    /\ launcher' = [launcher EXCEPT !.pc = "winsettle", !.owners = @ \ {N}]
    /\ ReleaseImage(N) /\ CloseJob(N, "live")

\* graceful_stop: done when the job is empty, otherwise unsupported, and
\* force_stop terminates the job.
WinStop ==
    /\ InCall("winstop")
    /\ \/ Active(N) = {} /\ Stopped
       \/ Active(N) # {} /\ Condemn(N) /\ WinGoes("winwait") /\ UNCHANGED <<job, image>>
       \/ WinGoes(Quiet) /\ UNCHANGED <<winProc, winKid, job, image>>
    /\ UNCHANGED winStore

\* The job is empty and the leader's handle signalled; or the deadline, and
\* the owner is retained.
WinStopWait ==
    /\ InCall("winwait")
    /\ \/ Active(N) = {} /\ Stopped
       \/ WinGoes(Quiet) /\ UNCHANGED <<winProc, winKid, job, image>>
    /\ UNCHANGED winStore

-----------------------------------------------------------------------------
(* The watchdog's end and its next start; the operator. *)

\* The process dies; its reservation is rolled back, its job handles are still
\* to be closed.
WinCrash ==
    /\ ~InCall("down") /\ winStore.generation < MaxWatchdogs
    /\ launcher' = Thread("down", {})
    /\ winStore' = [winStore EXCEPT !.writer = "free"]
    /\ job' = [n \in WinNonce |-> [job[n] EXCEPT !.handles =
                  IF "live" \in @ THEN {"dying"} ELSE @]]
    /\ image' = [image EXCEPT !.held = [n \in WinNonce |-> NoFile]]
    /\ UNCHANGED <<winProc, winKid>>

OldHandleCloses(n) ==
    /\ "dying" \in job[n].handles /\ CloseJob(n, "dying")
    /\ UNCHANGED <<winStore, image, launcher>>

WinRestart ==
    /\ InCall("down") /\ winStore.writer = "free"
    /\ winStore' = [winStore EXCEPT !.generation = @ + 1]
    /\ launcher' = Thread("recover",
          {n \in WinNonce : winStore.intent[n] \in {"prepared", "active"}})
    /\ Unmoved

Treats(n, pc) ==
    launcher' = [launcher EXCEPT !.pc = pc, !.n = n, !.todo = @ \ {n}]

RecoveryEnds ==
    /\ InCall("recover") /\ launcher.todo = {}
    /\ WinGoes("idle") /\ UNCHANGED winStore /\ Unmoved

\* open_planned_job: an absent name is conclusive, another failure is not.
OpenPlannedJob(n) ==
    /\ InCall("recover") /\ n \in launcher.todo /\ winStore.intent[n] = "prepared"
    /\ \/ ~job[n].named /\ Treats(n, "winsettle") /\ UNCHANGED job
       \/ /\ job[n].named /\ Treats(n, "planned")
          /\ job' = [job EXCEPT ![n].handles = @ \cup {"live"}]
       \/ launcher' = [launcher EXCEPT !.todo = @ \ {n}] /\ UNCHANGED job
    /\ UNCHANGED <<winStore, winProc, winKid, image>>

\* force_cleanup_planned_containment of a job that exists, by its name alone.
CondemnPlanned ==
    /\ InCall("planned")
    /\ \/ Active(N) = {} /\ Ordinary
       \/ Active(N) # {} /\ Condemn(N) /\ WinGoes("drained") /\ UNCHANGED <<job, image>>
       \/ Uncertain
    /\ UNCHANGED winStore

\* JobOwnedProcess::reopen: the job, its owner and limits, the executable, the
\* recorded process and its membership; it must be alive.
Reopenable(n) == job[n].named /\ Matches(image.path) /\ "leader" \in Active(n)

ReopenJob(n) ==
    /\ InCall("recover") /\ n \in launcher.todo /\ winStore.intent[n] = "active"
    /\ \/ /\ Reopenable(n)
          /\ job' = [job EXCEPT ![n].handles = @ \cup {"live"}]
          /\ image' = [image EXCEPT !.held[n] = image.path]
          /\ launcher' = [launcher EXCEPT !.n = n, !.owners = @ \cup {n}, !.todo = @ \ {n},
                             !.pc = IF winStore.kind # "plain" \/ winStore.mode # "Running"
                                    THEN "winstop" ELSE "recover"]
       \/ launcher' = [launcher EXCEPT !.todo = @ \ {n}] /\ UNCHANGED <<job, image>>
    /\ UNCHANGED <<winStore, winProc, winKid>>

\* An operator's Start or Stop: a write that needs the reservation.
WinSetMode ==
    /\ winStore.writer = "free"
    /\ \E m \in {"Running", "Stopped"} \ {winStore.mode} :
          winStore' = [winStore EXCEPT !.mode = m]
    /\ UNCHANGED launcher /\ Unmoved

-----------------------------------------------------------------------------
WinLaunchStep ==
    \/ WinPrepare \/ OpenGuards \/ FirstBarrier \/ SelectSession \/ CreateJob
    \/ CreateSuspended \/ WriteBootstrap \/ SecondBarrier \/ VerifyIdentity
    \/ AdmitResume \/ ResumeThread \/ WinRecord \/ CondemnSpawned \/ DrainSpawned \/ WinSettle

WinRecovery ==
    \/ WinRestart \/ RecoveryEnds \/ CondemnPlanned
    \/ \E n \in WinNonce : OpenPlannedJob(n) \/ ReopenJob(n)

WinNext ==
    \/ WinLaunchStep \/ WinRecovery \/ WinStop \/ WinStopWait
    \/ WinCrash \/ WinSetMode \/ WriteFile \/ ReplaceFile
    \/ \E n \in WinNonce :
          WinInspect(n) \/ OldHandleCloses(n) \/ WinExits(n) \/ WinKidExits(n) \/ WinForks(n)

WinSpec == WinInit /\ [][WinNext]_winVars

-----------------------------------------------------------------------------
(* Properties. *)

\* A suspended worker or gateway starts to run only while the operator wants
\* the deployment to run, for the watchdog generation that created it and with
\* its intent still prepared: a Stop commits before the admission or after
\* ResumeThread, never in between.
ResumeIsAuthorized ==
    [][\A n \in WinNonce :
          /\ winStore.kind # "plain"
          /\ winProc[n].state = "suspended" /\ winProc'[n].state = "running"
          => /\ winStore.mode = "Running" /\ winStore.intent[n] = "prepared"
             /\ winStore.generation = winProc[n].generation]_winVars

\* What runs was created from the bytes that were hashed and approved, although
\* the executable may be rewritten and its path may lead elsewhere at any time
\* the launch does not hold the file.
ImageIsApproved == \A n \in WinNonce : winProc[n].state = "running" => winProc[n].runs

\* A settled intent has no process left that is not already condemned: whether
\* the job was seen empty, or its name was absent and that was taken as proof.
SettledIsCondemned ==
    \A n \in WinNonce : winStore.intent[n] = "cleaned" =>
        /\ "leader" \in Active(n) => winProc[n].doomed
        /\ winKid[n] # "alive"
================================================================================
