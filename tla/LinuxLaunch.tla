------------------------------ MODULE LinuxLaunch ------------------------------
(***************************************************************************)
(* The Linux process adapter and the trusted helper it launches components *)
(* through (platform/linux_process, platform/linux_launcher,               *)
(* runtime_process): a launch creates a cgroup, spawns the helper, puts it *)
(* into the cgroup, hands it a request and GO, and the helper, holding the *)
(* store's writer slot, checks the durable intent and replaces itself by   *)
(* the target.  The stop, the cleanup of a failed launch and the cleanup a *)
(* restarted watchdog makes are here too.                                  *)
(*                                                                         *)
(* Launch numbers are launch nonces, one planned cgroup each.  A step is   *)
(* one system call or one store transaction of the watchdog or of the      *)
(* helper; deaths of either, time limits and failing calls are steps or    *)
(* alternatives.  The kernel is external: a killed process makes no step   *)
(* but its exit, a cgroup with members cannot be removed, no process       *)
(* leaves its cgroup, a zombie is no member and keeps its number.          *)
(***************************************************************************)
EXTENDS FiniteSets, Naturals

CONSTANTS
    MaxLaunch,       \* bound on the launches
    MaxChildren,     \* max_children: the children an adapter holds
    MaxGeneration,   \* bound on the starts of the watchdog
    Kinds            \* what a launch carries besides the request

ASSUME LaunchAssumption ==
    /\ MaxLaunch \in Nat \ {0} /\ MaxGeneration \in Nat \ {0}
    /\ MaxChildren \in Nat \ {0}
    /\ Kinds # {} /\ Kinds \subseteq {"plain", "worker", "gateway"}

VARIABLES
    store,     \* the rows the launch reads, and the holder of the writer slot
    leader,    \* the process each launch spawned: the helper, then the target
    kid,       \* what the target forked, in its cgroup
    cgroup,    \* the planned cgroup of each launch
    chan,      \* the helper's standard input and its readiness file
    helper,    \* where each helper is
    adapter,   \* the watchdog's adapter
    signalled  \* what the last graceful TERM was delivered to

launchVars == <<store, leader, kid, cgroup, chan, helper, adapter, signalled>>

Nonce == 1..MaxLaunch
NoLaunch == 0

NoProcess == [state |-> "none", in |-> FALSE, doomed |-> FALSE, owned |-> FALSE,
              generation |-> 0, recycled |-> FALSE]

Closed == [frame |-> FALSE, go |-> FALSE, boot |-> FALSE, ready |-> FALSE, open |-> FALSE]

\* LinuxProcessAdapter and the call in progress: children hold a Child handle,
\* uncertain are the retained containments.
Adapter(pc) == [pc |-> pc, n |-> NoLaunch, child |-> FALSE, killFailed |-> FALSE,
                children |-> {}, uncertain |-> {}, pidfd |-> "none"]

LaunchInit ==
    /\ store \in [mode : {"Running"}, generation : {1}, writer : {NoLaunch},
                  intent : {[n \in Nonce |-> "none"]}, kind : Kinds]
    /\ leader = [n \in Nonce |-> NoProcess]
    /\ kid = [n \in Nonce |-> "none"]
    /\ cgroup = [n \in Nonce |-> "none"]
    /\ chan = [n \in Nonce |-> Closed]
    /\ helper = [n \in Nonce |-> "none"]
    /\ adapter = Adapter("idle")
    /\ signalled = "none"

Processes == <<leader, kid, helper>>
World     == <<leader, kid, helper, cgroup, chan>>

-----------------------------------------------------------------------------
(* Processes and cgroups. *)

\* read_live_process finds it.
Live(n) == leader[n].state \in {"helper", "target"}

\* read_live_process_for_executable, identities_match: the process runs the
\* approved executable, by its path or as a sealed copy.
RunsTarget(n) == leader[n].state = "target"

\* Cgroup::existing, maybe_existing: the directory and its control files.
Existing(n) == cgroup[n] = "dir"

\* Cgroup::pids: the members of the cgroup.
Pids(n) ==
    (IF Live(n) /\ leader[n].in THEN {"leader"} ELSE {})
    \cup (IF kid[n] \in {"alive", "doomed"} THEN {"kid"} ELSE {})

\* read_process_creation_status and the number a process left: who has it.
Occupant(n) ==
    IF leader[n].state \in {"helper", "target", "zombie"} THEN "leader"
    ELSE IF leader[n].recycled THEN "foreign" ELSE "none"

\* Cgroup::kill_all.
KillAll(n) ==
    /\ leader' = [leader EXCEPT ![n].doomed = @ \/ "leader" \in Pids(n)]
    /\ kid' = [kid EXCEPT ![n] = IF @ = "alive" THEN "doomed" ELSE @]

\* Cgroup::remove of an empty cgroup.
Remove(n) == cgroup' = [cgroup EXCEPT ![n] = "none"]

FreeSlot(n) == [store EXCEPT !.writer = IF @ = n THEN NoLaunch ELSE @]

\* A helper or a target exits: by an error, by its own end, or killed.
LeaderExits(n) ==
    /\ Live(n)
    /\ leader' = [leader EXCEPT ![n].state = IF leader[n].owned THEN "zombie" ELSE "gone",
                                ![n].in = FALSE, ![n].doomed = FALSE]
    /\ helper' = [helper EXCEPT ![n] = "none"]
    /\ store' = FreeSlot(n)
    /\ UNCHANGED <<kid, cgroup, chan, adapter, signalled>>

KidExits(n) ==
    /\ kid[n] \in {"alive", "doomed"}
    /\ kid' = [kid EXCEPT ![n] = "none"]
    /\ UNCHANGED <<store, leader, cgroup, chan, helper, adapter, signalled>>

Fork(n) ==
    /\ leader[n].state = "target" /\ ~leader[n].doomed /\ kid[n] = "none"
    /\ kid' = [kid EXCEPT ![n] = "alive"]
    /\ UNCHANGED <<store, leader, cgroup, chan, helper, adapter, signalled>>

\* The number of a process that is gone is given to another.
Recycle(n) ==
    /\ leader[n].state = "gone" /\ ~leader[n].recycled
    /\ store.intent[n] = "active"
    /\ leader' = [leader EXCEPT ![n].recycled = TRUE]
    /\ UNCHANGED <<store, kid, cgroup, chan, helper, adapter, signalled>>

-----------------------------------------------------------------------------
(* The helper. *)

HelperAt(n, pc) == leader[n].state = "helper" /\ ~leader[n].doomed /\ helper[n] = pc
HelperGoes(n, pc) == helper' = [helper EXCEPT ![n] = pc]

\* parse_helper_bootstrap_arguments, from_parent_fds: the descriptors are
\* opened through the parent, which holds them while the launch is pending.
HelperStarts(n) ==
    /\ HelperAt(n, "start") /\ chan[n].open
    /\ HelperGoes(n, "request")
    /\ UNCHANGED <<store, leader, kid, cgroup, chan, adapter, signalled>>

\* read_frame_bounded, the role checks, and the acknowledgement.
HelperReadsRequest(n) ==
    /\ HelperAt(n, "request") /\ chan[n].frame
    /\ chan' = [chan EXCEPT ![n].ready = TRUE]
    /\ HelperGoes(n, "go")
    /\ UNCHANGED <<store, leader, kid, cgroup, adapter, signalled>>

\* read_go_bounded and, for a gateway, read_gateway_health_frame.
HelperReadsGo(n) ==
    /\ HelperAt(n, "go") /\ chan[n].go
    /\ store.kind = "gateway" => chan[n].boot
    /\ HelperGoes(n, "authorize")
    /\ UNCHANGED <<store, leader, kid, cgroup, chan, adapter, signalled>>

\* verify_current_cgroup_full_path, validate_exact_cgroup_child: the helper is
\* in the child of the delegated root that was planned for it.
InPlannedCgroup(n) == Existing(n) /\ "leader" \in Pids(n)

\* authorize_linux_helper_with_health: the rows that let a helper go on.
Authorized(n) ==
    /\ store.mode = "Running"
    /\ store.generation = leader[n].generation
    /\ store.intent[n] = "prepared"
    /\ InPlannedCgroup(n)

\* Mutant: the reservation is not kept.
HelperChecksIntent(n) ==
    /\ HelperAt(n, "authorize") /\ store.writer = NoLaunch /\ Authorized(n)
    /\ HelperGoes(n, "exec")
    /\ UNCHANGED <<store, leader, kid, cgroup, chan, adapter, signalled>>

\* reserve_launch_admission: the writer slot is taken, the rows are read under
\* it, and it is kept.  A helper that is refused, or finds the store busy, exits.
HelperAuthorizes(n) ==
    /\ HelperAt(n, "authorize") /\ store.writer = NoLaunch /\ Authorized(n)
    /\ store' = [store EXCEPT !.writer = n]
    /\ HelperGoes(n, "exec")
    /\ UNCHANGED <<leader, kid, cgroup, chan, adapter, signalled>>

\* Mutant: the store's descriptors survive the exec.
HelperExecsWithStore(n) ==
    /\ HelperAt(n, "exec") /\ "leader" \in Pids(n)
    /\ leader' = [leader EXCEPT ![n].state = "target"]
    /\ HelperGoes(n, "none")
    /\ UNCHANGED <<store, kid, cgroup, chan, adapter, signalled>>

\* verify_current_cgroup and spawn_authorized_target: the target replaces the
\* helper, and the store's descriptors, opened CLOEXEC, are closed.
HelperExecs(n) ==
    /\ HelperAt(n, "exec") /\ "leader" \in Pids(n)
    /\ leader' = [leader EXCEPT ![n].state = "target"]
    /\ store' = FreeSlot(n)
    /\ HelperGoes(n, "none")
    /\ UNCHANGED <<kid, cgroup, chan, adapter, signalled>>

-----------------------------------------------------------------------------
(* The launch. *)

At(pc) == adapter.pc = pc
Goes(pc) == adapter' = [adapter EXCEPT !.pc = pc]
L == adapter.n

UnsettledIntents == {n \in Nonce : store.intent[n] \in {"prepared", "active"}}

\* The runtime prepares an intent and calls the adapter.
PrepareLaunch ==
    /\ At("idle") /\ store.mode = "Running" /\ store.writer = NoLaunch /\ UnsettledIntents = {}
    /\ \E n \in Nonce :
          /\ store.intent[n] = "none" /\ \A m \in 1..(n - 1) : store.intent[m] # "none"
          /\ store' = [store EXCEPT !.intent[n] = "prepared"]
          /\ adapter' = [adapter EXCEPT !.pc = "preflight", !.n = n, !.child = FALSE,
                                        !.killFailed = FALSE]
    /\ UNCHANGED <<World, signalled>>

\* finish_launch_error_after_cleanup.
OrdinaryError == Goes("settle")
UncertainError ==
    adapter' = [adapter EXCEPT !.pc = "idle", !.uncertain = @ \cup {L}]

\* launch_with_bootstraps, before its first effect: the specification, the
\* executable, the working directory and the environment are validated, the
\* number of children is bounded and a retained containment is refused.
Preflight ==
    /\ At("preflight")
    /\ \/ Cardinality(adapter.children) < MaxChildren /\ L \notin adapter.uncertain
          /\ Goes("create")
       \/ Goes(IF L \in adapter.uncertain THEN "idle" ELSE "settle")
    /\ UNCHANGED <<store, World, signalled>>

\* CgroupRoot::create: a cgroup whose controls cannot be verified is removed
\* again, or retained.
Create ==
    /\ At("create")
    /\ \/ cgroup' = [cgroup EXCEPT ![L] = "dir"] /\ Goes("spawn")
       \/ OrdinaryError /\ UNCHANGED cgroup
       \/ cgroup' = [cgroup EXCEPT ![L] = "dir"] /\ adapter' = [adapter EXCEPT !.pc = "idle"]
    /\ UNCHANGED <<store, leader, kid, helper, chan, signalled>>

\* TrustedLinuxLauncher::prepare_inner.
Spawn ==
    /\ At("spawn")
    /\ \/ /\ leader' = [leader EXCEPT ![L] = [NoProcess EXCEPT !.state = "helper",
                                 !.owned = TRUE, !.generation = store.generation]]
          /\ helper' = [helper EXCEPT ![L] = "start"]
          /\ chan' = [chan EXCEPT ![L].open = TRUE]
          /\ adapter' = [adapter EXCEPT !.pc = "assign", !.child = TRUE]
       \/ Goes("kill") /\ UNCHANGED <<leader, helper, chan>>
    /\ UNCHANGED <<store, kid, cgroup, signalled>>

\* Cgroup::add_process.
Assign ==
    /\ At("assign")
    /\ \/ Live(L) /\ leader' = [leader EXCEPT ![L].in = TRUE] /\ Goes("verify")
       \/ Goes("kill") /\ UNCHANGED leader
    /\ UNCHANGED <<store, kid, helper, cgroup, chan, signalled>>

\* read_live_process, live_process_matches_executable, and the membership.
Verify ==
    /\ At("verify")
    /\ \/ "leader" \in Pids(L) /\ Goes("frame")
       \/ Goes("kill")
    /\ UNCHANGED <<store, World, signalled>>

Send(field, next) ==
    \/ Live(L) /\ chan' = [chan EXCEPT ![L][field] = TRUE] /\ Goes(next)
    \/ Goes("kill") /\ UNCHANGED chan

\* release_gate, first half: the request, and READY.
SendRequest ==
    /\ At("frame") /\ Send("frame", "ready")
    /\ UNCHANGED <<store, leader, kid, helper, cgroup, signalled>>

WaitForReady ==
    /\ At("ready")
    /\ \/ chan[L].ready /\ Goes("go")
       \/ Goes("kill")
    /\ UNCHANGED <<store, World, signalled>>

\* release_gate, second half: GO, and the bootstrap of a worker or a gateway.
SendGo ==
    /\ At("go") /\ Send("go", IF store.kind = "plain" THEN "target" ELSE "boot")
    /\ UNCHANGED <<store, leader, kid, helper, cgroup, signalled>>

SendBootstrap ==
    /\ At("boot") /\ Send("boot", "target")
    /\ UNCHANGED <<store, leader, kid, helper, cgroup, signalled>>

\* wait_for_target_in_cgroup: the helper is seen to be the approved target, it
\* is seen to have exited and is reaped, or the time is up.
WaitForTarget ==
    /\ At("target")
    /\ \/ /\ RunsTarget(L) /\ "leader" \in Pids(L)
          /\ adapter' = [adapter EXCEPT !.pc = "finish", !.children = @ \cup {L}]
          /\ UNCHANGED leader
       \/ /\ leader[L].state = "zombie"
          /\ leader' = [leader EXCEPT ![L].state = "gone"]
          /\ Goes("kill")
       \/ Goes("kill") /\ UNCHANGED leader
    /\ UNCHANGED <<store, kid, helper, cgroup, chan, signalled>>

\* finish_native_launch: when no proof can be made for the child it is stopped,
\* and the launch is an ordinary failure only if the stop proved its exit.
FinishLaunch ==
    /\ At("finish")
    /\ Goes("record") \/ Goes("graceful")
    /\ UNCHANGED <<store, World, signalled>>

\* The runtime records the proof: the intent becomes active.
RecordActive ==
    /\ At("record") /\ store.writer = NoLaunch
    /\ store' = [store EXCEPT !.intent[L] = "active"]
    /\ Goes("idle")
    /\ UNCHANGED <<World, signalled>>

-----------------------------------------------------------------------------
(* The cleanup of a failed launch: cleanup_failed_cgroup_launch_with. *)

\* close_handoff_descriptors, and cgroup.kill, which may fail.
CleanupKill ==
    /\ At("kill")
    /\ \/ KillAll(L)
       \/ UNCHANGED <<leader, kid>>
    /\ chan' = [chan EXCEPT ![L].open = FALSE]
    /\ Goes(IF adapter.child THEN "terminate" ELSE "empty")
    /\ UNCHANGED <<store, helper, cgroup, signalled>>

\* terminate_failed_child_with: the kill.
TerminateChild ==
    /\ At("terminate")
    /\ \/ /\ leader[L].state \in {"zombie", "gone"}
          /\ leader' = [leader EXCEPT ![L].state = "gone"]
          /\ Goes("empty")
       \/ /\ Live(L)
          /\ leader' = [leader EXCEPT ![L].doomed = TRUE] /\ Goes("reap")
       \/ /\ Live(L) /\ UNCHANGED leader
          /\ adapter' = [adapter EXCEPT !.pc = "reap", !.killFailed = TRUE]
    /\ UNCHANGED <<store, kid, helper, cgroup, chan, signalled>>

\* terminate_failed_child_with: the reap, or the deadline.
ReapChild ==
    /\ At("reap")
    /\ \/ /\ leader[L].state = "zombie"
          /\ leader' = [leader EXCEPT ![L].state = "gone"] /\ Goes("empty")
       \/ /\ adapter' = [adapter EXCEPT !.pc = "empty", !.killFailed = TRUE]
          /\ UNCHANGED leader
    /\ UNCHANGED <<store, kid, helper, cgroup, chan, signalled>>

\* The cgroup is empty and removed, and the child was reaped; or the
\* containment is retained, and the pending launch's Drop kills its helper.
CleanupProof ==
    /\ At("empty")
    /\ \/ /\ Pids(L) = {} /\ ~adapter.killFailed
          /\ Remove(L) /\ OrdinaryError /\ UNCHANGED leader
       \/ /\ UncertainError /\ UNCHANGED cgroup
          /\ \/ leader' = [leader EXCEPT ![L].doomed = Live(L) /\ adapter.child]
             \/ UNCHANGED leader
    /\ UNCHANGED <<store, kid, helper, chan, signalled>>

\* The runtime cleans the intent.
CleanIntent ==
    /\ At("settle") /\ store.writer = NoLaunch
    /\ store' = [store EXCEPT !.intent[L] = "cleaned"]
    /\ Goes("idle")
    /\ UNCHANGED <<World, signalled>>

-----------------------------------------------------------------------------
(* Observation and stop. *)

\* ManagedProcess::state, child_state: the retained handle reaps a leader that
\* exited; without a handle nothing is known.
ChildState(n) ==
    IF n \notin adapter.children THEN "Unknown"
    ELSE IF leader[n].state \in {"zombie", "gone"} THEN "Exited" ELSE "Alive"

Reap(n) ==
    leader' = [leader EXCEPT ![n].state =
                  IF n \in adapter.children /\ @ = "zombie" THEN "gone" ELSE @]

\* observe_identity: an empty cgroup is an exit only when the handle saw one.
ObserveIdentity(n) ==
    CASE Pids(n) = {} -> IF ChildState(n) = "Exited" THEN "Exited" ELSE "Ambiguous"
      [] "leader" \in Pids(n) -> "Running"
      [] OTHER -> "Ambiguous"

\* missing_containment_status and stop_missing_containment: the cgroup is gone,
\* and the handle or the number's creation token tells whether the process is.
ObserveMissing(n) ==
    IF ChildState(n) = "Exited" \/ (ChildState(n) = "Unknown" /\ Occupant(n) # "leader")
    THEN "Missing" ELSE "Ambiguous"

\* LinuxProcessAdapter::inspect.
ObservedChild(n) == IF Existing(n) THEN ObserveIdentity(n) ELSE ObserveMissing(n)

\* cleanup_if_empty.
CleanupIfEmpty(n) ==
    cgroup' = [cgroup EXCEPT ![n] =
                  IF Pids(n) = {} /\ ChildState(n) = "Exited" THEN "none" ELSE @]

Stops(n) == adapter' = [adapter EXCEPT !.pc = "graceful", !.n = n]

\* A pass over a component: it is stopped when it is seen running and must not
\* be, or has ended; what is ambiguous is quarantined and the handle retained.
InspectChild(n) ==
    /\ At("idle") /\ store.intent[n] = "active"
    /\ \/ ObservedChild(n) \in {"Running", "Exited", "Missing"} /\ Stops(n)
       \/ ObservedChild(n) = "Ambiguous" /\ UNCHANGED adapter
    /\ Reap(n)
    /\ UNCHANGED <<store, kid, helper, cgroup, chan, signalled>>

Exited == adapter' = [adapter EXCEPT !.pc = "settle", !.children = @ \ {L}]
StopFails == Goes("idle")

\* graceful_stop: the observation is made again.
GracefulStop ==
    /\ At("graceful")
    /\ \/ /\ ObservedChild(L) \in {"Exited", "Missing"}
          /\ Exited /\ CleanupIfEmpty(L)
       \/ /\ ObservedChild(L) = "Running"
          /\ Goes("term") /\ UNCHANGED cgroup
       \/ /\ ObservedChild(L) = "Ambiguous" /\ UNCHANGED cgroup
          /\ IF Existing(L) THEN StopFails ELSE Goes("force")
    /\ Reap(L)
    /\ UNCHANGED <<store, kid, helper, chan, signalled>>

\* send_graceful_term: the membership, the pidfd, the identity behind the
\* number, the membership again, and the signal, each a call of its own.
TermMember ==
    /\ At("term")
    /\ \/ "leader" \in Pids(L) /\ Goes("pidfd")
       \/ "leader" \notin Pids(L) /\ StopFails
    /\ UNCHANGED <<store, World, signalled>>

TermOpen ==
    /\ At("pidfd")
    /\ \/ /\ Occupant(L) # "none"
          /\ adapter' = [adapter EXCEPT !.pc = "identify", !.pidfd = Occupant(L)]
       \/ Occupant(L) = "none" /\ Goes("force")
    /\ UNCHANGED <<store, World, signalled>>

TermIdentify ==
    /\ At("identify")
    /\ \/ RunsTarget(L) /\ Goes("recheck")
       \/ Occupant(L) = "foreign" /\ StopFails
       \/ ~RunsTarget(L) /\ Occupant(L) # "foreign" /\ Goes("force")
    /\ UNCHANGED <<store, World, signalled>>

TermRecheck ==
    /\ At("recheck")
    /\ \/ "leader" \in Pids(L) /\ Goes("send")
       \/ "leader" \notin Pids(L) /\ StopFails
    /\ UNCHANGED <<store, World, signalled>>

\* Mutant: the signal is sent to the number.
TermSendToNumber ==
    /\ At("send")
    /\ signalled' = Occupant(L)
    /\ adapter' = [adapter EXCEPT !.pc = IF Occupant(L) = "none" THEN "force" ELSE "wait",
                                  !.pidfd = "none"]
    /\ UNCHANGED <<store, World>>

\* The pidfd names the process it was opened for; once that is gone the call
\* fails and the stop is forced.
TermSend ==
    /\ At("send")
    /\ signalled' = IF adapter.pidfd = "leader" /\ leader[L].state = "gone"
                    THEN "none" ELSE adapter.pidfd
    /\ adapter' = [adapter EXCEPT !.pc = IF signalled' = "none" THEN "force" ELSE "wait",
                                  !.pidfd = "none"]
    /\ UNCHANGED <<store, World>>

\* Mutant: the exit of the leader is enough.
WaitForExit(late) ==
    /\ \/ ChildState(L) = "Exited" /\ Exited /\ UNCHANGED cgroup
       \/ Goes(late) /\ UNCHANGED cgroup
    /\ Reap(L)
    /\ UNCHANGED <<store, kid, helper, chan, signalled>>

\* wait_for_empty: no member, and the retained handle saw the exit; or the
\* time is up.
WaitForEmpty(late) ==
    /\ \/ Pids(L) = {} /\ ChildState(L) = "Exited" /\ Exited /\ Remove(L)
       \/ Goes(late) /\ UNCHANGED cgroup
    /\ Reap(L)
    /\ UNCHANGED <<store, kid, helper, chan, signalled>>

GracefulWait == At("wait") /\ WaitForEmpty("force")
ForceWait    == At("fwait") /\ WaitForEmpty("idle")

\* force_stop: the cgroup is killed whatever is left in it.
ForceStop ==
    /\ At("force")
    /\ \/ /\ ObservedChild(L) \in {"Exited", "Missing"}
          /\ Exited /\ CleanupIfEmpty(L) /\ Reap(L) /\ UNCHANGED kid
       \/ /\ ~Existing(L) /\ ObservedChild(L) = "Ambiguous"
          /\ StopFails /\ UNCHANGED <<leader, kid, cgroup>>
       \/ /\ Existing(L) /\ ObservedChild(L) \in {"Running", "Ambiguous"}
          /\ KillAll(L) /\ Goes("fwait") /\ UNCHANGED cgroup
       \/ /\ Existing(L)
          /\ StopFails /\ UNCHANGED <<leader, kid, cgroup>>
    /\ UNCHANGED <<store, helper, chan, signalled>>

-----------------------------------------------------------------------------
(* The watchdog's end and its next start; the operator. *)

\* The watchdog dies: its handles and pipe ends are closed, its zombies reaped.
WatchdogDies ==
    /\ ~At("down") /\ store.generation < MaxGeneration
    /\ adapter' = Adapter("down")
    /\ chan' = [n \in Nonce |-> [chan[n] EXCEPT !.open = FALSE]]
    /\ leader' = [n \in Nonce |-> [leader[n] EXCEPT !.owned = FALSE,
                      !.state = IF @ = "zombie" THEN "gone" ELSE @]]
    /\ UNCHANGED <<store, kid, helper, cgroup, signalled>>

\* establish_new_generation, in the first pass of a new watchdog.
Restart ==
    /\ At("down") /\ store.writer = NoLaunch
    /\ store' = [store EXCEPT !.generation = @ + 1]
    /\ Goes("recover")
    /\ UNCHANGED <<World, signalled>>

\* reconcile_persisted_launch_intents: an active launch is reopened; of a
\* prepared one only the cgroup is known, and a missing cgroup proves nothing.
Recover ==
    /\ At("recover")
    /\ \/ /\ \A n \in Nonce : store.intent[n] = "prepared" => ~Existing(n)
          /\ Goes("idle")
       \/ \E n \in Nonce :
             /\ store.intent[n] = "prepared" /\ Existing(n)
             /\ adapter' = [adapter EXCEPT !.pc = "planned", !.n = n, !.uncertain = {n}]
    /\ UNCHANGED <<store, World, signalled>>

\* force_cleanup_planned_containment: the kill.
PlannedKill ==
    /\ At("planned")
    /\ \/ KillAll(L) /\ Goes("drain")
       \/ StopFails /\ UNCHANGED <<leader, kid>>
    /\ UNCHANGED <<store, helper, cgroup, chan, signalled>>

\* wait_for_empty_by_containment.
PlannedDrain ==
    /\ At("drain")
    /\ \/ /\ Pids(L) = {} /\ Remove(L)
          /\ adapter' = [adapter EXCEPT !.pc = "settle", !.uncertain = {}]
       \/ StopFails /\ UNCHANGED cgroup
    /\ UNCHANGED <<store, leader, kid, helper, chan, signalled>>

\* An operator's Start or Stop: a write of its own, which waits for the slot.
SetLaunchMode ==
    /\ store.writer = NoLaunch
    /\ \E m \in {"Running", "Stopped"} \ {store.mode} :
          store' = [store EXCEPT !.mode = m]
    /\ UNCHANGED <<World, adapter, signalled>>

-----------------------------------------------------------------------------
HelperStep(n) ==
    \/ HelperStarts(n) \/ HelperReadsRequest(n) \/ HelperReadsGo(n)
    \/ HelperAuthorizes(n) \/ HelperExecs(n)

LaunchStep ==
    \/ PrepareLaunch \/ Preflight \/ Create \/ Spawn \/ Assign \/ Verify \/ SendRequest \/ WaitForReady
    \/ SendGo \/ SendBootstrap \/ WaitForTarget \/ FinishLaunch \/ RecordActive
    \/ CleanupKill \/ TerminateChild \/ ReapChild \/ CleanupProof \/ CleanIntent

StopStep ==
    \/ \E n \in Nonce : InspectChild(n)
    \/ GracefulStop \/ TermMember \/ TermOpen \/ TermIdentify \/ TermRecheck \/ TermSend
    \/ GracefulWait \/ ForceStop \/ ForceWait

RecoveryStep == Restart \/ Recover \/ PlannedKill \/ PlannedDrain

LaunchNext ==
    \/ LaunchStep \/ StopStep \/ RecoveryStep \/ WatchdogDies \/ SetLaunchMode
    \/ \E n \in Nonce :
          HelperStep(n) \/ LeaderExits(n) \/ KidExits(n) \/ Fork(n) \/ Recycle(n)

\* A helper that may exec does, and a killed process exits: both are the
\* kernel's.  The watchdog's thread is scheduled, so a call it began goes on.
LaunchFairness ==
    /\ \A n \in Nonce :
          /\ WF_launchVars(HelperExecs(n))
          /\ WF_launchVars(leader[n].doomed /\ LeaderExits(n))
    /\ WF_launchVars(LaunchStep) /\ WF_launchVars(StopStep) /\ WF_launchVars(RecoveryStep)

LaunchSpec == LaunchInit /\ [][LaunchNext]_launchVars /\ LaunchFairness

-----------------------------------------------------------------------------
(* Properties. *)

\* A helper becomes its target only while the operator wants the deployment to
\* run, in the watchdog generation that spawned it, with its own intent still
\* prepared and inside its planned cgroup, although the helper read those rows
\* in an earlier step and a stop, a death and a restart are steps of others.
ExecIsAuthorized ==
    [][\A n \in Nonce :
          leader[n].state = "helper" /\ leader'[n].state = "target" =>
             /\ store.mode = "Running"
             /\ store.generation = leader[n].generation
             /\ store.intent[n] = "prepared"
             /\ Existing(n) /\ leader[n].in]_launchVars

\* Once an intent is settled - after a failed launch, a stop, or the cleanup by
\* a later watchdog - no target and no descendant of it runs, and the watchdog
\* that spawned the helper has reaped it.
SettledIsQuiet ==
    \A n \in Nonce : store.intent[n] = "cleaned" =>
        /\ leader[n].state # "target" /\ kid[n] = "none"
        /\ leader[n].owned => leader[n].state = "gone"

\* The TERM of a graceful stop never reaches a process that was given the
\* leader's number after the leader ended.
TermReachesOwner == signalled # "foreign"

\* A helper that holds the store's writer slot gives it back: by its exec, or
\* by its end.
SlotIsReleased == \A n \in Nonce : store.writer = n ~> store.writer # n

\* A component whose leader ended while a descendant runs on is quarantined
\* with its handle retained, so that a later pass can clean it up: unless the
\* watchdog dies, the descendant is eventually ended.
QuarantineIsCleanedUp ==
    \A n \in Nonce :
        (At("idle") /\ store.intent[n] = "active" /\ ~Live(n) /\ kid[n] = "alive")
           ~> (kid[n] # "alive" \/ At("down"))
================================================================================
