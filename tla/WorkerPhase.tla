----------------------------- MODULE WorkerPhase -----------------------------
(***************************************************************************)
(* The reconciliation pass of the supervisor (coordinator.rs), its worker  *)
(* phases (runtime_worker.rs) and the worker they talk to, over the store  *)
(* of HandoffStore.  Store transactions and exchanges are single steps;    *)
(* between any two of them the daemon may die, the worker may die, and     *)
(* another process may change the desired mode.                            *)
(*                                                                         *)
(* An exchange either succeeds, or is given up at its deadline.  A request *)
(* that was given up may still be read by the worker process it was sent   *)
(* to, at any later time, or never.  The worker is external: it is         *)
(* modelled from the answers runtime_worker.rs distinguishes, and it keeps *)
(* no record that would stop it from running the same dispatch twice.      *)
(***************************************************************************)
EXTENDS HandoffStore

CONSTANTS
    MaxDisturbances,  \* mode changes, quarantines and deaths in one behaviour
    StopMayFail       \* whether stopping the worker component may fail

ASSUME WorkerPhaseAssumption ==
    /\ Boots \subseteq Nat /\ 0 \notin Boots /\ 1 \in Boots
    /\ NoValue \notin Witness
    /\ MaxDisturbances \in Nat /\ StopMayFail \in BOOLEAN

VARIABLES
    sup,        \* the supervisor: where its pass is, and the pass's locals
    worker,     \* the worker process and its control ledger; boot 0 when down
    episodes,   \* what the worker durably knows of each handed-off attempt
    runs,       \* how often each attempt was started by a worker
    acked,      \* attempts whose terminal receipt the worker saw acknowledged
    late,       \* requests that were given up and may still be read
    lastBoot,   \* boot identities are fresh
    disturbed   \* how many disturbances there were

phaseVars == <<jobs, attempts, desiredMode, now, handoffs, control, sup, worker, episodes,
               runs, acked, late, lastBoot, disturbed>>

Attempts == Jobs \X Numbers
Down     == [boot |-> 0, mode |-> "Stopped", seq |-> 0]

Place == {"down", "boot", "idle", "probe", "control", "persist", "lookup", "complete",
          "ack", "settle", "gate", "claim", "mark", "dispatch", "admit",
          "components", "finish"}

Idle(me, child) ==
    [pc |-> "idle", me |-> me, child |-> child, phase |-> "pre", mode |-> "Stopped",
     preFailed |-> FALSE, skipPost |-> FALSE, boot |-> 0, w |-> NoValue,
     target |-> NoValue, receipt |-> NoValue]

\* An episode without an outcome; with one it is its terminal receipt.
Episode(status) == [status |-> status, result |-> NoValue]

PhaseInit ==
    /\ HandoffInit
    /\ sup = [Idle(1, FALSE) EXCEPT !.pc = "boot"]
    /\ worker = Down
    /\ episodes = [a \in Attempts |-> Episode("none")]
    /\ runs = [a \in Attempts |-> 0]
    /\ acked = {} /\ late = {}
    /\ lastBoot = 1
    /\ disturbed = 0

-----------------------------------------------------------------------------
(* The worker. *)

\* A control message is accepted when its sequence is newer, or repeats the
\* accepted one; a boot only reads what is addressed to it.
ControlAccepted(w) ==
    /\ w.wk = worker.boot
    /\ w.seq > worker.seq \/ (w.seq = worker.seq /\ w.mode = worker.mode)

ApplyControl(w) ==
    worker' = IF ControlAccepted(w)
              THEN [worker EXCEPT !.mode = w.mode, !.seq = w.seq] ELSE worker

\* A dispatch is admitted when it carries the accepted Running sequence.
DispatchAdmitted(w) ==
    w.wk = worker.boot /\ w.seq = worker.seq /\ worker.mode = "Running"

ApplyDispatch(a) ==
    /\ episodes' = [episodes EXCEPT ![a] = Episode("running")]
    /\ runs' = [runs EXCEPT ![a] = @ + 1]

\* A request that was given up is read after all.
HandleLate ==
    \E m \in late :
        /\ late' = late \ {m}
        /\ CASE m.cmd = "control"  -> ApplyControl(m.w) /\ UNCHANGED <<episodes, runs, acked>>
             [] m.cmd = "dispatch" -> /\ IF DispatchAdmitted(m.w)
                                         THEN ApplyDispatch(m.a)
                                         ELSE UNCHANGED <<episodes, runs>>
                                      /\ UNCHANGED <<worker, acked>>
             [] m.cmd = "ack"      -> /\ acked' = acked \cup {m.a}
                                      /\ UNCHANGED <<worker, episodes, runs>>
        /\ UNCHANGED <<jobs, attempts, desiredMode, now, handoffs, control, sup,
                       lastBoot, disturbed>>

\* An episode ends; the outcome is durable before it is reported.
FinishEpisode ==
    /\ worker.boot # 0
    /\ \E a \in Attempts, r \in Receipt :
          episodes[a].status = "running" /\ episodes' = [episodes EXCEPT ![a] = r]
    /\ UNCHANGED <<jobs, attempts, desiredMode, now, handoffs, control, sup, worker, runs,
                   acked, late, lastBoot, disturbed>>

\* The worker process is gone, and with it what it had not read.
WorkerGone == worker' = Down /\ late' = {}

WorkerDies ==
    /\ worker.boot # 0 /\ disturbed < MaxDisturbances
    /\ WorkerGone
    /\ disturbed' = disturbed + 1
    /\ UNCHANGED <<jobs, attempts, desiredMode, now, handoffs, control, sup, episodes, runs,
                   acked, lastBoot>>

-----------------------------------------------------------------------------
(* The pass. *)

Goto(s, pc) == sup' = [s EXCEPT !.pc = pc]

\* A phase is over: components follow the first, bookkeeping the second.
EndOf(s) ==
    [s EXCEPT !.pc = IF s.phase = "pre" THEN "components" ELSE "finish",
              !.boot = 0, !.w = NoValue, !.target = NoValue, !.receipt = NoValue]

\* defer_worker_error, an unavailable worker: no durable effect but an audit.
Deferred(s) == EndOf([s EXCEPT !.preFailed = s.preFailed \/ s.phase = "pre"])

\* Any other error leaves the pass and the process; the service manager
\* starts a new one.
Exit == sup' = [Idle(sup.me, FALSE) EXCEPT !.pc = "down"]

NoWorkerStep == UNCHANGED <<worker, episodes, runs, acked, late>>
NoStoreStep  == UNCHANGED <<jobs, attempts, desiredMode, now, handoffs, control>>
NoBoot       == UNCHANGED <<lastBoot, disturbed>>

\* A request is given up: the phase is deferred, the request is still around.
GiveUp(m) ==
    /\ sup' = Deferred(sup)
    /\ late' = IF worker.boot = sup.boot THEN late \cup {m} ELSE late
    /\ UNCHANGED <<worker, episodes, runs, acked>>
    /\ NoStoreStep /\ NoBoot

\* The first reconciliation of a new supervisor: interrupted jobs are
\* quarantined and a worker of an earlier supervisor is retired, if it can be.
FirstPass ==
    /\ sup.pc = "boot"
    /\ QuarantineInterruptedJobs
    /\ Goto(sup, "idle")
    /\ WorkerGone \/ (StopMayFail /\ UNCHANGED <<worker, late>>)
    /\ UNCHANGED <<handoffs, control, episodes, runs, acked>> /\ NoBoot

\* The desired mode is read once per pass.
BeginPass ==
    /\ sup.pc = "idle"
    /\ sup' = [Idle(sup.me, sup.child) EXCEPT !.pc = "probe", !.mode = desiredMode]
    /\ NoStoreStep /\ NoWorkerStep /\ NoBoot

\* worker_client and the first probe.
Probe ==
    /\ sup.pc = "probe"
    /\ \/ (~sup.child \/ worker.boot = 0) /\ sup' = EndOf(sup)
       \/ sup.child /\ worker.boot # 0
             /\ sup' = [sup EXCEPT !.pc = "control", !.boot = worker.boot]
       \/ sup.child /\ sup' = Deferred(sup)
    /\ NoStoreStep /\ NoWorkerStep /\ NoBoot

\* The peer of an exchange is not the process the supervisor started: fatal,
\* but it cannot veto a durable stop.
PeerMismatch ==
    /\ sup.pc \in {"probe", "control", "lookup", "ack"} /\ sup.child
    /\ disturbed < MaxDisturbances
    /\ IF sup.phase = "pre" /\ sup.mode = "Stopped"
       THEN sup' = [EndOf(sup) EXCEPT !.skipPost = TRUE] ELSE Exit
    /\ disturbed' = disturbed + 1
    /\ UNCHANGED lastBoot /\ NoStoreStep /\ NoWorkerStep

\* ensure_worker_control: the stored witness, if it is this pass's, or a new
\* one with the next sequence.
Stored == /\ control.row # NoValue
          /\ control.row.wd = sup.me /\ control.row.wk = sup.boot
          /\ control.row.mode = sup.mode

NextSeq == IF control.row = NoValue THEN 1 ELSE control.row.seq + 1

Fresh == [wd |-> sup.me, wk |-> sup.boot, mode |-> sup.mode, seq |-> NextSeq]

\* Mutant: a control message that was given up counts as acknowledged.
ControlAssumed ==
    /\ sup' = [sup EXCEPT !.pc = "persist", !.w = Fresh]
    /\ late' = IF worker.boot = sup.boot
               THEN late \cup {[cmd |-> "control", w |-> Fresh]} ELSE late
    /\ UNCHANGED <<worker, episodes, runs, acked>>
    /\ NoStoreStep /\ NoBoot

ControlGivenUp == GiveUp([cmd |-> "control", w |-> Fresh])

EnsureControl ==
    /\ sup.pc = "control"
    /\ \/ /\ Stored
          /\ sup' = [sup EXCEPT !.pc = "lookup", !.w = control.row]
          /\ NoStoreStep /\ NoWorkerStep /\ NoBoot
       \/ /\ ~Stored /\ NextSeq > MaxSeq
          /\ Exit /\ NoStoreStep /\ NoWorkerStep /\ NoBoot
       \/ /\ ~Stored /\ NextSeq <= MaxSeq /\ worker.boot = sup.boot
          /\ ApplyControl(Fresh)
          /\ sup' = IF ControlAccepted(Fresh)
                    THEN [sup EXCEPT !.pc = "persist", !.w = Fresh] ELSE Deferred(sup)
          /\ UNCHANGED <<episodes, runs, acked, late>> /\ NoStoreStep /\ NoBoot
       \/ /\ ~Stored /\ NextSeq <= MaxSeq
          /\ ControlGivenUp

PersistControl ==
    /\ sup.pc = "persist"
    /\ SetWorkerControl(sup.w)
    /\ Goto(sup, "lookup")
    /\ NoWorkerStep /\ NoBoot

\* Mutant: an episode the worker does not know is dispatched again.
RedispatchUnknown(a) ==
    IF episodes[a] \in Receipt
    THEN [sup EXCEPT !.pc = "complete", !.target = a, !.receipt = episodes[a]]
    ELSE IF episodes[a].status = "none" THEN [sup EXCEPT !.pc = "dispatch", !.target = a]
    ELSE EndOf(sup)

\* Mutant: the receipt is acknowledged before it is recorded.
AcknowledgeFirst(a) ==
    IF episodes[a] \in Receipt
    THEN [sup EXCEPT !.pc = "ack", !.target = a, !.receipt = episodes[a]]
    ELSE EndOf(sup)

\* Only a terminal answer moves the row; any other leaves it held.
LookupAnswer(a) ==
    IF episodes[a] \in Receipt
    THEN [sup EXCEPT !.pc = "complete", !.target = a, !.receipt = episodes[a]]
    ELSE EndOf(sup)

\* The lookup of the one retained handoff; an unreadable row is an error.
Lookup ==
    /\ sup.pc = "lookup"
    /\ \/ Pending = {} /\ Goto(sup, "gate")
       \/ \E a \in Pending :
             IF ~ValidHandoff(a[1], a[2]) THEN Exit
             ELSE \/ /\ worker.boot = sup.boot
                     /\ sup' = LookupAnswer(a)
                  \/ sup' = Deferred(sup)
    /\ NoStoreStep /\ NoWorkerStep /\ NoBoot

\* complete_worker_handoff_*: the first report, or a replay of the same one.
CanComplete(j, n, w) ==
    /\ ValidHandoff(j, n) /\ Authorised(j, n, w)
    /\ handoffs[j][n].state \in {"may_have_been_dispatched", "admitted"}

Replayed(j, n, r, w) ==
    /\ ValidHandoff(j, n) /\ Authorised(j, n, w)
    /\ handoffs[j][n].state \in {"completed", "failed"} /\ handoffs[j][n].receipt = r

Complete ==
    /\ sup.pc = "complete"
    /\ LET j == sup.target[1]  n == sup.target[2]  r == sup.receipt
       IN  IF CanComplete(j, n, sup.w)
           THEN CompleteHandoff(j, n, r, sup.w) /\ Goto(sup, "ack")
           ELSE /\ IF Replayed(j, n, r, sup.w) THEN Goto(sup, "ack") ELSE Exit
                /\ NoStoreStep
    /\ NoWorkerStep /\ NoBoot

Acknowledge ==
    /\ sup.pc = "ack"
    /\ \/ /\ worker.boot = sup.boot
          /\ acked' = acked \cup {sup.target}
          /\ Goto(sup, "settle")
          /\ UNCHANGED <<worker, episodes, runs, late>> /\ NoStoreStep /\ NoBoot
       \/ GiveUp([cmd |-> "ack", a |-> sup.target])

\* After a recovered row was acknowledged, and none is left, one claim may
\* follow in the same phase.
Settle ==
    /\ sup.pc = "settle"
    /\ AcknowledgeHandoff(sup.target[1], sup.target[2], sup.receipt, sup.w)
    /\ sup' = IF sup.w = NoValue \/ Pending' # {} THEN EndOf(sup)
              ELSE [sup EXCEPT !.pc = "gate"]
    /\ NoWorkerStep /\ NoBoot

\* The claim conditions and the second probe.  The gateway, the component
\* record and the worker's readiness may each hold the claim back.
Gate ==
    /\ sup.pc = "gate"
    /\ \/ /\ sup.phase = "post" /\ ~sup.preFailed /\ sup.mode = "Running"
          /\ control.row # NoValue /\ control.row.wk = sup.boot
          /\ worker.boot = sup.boot
          /\ Goto(sup, "claim")
       \/ sup' = EndOf(sup)
       \/ sup.phase = "post" /\ sup.mode = "Running" /\ sup' = Deferred(sup)
    /\ NoStoreStep /\ NoWorkerStep /\ NoBoot

Claimable(j) ==
    /\ Unresolved = {} /\ UnresolvedHandoffs = {}
    /\ j \in Oldest({k \in EpisodeJobs : Eligible(k)}) /\ jobs[j].created <= now

Claim ==
    /\ sup.pc = "claim"
    /\ IF ~ClaimAdmissible(control.row)
       THEN Exit /\ NoStoreStep
       ELSE \/ \E j \in Jobs :
                  /\ ClaimNextWorkerHandoff(j, control.row)
                  /\ sup' = [sup EXCEPT !.pc = "mark", !.target = <<j, jobs[j].count + 1>>]
            \/ /\ \A j \in EpisodeJobs : ~Claimable(j)
               /\ sup' = EndOf(sup) /\ NoStoreStep
    /\ NoWorkerStep /\ NoBoot

\* Mutant: the dispatch is sent before the mark is committed.
SendUnmarked == sup.pc = "mark" /\ Goto(sup, "dispatch") /\ NoStoreStep /\ NoWorkerStep /\ NoBoot

Mark ==
    /\ sup.pc = "mark"
    /\ LET j == sup.target[1]  n == sup.target[2]
       IN  \/ MarkDispatched(j, n) /\ Goto(sup, "dispatch")
           \/ /\ desiredMode # "Running" \/ control.row # handoffs[j][n].by
              /\ Exit /\ NoStoreStep
    /\ NoWorkerStep /\ NoBoot

\* The one dispatch: answered accepted, terminal or refused, or given up.
Dispatch ==
    /\ sup.pc = "dispatch"
    /\ LET a == sup.target
           by == handoffs[a[1]][a[2]].by
       IN  \/ /\ DispatchAdmitted(by)
              /\ \/ ApplyDispatch(a) /\ Goto(sup, "admit")
                 \/ \E r \in Receipt :
                       /\ episodes' = [episodes EXCEPT ![a] = r]
                       /\ runs' = [runs EXCEPT ![a] = @ + 1]
                       /\ sup' = [sup EXCEPT !.pc = "complete", !.receipt = r, !.w = NoValue]
              /\ UNCHANGED <<worker, acked, late>> /\ NoStoreStep /\ NoBoot
           \/ /\ worker.boot = sup.boot /\ sup' = EndOf(sup)
              /\ NoStoreStep /\ NoWorkerStep /\ NoBoot
           \/ GiveUp([cmd |-> "dispatch", a |-> a, w |-> by])

Admit ==
    /\ sup.pc = "admit"
    /\ MarkAdmitted(sup.target[1], sup.target[2])
    /\ sup' = EndOf(sup)
    /\ NoWorkerStep /\ NoBoot

\* reconcile_component for the worker's component: stop it, start it, or leave
\* it.  A start reads the durable mode again.
Components ==
    LET s == [sup EXCEPT !.pc = IF sup.skipPost THEN "finish" ELSE "probe", !.phase = "post"]
    IN  /\ sup.pc = "components"
        /\ \/ /\ sup.mode \in {"Stopped", "Draining"}
              /\ WorkerGone /\ sup' = [s EXCEPT !.child = FALSE]
              /\ UNCHANGED lastBoot
           \/ /\ sup.mode = "Running" /\ desiredMode = "Running"
              /\ worker.boot = 0 /\ lastBoot + 1 \in Boots
              /\ worker' = [Down EXCEPT !.boot = lastBoot + 1]
              /\ lastBoot' = lastBoot + 1
              /\ sup' = [s EXCEPT !.child = TRUE]
              /\ UNCHANGED late
           \/ /\ sup.mode \in {"Stopped", "Draining"} => StopMayFail
              /\ sup' = s /\ UNCHANGED <<worker, late, lastBoot>>
        /\ UNCHANGED <<episodes, runs, acked, disturbed>> /\ NoStoreStep

\* The end of the pass: a drain with nothing left settles to stopped.
Finish ==
    /\ sup.pc = "finish"
    /\ IF sup.mode = "Draining" /\ ~sup.child /\ Pending = {}
       THEN SetDesiredMode("Stopped") /\ UNCHANGED <<handoffs, control>>
       ELSE NoStoreStep
    /\ sup' = Idle(sup.me, sup.child)
    /\ NoWorkerStep /\ NoBoot

SupervisorStep ==
    \/ FirstPass \/ BeginPass \/ Probe \/ PeerMismatch \/ EnsureControl \/ PersistControl \/ Lookup
    \/ Complete \/ Acknowledge \/ Settle \/ Gate \/ Claim \/ Mark \/ Dispatch \/ Admit
    \/ Components \/ Finish

-----------------------------------------------------------------------------
(* Deaths, the operator, the composition. *)

Crash ==
    /\ sup.pc # "down" /\ disturbed < MaxDisturbances
    /\ Exit
    /\ disturbed' = disturbed + 1
    /\ UNCHANGED lastBoot /\ NoStoreStep /\ NoWorkerStep

\* A new supervisor has a fresh boot identity.
Restart ==
    /\ sup.pc = "down" /\ lastBoot + 1 \in Boots
    /\ sup' = [Idle(lastBoot + 1, FALSE) EXCEPT !.pc = "boot"]
    /\ lastBoot' = lastBoot + 1
    /\ UNCHANGED disturbed /\ NoStoreStep /\ NoWorkerStep

\* mode_command writes the desired mode from another process, at any moment.
ChangeMode ==
    /\ disturbed < MaxDisturbances
    /\ \E m \in DesiredMode \ {desiredMode} : SetDesiredMode(m)
    /\ disturbed' = disturbed + 1
    /\ UNCHANGED <<handoffs, control, sup, lastBoot>> /\ NoWorkerStep

\* Mutant: the command runs on the thread that received it.
QuarantineAnyTime ==
    /\ sup.pc # "down" /\ disturbed < MaxDisturbances
    /\ \E j \in Jobs, n \in Numbers : QuarantineAttempt(j, n)
    /\ disturbed' = disturbed + 1
    /\ UNCHANGED <<handoffs, control, sup, lastBoot>> /\ NoWorkerStep

\* Job commands of the operator run on the supervisor's thread between passes.
OperatorQuarantine ==
    /\ sup.pc = "idle" /\ disturbed < MaxDisturbances
    /\ \E j \in Jobs, n \in Numbers : QuarantineAttempt(j, n)
    /\ disturbed' = disturbed + 1
    /\ UNCHANGED <<handoffs, control, sup, lastBoot>> /\ NoWorkerStep

Submit ==
    /\ \E j \in Jobs : SubmitJob(j)
    /\ UNCHANGED <<handoffs, control, sup>> /\ NoWorkerStep /\ NoBoot

PhaseNext ==
    \/ SupervisorStep \/ HandleLate \/ FinishEpisode \/ WorkerDies
    \/ Crash \/ Restart \/ ChangeMode \/ OperatorQuarantine \/ Submit

PhaseSpec == PhaseInit /\ [][PhaseNext]_phaseVars

-----------------------------------------------------------------------------
(* Fairness: the daemon's loop keeps running and the service manager starts *)
(* it again; an exchange that is tried again and again is answered at last, *)
(* and a component that may be started is started at last.                  *)

Answered == {"control", "persist", "complete", "settle"}

PhaseFairness ==
    /\ WF_phaseVars(SupervisorStep)
    /\ WF_phaseVars(Restart)
    /\ \A p \in Answered : SF_phaseVars(SupervisorStep /\ sup'.pc = p)
    /\ SF_phaseVars(Components /\ worker.boot = 0 /\ worker'.boot # 0)

LivePhaseSpec == PhaseSpec /\ PhaseFairness

-----------------------------------------------------------------------------
(* Properties. *)

State(a) == handoffs[a[1]][a[2]].state

\* However the daemon and the worker die, whatever answers are lost and
\* whatever is read late, an attempt is started at most once, even by a worker
\* that would run a dispatch every time it reads one: the mark committed
\* before the send authorises one send.
StartedOnce == \A a \in Attempts : runs[a] <= 1

\* While an episode runs, the store holds its reservation and knows that it
\* may have been dispatched, so no other job can be claimed.
RunningIsReserved ==
    \A a \in Attempts : episodes[a].status = "running" =>
        /\ a \in Unresolved
        /\ State(a) \in {"may_have_been_dispatched", "admitted"}

\* The outcome in the store is the worker's, and the worker forgets a receipt
\* only after the store has it.
OutcomeIsTheWorkers ==
    \A a \in Attempts :
        /\ handoffs[a[1]][a[2]].receipt # NoValue =>
              handoffs[a[1]][a[2]].receipt = episodes[a]
        /\ a \in acked => State(a) \in {"completed", "failed", "acknowledged"}

\* What the pass read from the store before an exchange is still true when it
\* commits after it: recording an outcome or an acknowledgment never conflicts.
FinishNeverConflicts ==
    /\ sup.pc = "complete" =>
          \/ CanComplete(sup.target[1], sup.target[2], sup.w)
          \/ Replayed(sup.target[1], sup.target[2], sup.receipt, sup.w)
    /\ sup.pc = "settle" => Replayed(sup.target[1], sup.target[2], sup.receipt, sup.w)
    /\ sup.pc = "admit" => ValidHandoff(sup.target[1], sup.target[2])
                           /\ SameIncarnation(sup.target[1], sup.target[2])

\* An episode starts only while the store's acknowledged control says Running
\* for that worker boot and that sequence: once a pause or a stop has been
\* acknowledged, no dispatch still on its way can start work.
NoStartAfterPause ==
    [][runs' # runs => /\ control.row # NoValue /\ control.row.mode = "Running"
                       /\ control.row.wk = worker.boot
                       /\ control.row.seq = worker.seq]_phaseVars

\* An outcome the worker reached is recorded and acknowledged at last, if the
\* mode is left at Running and the retained rows stay readable.
OutcomesArrive ==
    (<>[](desiredMode = "Running") /\ [](\A a \in Pending : ValidHandoff(a[1], a[2])))
        => \A a \in Attempts : (episodes[a] \in Receipt) ~> (State(a) = "acknowledged")
=============================================================================
