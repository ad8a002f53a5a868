-------------------------- MODULE ComponentLifecycle --------------------------
(***************************************************************************)
(* One supervised component: its launch intents, its durable record and    *)
(* identity, the processes its launches created, and the supervisor that   *)
(* recovers, inspects, starts and stops it (runtime/recovery.rs,           *)
(* runtime/health.rs, runtime/lifecycle.rs).                               *)
(*                                                                         *)
(* Every store transaction and every call of the platform is a step.  The  *)
(* daemon may die between any two of them; a transaction whose error only  *)
(* leaves the pass is the same as a death before it, because any error of  *)
(* a pass ends the process.  Failures the code handles otherwise are       *)
(* alternatives of the step.  Launch numbers stand for launch nonces: one  *)
(* whose intent is cleaned, whose process is gone and which nothing refers *)
(* to may be used again.                                                   *)
(***************************************************************************)
EXTENDS FiniteSets, Naturals

CONSTANTS
    Launches,    \* launch nonces
    None,        \* no launch
    HasCatalog   \* whether a release catalog guards starts

ASSUME LifecycleAssumption ==
    None \notin Launches /\ HasCatalog \in BOOLEAN

VARIABLES
    intents,      \* launch_intents, by launch
    procs,        \* the processes of the launches
    record,       \* the components row, with the identity of the process; the component
                  \* it names is adoptable unless it is the worker or gateway health
    desiredMode,
    sup           \* the supervisor

lifecycleVars == <<intents, procs, record, desiredMode, sup>>

DesiredMode == {"Running", "Paused", "Draining", "Stopped"}
LaunchIntentState == {"prepared", "proof_recorded", "active", "cleaned"}
ComponentState == {"Stopped", "Starting", "Running", "Suspect", "Backoff", "Paused",
                   "Blocked", "Quarantined"}
Ref == Launches \cup {None}

Place == {"down", "recover", "adopt", "adopt_identity", "identities", "mode", "inspect",
          "decide", "prepare", "admit", "starting", "launch", "proof", "running",
          "identify", "activate", "insert", "abort", "stop", "clean", "clear", "record", "end"}

\* Why a launch is being settled: it decides what a failure does, and what follows.
Why == {"none", "stop", "exited", "failed", "abort", "prepared", "recovered", "stale"}

Down == [pc |-> "down", mode |-> "Stopped", handle |-> None, n |-> None, why |-> "none",
         initialized |-> FALSE]

Unsettled == {n \in Launches : intents[n] # "cleaned"}
Alive     == {n \in Launches : procs[n] = "alive"}

LifecycleInit ==
    /\ intents = [n \in Launches |-> "cleaned"]
    /\ procs = [n \in Launches |-> "gone"]
    /\ record \in [state : {"Stopped"}, nonce : {None}, pid : {None}, identity : {None},
                  adoptable : BOOLEAN]
    /\ desiredMode \in DesiredMode
    /\ sup = Down

-----------------------------------------------------------------------------
(* Steps of every kind. *)

Goto(pc) == sup' = [sup EXCEPT !.pc = pc]
Die      == sup' = Down

\* The component is done for this pass, or for the recovery.
Done(s) == [s EXCEPT !.pc = IF s.initialized THEN "end" ELSE "identities",
                     !.n = None, !.why = "none"]

\* upsert_component: a row without a launch nonce loses its identity.
Put(state, nonce, pid) ==
    record' = [state |-> state, nonce |-> nonce, pid |-> pid,
               identity |-> IF nonce = None THEN None ELSE record.identity,
               adoptable |-> record.adoptable]

Gone(n)  == procs' = [procs EXCEPT ![n] = "gone"]
Settle(s, why, n) == sup' = [s EXCEPT !.pc = "clean", !.why = why, !.n = n]

\* persist_component_identity.
Identify(n) == record' = [record EXCEPT !.identity = n, !.nonce = n, !.pid = n]

\* retain_quarantined_child: the exact handle is kept.
Retain(n) == Put("Quarantined", n, n) /\ sup' = Done([sup EXCEPT !.handle = n])

NoStore == UNCHANGED <<intents, record>>

Open ==
    /\ sup.pc = "down"
    /\ Goto("recover")
    /\ NoStore /\ UNCHANGED <<procs, desiredMode>>

\* The daemon dies, or a pass fails with an error that nothing handles.
Crash ==
    /\ sup.pc # "down" /\ Die
    /\ NoStore /\ UNCHANGED <<procs, desiredMode>>

ProcessExits ==
    /\ \E n \in Alive : Gone(n)
    /\ NoStore /\ UNCHANGED <<desiredMode, sup>>

SetMode ==
    /\ \E m \in DesiredMode \ {desiredMode} : desiredMode' = m
    /\ NoStore /\ UNCHANGED <<procs, sup>>

-----------------------------------------------------------------------------
(* The first pass of a supervisor. *)

\* A prepared intent has no proof: only its planned containment can be cleaned.
RecoverPrepared(n) ==
    /\ intents[n] = "prepared"
    /\ \/ Gone(n) /\ Settle(sup, "prepared", n) /\ UNCHANGED record
       \/ /\ Put("Quarantined", n, None)
          /\ sup' = Done(sup) /\ UNCHANGED procs

\* The proof does not reconstruct a handle.
RecoverFails(n) ==
    /\ intents[n] # "prepared"
    /\ \E pid \in {None, record.pid} : Put("Quarantined", n, pid)
    /\ sup' = Done(sup) /\ UNCHANGED procs

\* A worker or gateway of an earlier supervisor is cleaned up, never adopted.
Retire(n) ==
    /\ ~record.adoptable /\ intents[n] # "prepared"
    /\ Put("Quarantined", n, n)
    /\ sup' = [sup EXCEPT !.handle = n, !.pc = "stop"]
    /\ UNCHANGED procs

Reopen(n) ==
    /\ record.adoptable /\ intents[n] # "prepared"
    /\ \/ Retain(n) /\ UNCHANGED procs
       \/ /\ n \in Alive /\ desiredMode = "Running"
          /\ sup' = [sup EXCEPT !.pc = "adopt", !.n = n]
          /\ UNCHANGED <<record, procs>>
       \/ /\ n \notin Alive \/ desiredMode # "Running"
          /\ \/ Gone(n) /\ Settle(sup, "recovered", n)
             \/ sup' = Done([sup EXCEPT !.handle = n]) /\ UNCHANGED procs
          /\ UNCHANGED record

\* reconcile_persisted_launch_intents.
RecoverIntents ==
    /\ sup.pc = "recover"
    /\ \/ Unsettled = {} /\ sup' = Done(sup) /\ UNCHANGED <<procs, record>>
       \/ \E n \in Unsettled : RecoverPrepared(n) \/ RecoverFails(n) \/ Retire(n) \/ Reopen(n)
    /\ UNCHANGED <<intents, desiredMode>>

Adopt ==
    /\ sup.pc = "adopt"
    /\ \/ /\ intents[sup.n] = "proof_recorded" => desiredMode = "Running"
          /\ intents' = [intents EXCEPT ![sup.n] = "active"]
          /\ Goto("adopt_identity") /\ UNCHANGED record
       \/ /\ intents[sup.n] = "proof_recorded" /\ Retain(sup.n)
          /\ UNCHANGED intents
    /\ UNCHANGED <<procs, desiredMode>>

AdoptIdentity ==
    /\ sup.pc = "adopt_identity"
    /\ \/ Identify(sup.n) /\ sup' = Done([sup EXCEPT !.handle = sup.n])
       \/ Retain(sup.n)
    /\ UNCHANGED <<intents, procs, desiredMode>>

\* reconcile_persisted_identities: an identity is cleared only when its
\* process is known to be gone.
ReconcileIdentities ==
    /\ sup.pc = "identities"
    /\ IF sup.handle # None \/ Unsettled # {} \/ (record.identity = None /\ record.pid = None)
       THEN Goto("mode") /\ UNCHANGED record
       ELSE \/ record.identity \in Launches \ Alive
               /\ sup' = [sup EXCEPT !.pc = "clear", !.why = "stale"] /\ UNCHANGED record
            \/ /\ IF record.identity = None THEN Put("Quarantined", record.nonce, record.pid)
                  ELSE Put("Quarantined", record.identity, record.identity)
               /\ Goto("mode")
    /\ UNCHANGED <<intents, procs, desiredMode>>

-----------------------------------------------------------------------------
(* Settling a launch whose process is gone. *)

\* clean_launch_intent and what its callers do when it fails.
Clean ==
    /\ sup.pc = "clean"
    /\ \/ /\ intents' = [intents EXCEPT ![sup.n] = "cleaned"]
          /\ sup' = IF sup.why = "stop" THEN [sup EXCEPT !.pc = "record", !.handle = None]
                    ELSE [sup EXCEPT !.pc = "clear"]
          /\ UNCHANGED record
       \/ /\ sup.why \in {"stop", "exited", "recovered"}
          /\ Put("Quarantined", sup.n, sup.n)
          /\ sup' = Done(IF sup.why = "recovered" THEN [sup EXCEPT !.handle = sup.n] ELSE sup)
          /\ UNCHANGED intents
       \/ /\ sup.why = "failed" /\ Put("Quarantined", sup.n, None)
          /\ sup' = Done(sup) /\ UNCHANGED intents
       \/ /\ sup.why = "abort" /\ Put("Quarantined", sup.n, sup.n)
          /\ Die /\ UNCHANGED intents
    /\ UNCHANGED <<procs, desiredMode>>

\* clear_component_identity.
Clear ==
    /\ sup.pc = "clear"
    /\ \/ /\ record' = [record EXCEPT !.identity = None, !.nonce = None, !.pid = None]
          /\ sup' = IF sup.why = "stop" THEN Done(sup) ELSE [sup EXCEPT !.pc = "record"]
       \/ sup.why = "recovered" /\ Retain(sup.n)
       \/ sup.why = "abort" /\ Put("Quarantined", sup.n, sup.n) /\ Die
    /\ UNCHANGED <<intents, procs, desiredMode>>

\* The stopped row.
Record ==
    /\ sup.pc = "record"
    /\ \/ /\ Put("Stopped", None, None)
          /\ sup' = CASE sup.why = "stop"   -> [sup EXCEPT !.pc = "clear"]
                      [] sup.why = "exited" -> [sup EXCEPT !.pc = "decide", !.n = None]
                      [] sup.why = "abort"  -> Down
                      [] sup.why = "stale"  -> [sup EXCEPT !.pc = "mode", !.why = "none"]
                      [] OTHER              -> Done(sup)
       \/ sup.why = "recovered" /\ Retain(sup.n)
    /\ UNCHANGED <<intents, procs, desiredMode>>

-----------------------------------------------------------------------------
(* A pass. *)

ReadMode ==
    /\ sup.pc = "mode"
    /\ sup' = [sup EXCEPT !.pc = "inspect", !.mode = desiredMode, !.initialized = TRUE]
    /\ NoStore /\ UNCHANGED <<procs, desiredMode>>

\* Mutant: the handle of a process that exited is dropped and nothing else.
InspectDropsHandle ==
    /\ sup.pc = "inspect"
    /\ sup' = [sup EXCEPT !.pc = "decide", !.handle = IF @ \in Alive THEN @ ELSE None]
    /\ UNCHANGED <<record, procs, intents, desiredMode>>

\* reconcile_component, first half: what the handle says.
Inspect ==
    /\ sup.pc = "inspect"
    /\ \/ /\ sup.handle = None \/ sup.handle \in Alive
          /\ Goto("decide") /\ UNCHANGED <<record, procs>>
       \/ /\ sup.handle # None
          /\ Put("Quarantined", sup.handle, sup.handle)
          /\ sup' = Done(sup) /\ UNCHANGED procs
       \/ /\ sup.handle # None /\ sup.handle \notin Alive
          /\ Settle([sup EXCEPT !.handle = None], "exited", sup.handle)
          /\ UNCHANGED <<record, procs>>
    /\ UNCHANGED <<intents, desiredMode>>

\* restart_decision, without the clock: RestartBudget has it.
RestartDecision == {"Quarantine", "Wait", "Start"}

\* SupervisorPolicy::decide.
Decide(mode, obs) ==
    CASE mode \in {"Stopped", "Draining"} -> {IF obs = "Stopped" THEN "Noop" ELSE "Stop"}
      [] mode = "Paused" -> {IF obs = "Stopped" THEN "Noop" ELSE "Wait"}
      [] mode = "Running" /\ obs = "Running" -> {"Noop", "MarkSuspect"}
      [] mode = "Running" /\ obs = "Starting" -> {"Wait"} \cup RestartDecision
      [] mode = "Running" /\ obs \in {"Stopped", "Suspect", "Backoff"} -> RestartDecision
      [] mode = "Running" /\ obs = "Paused" -> {"Wait"}
      [] OTHER -> {"Quarantine"}

\* What the policy is told: the handle first, then the row; a blocked row is
\* taken for a stopped one when the gate is open.
Observation ==
    IF sup.handle # None THEN "Running"
    ELSE IF sup.mode = "Running" /\ record.state = "Blocked" THEN "Stopped"
    ELSE record.state

\* The row after a decision that does nothing to the process.
Observed(action) ==
    IF sup.handle # None
    THEN Put(IF record.state = "Quarantined" THEN "Quarantined"
             ELSE IF sup.mode \in {"Paused", "Stopped"} THEN sup.mode
             ELSE IF action = "MarkSuspect" THEN "Suspect" ELSE "Running",
             sup.handle, sup.handle)
    ELSE IF sup.mode = "Stopped" THEN Put("Stopped", None, None)
    ELSE UNCHANGED record

\* reconcile_component, second half.  The release gate comes before the policy.
Act ==
    /\ sup.pc = "decide"
    /\ \/ /\ HasCatalog /\ sup.mode = "Running" /\ sup.handle = None
          /\ record' = [record EXCEPT !.state = "Blocked"]
          /\ sup' = Done(sup)
       \/ \E action \in Decide(sup.mode, Observation) :
             CASE action = "Stop" -> Goto("stop") /\ UNCHANGED record
               [] action = "Start" ->
                     /\ IF desiredMode = "Running" THEN Goto("prepare") ELSE sup' = Done(sup)
                     /\ UNCHANGED record
               [] action = "Quarantine" ->
                     /\ record' = [record EXCEPT !.state = "Quarantined"]
                     /\ sup' = Done(sup)
               [] OTHER -> Observed(action) /\ sup' = Done(sup)
    /\ UNCHANGED <<intents, procs, desiredMode>>

\* Mutant: a component that is quarantined already is not stopped again.
StopOnce ==
    /\ sup.pc = "stop"
    /\ \/ /\ sup.handle = None \/ record.state = "Quarantined"
          /\ sup' = Done(sup) /\ UNCHANGED <<record, procs>>
       \/ /\ sup.handle # None /\ record.state # "Quarantined"
          /\ Gone(sup.handle) /\ Settle(sup, "stop", sup.handle)
          /\ UNCHANGED record
    /\ UNCHANGED <<intents, desiredMode>>

\* stop_component.
Stop ==
    /\ sup.pc = "stop"
    /\ \/ /\ sup.handle = None
          /\ IF record.pid # None \/ record.identity # None
             THEN record' = [record EXCEPT !.state = "Quarantined"]
             ELSE Put("Stopped", None, None)
          /\ sup' = Done(sup) /\ UNCHANGED procs
       \/ /\ sup.handle # None
          /\ Gone(sup.handle) /\ Settle(sup, "stop", sup.handle)
          /\ UNCHANGED record
       \/ /\ sup.handle # None
          /\ Put("Quarantined", sup.handle, sup.handle)
          /\ sup' = Done(sup) /\ UNCHANGED procs
    /\ UNCHANGED <<intents, desiredMode>>

\* The end of a pass: a drain settles to stopped when nothing is left to
\* drain, which the other components and the worker's handoffs decide too.
EndPass ==
    /\ sup.pc = "end"
    /\ \/ UNCHANGED desiredMode
       \/ sup.mode = "Draining" /\ sup.handle = None /\ desiredMode' = "Stopped"
    /\ Goto("mode")
    /\ NoStore /\ UNCHANGED procs

-----------------------------------------------------------------------------
(* start_component. *)

\* Launches whose nonces are written somewhere: a fresh nonce is none of them.
Named == {record.nonce, record.pid, record.identity, sup.handle}

\* Mutant: a new intent is prepared although an earlier one is unsettled.
PrepareAnyway ==
    /\ sup.pc = "prepare"
    /\ \/ /\ desiredMode = "Running"
          /\ \E n \in Launches \ (Unsettled \cup Alive \cup Named) :
                /\ intents' = [intents EXCEPT ![n] = "prepared"]
                /\ sup' = [sup EXCEPT !.pc = "admit", !.n = n]
       \/ desiredMode # "Running" /\ (Die \/ sup' = Done(sup)) /\ UNCHANGED intents
    /\ UNCHANGED <<record, procs, desiredMode>>

\* The mode is read once more; prepare_launch_intent reads it again in its
\* transaction, where a conflict is an error of the pass.
Prepare ==
    /\ sup.pc = "prepare"
    /\ \/ /\ desiredMode = "Running" /\ Unsettled = {}
          /\ \E n \in Launches \ (Alive \cup Named) :
                /\ intents' = [intents EXCEPT ![n] = "prepared"]
                /\ sup' = [sup EXCEPT !.pc = "admit", !.n = n]
       \/ (desiredMode # "Running" \/ Unsettled # {}) /\ Die /\ UNCHANGED intents
       \/ desiredMode # "Running" /\ sup' = Done(sup) /\ UNCHANGED intents
    /\ UNCHANGED <<record, procs, desiredMode>>

\* The bindings and the last look at the mode.  A binding that fails, or a
\* mode that changed, takes the intent back; a binding whose intent cannot be
\* taken back is quarantined.
Admit ==
    /\ sup.pc = "admit"
    /\ \/ desiredMode = "Running" /\ Goto("starting") /\ UNCHANGED <<intents, record>>
       \/ /\ intents' = [intents EXCEPT ![sup.n] = "cleaned"]
          /\ Die \/ (desiredMode # "Running" /\ sup' = Done(sup))
          /\ UNCHANGED record
       \/ Put("Quarantined", sup.n, None) /\ Die /\ UNCHANGED intents
    /\ UNCHANGED <<procs, desiredMode>>

MarkStarting ==
    /\ sup.pc = "starting"
    /\ Put("Starting", None, None) /\ Goto("launch")
    /\ UNCHANGED <<intents, procs, desiredMode>>

\* The launch succeeds, fails without a process, or may have left one.
Launch ==
    /\ sup.pc = "launch"
    /\ \/ /\ procs' = [procs EXCEPT ![sup.n] = "alive"]
          /\ Goto("proof") /\ UNCHANGED record
       \/ Settle(sup, "failed", sup.n) /\ UNCHANGED <<procs, record>>
       \/ /\ \E p \in {"alive", "gone"} : procs' = [procs EXCEPT ![sup.n] = p]
          /\ Put("Quarantined", sup.n, None) /\ sup' = Done(sup)
    /\ UNCHANGED <<intents, desiredMode>>

RecordProof ==
    /\ sup.pc = "proof"
    /\ \/ /\ intents' = [intents EXCEPT ![sup.n] = "proof_recorded"]
          /\ Goto("running")
       \/ Goto("abort") /\ UNCHANGED intents
    /\ UNCHANGED <<record, procs, desiredMode>>

MarkRunning ==
    /\ sup.pc = "running"
    /\ \/ Put("Running", sup.n, sup.n) /\ Goto("identify")
       \/ Goto("abort") /\ UNCHANGED record
    /\ UNCHANGED <<intents, procs, desiredMode>>

PersistIdentity ==
    /\ sup.pc = "identify"
    /\ \/ Identify(sup.n) /\ Goto("activate")
       \/ Goto("abort") /\ UNCHANGED record
    /\ UNCHANGED <<intents, procs, desiredMode>>

\* activate_launch_intent reads the mode in its transaction.
Activate ==
    /\ sup.pc = "activate"
    /\ \/ /\ desiredMode = "Running"
          /\ intents' = [intents EXCEPT ![sup.n] = "active"]
          /\ Goto("insert")
       \/ Goto("abort") /\ UNCHANGED intents
    /\ UNCHANGED <<record, procs, desiredMode>>

Insert ==
    /\ sup.pc = "insert"
    /\ sup' = Done([sup EXCEPT !.handle = sup.n]) \/ Goto("abort")
    /\ NoStore /\ UNCHANGED <<procs, desiredMode>>

\* abort_launched_child always fails the pass.
Abort ==
    /\ sup.pc = "abort"
    /\ \/ Gone(sup.n) /\ Settle(sup, "abort", sup.n) /\ UNCHANGED record
       \/ Put("Quarantined", sup.n, sup.n) /\ Die /\ UNCHANGED procs
    /\ UNCHANGED <<intents, desiredMode>>

-----------------------------------------------------------------------------
(* The composition. *)

StartStep ==
    Prepare \/ Admit \/ MarkStarting \/ Launch \/ RecordProof \/ MarkRunning
      \/ PersistIdentity \/ Activate \/ Insert \/ Abort

SupervisorStep ==
    \/ Open \/ RecoverIntents \/ Adopt \/ AdoptIdentity \/ ReconcileIdentities
    \/ Clean \/ Clear \/ Record
    \/ ReadMode \/ Inspect \/ Act \/ Stop \/ EndPass
    \/ StartStep

LifecycleNext == SupervisorStep \/ Crash \/ ProcessExits \/ SetMode

LifecycleSpec == LifecycleInit /\ [][LifecycleNext]_lifecycleVars

\* The loop runs on, the service manager opens the daemon again, and a call
\* of the platform or of the store that is made in every pass succeeds at last.
LifecycleFairness ==
    /\ WF_lifecycleVars(SupervisorStep)
    /\ SF_lifecycleVars(Inspect /\ sup'.pc # "end")
    /\ SF_lifecycleVars(Stop /\ sup'.pc = "clean")
    /\ SF_lifecycleVars(Clean /\ intents' # intents)

-----------------------------------------------------------------------------
(* Properties. *)

\* The variables keep their types.
LifecycleTypeOK ==
    /\ intents \in [Launches -> LaunchIntentState]
    /\ procs \in [Launches -> {"alive", "gone"}]
    /\ record \in [state : ComponentState, nonce : Ref, pid : Ref, identity : Ref,
                   adoptable : BOOLEAN]
    /\ desiredMode \in DesiredMode
    /\ sup \in [pc : Place, mode : DesiredMode, handle : Ref, n : Ref, why : Why,
                initialized : BOOLEAN]

\* Whatever dies or fails and whenever the operator changes the mode, two
\* processes of one component never live at the same time.
OneProcess == \A m, n \in Alive : m = n

\* A process that lives has an unsettled intent, so that a new supervisor
\* finds it and a new launch is refused: no live process is ever forgotten.
LiveIsTracked == Alive \subseteq Unsettled

\* At the end of a pass a row that says Running, Suspect or Paused and names a
\* process names the one whose handle is held.  Without the handle nothing in
\* a later pass would stop, restart or quarantine what the row names.
RowIsBacked ==
    sup.pc = "end" /\ record.state \in {"Running", "Suspect", "Paused"} /\ record.pid # None
        => sup.handle = record.pid

\* Once the operator's stop stays, and the daemon stays up, every process the
\* supervisor holds is stopped, settled and let go of.
StopCompletes ==
    (<>[](desiredMode = "Stopped") /\ <>[][~Crash]_lifecycleVars)
        => <>[](sup.handle = None)

\* "Missing or unauthenticated telemetry still quarantines rather than granting
\* restart authority": a component without a process does not go on as Running
\* after a pass.  A daemon that dies between clear_component_identity and the
\* stopped row leaves a Running row that names nothing; no recovery looks at
\* it, and the policy's MarkSuspect writes nothing without a handle.
RunningHasProcess ==
    sup.pc = "end" /\ sup.mode = "Running" /\ record.state = "Running" => sup.handle # None
==============================================================================
