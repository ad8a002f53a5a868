---------------------------- MODULE WindowsService ----------------------------
(***************************************************************************)
(* The watchdog as a Windows service: the service process and its control  *)
(* handler (native_service.rs, windows_service.rs, service.rs), the health *)
(* checker, and the removal of the service, which stops it, proves that    *)
(* its store is durably stopped, and deletes it.                           *)
(*                                                                         *)
(* The service control manager (SCM) is external.  Each query, control or  *)
(* status call is one step; the service's main thread, the handler, the    *)
(* checker, the remover and another installer take their steps in any      *)
(* order.  Services of one name are told apart by an identity, which a     *)
(* handle keeps.                                                           *)
(***************************************************************************)
EXTENDS Naturals

CONSTANTS
    MaxServices,   \* bound on the services of the name, one after another
    MaxStarts      \* bound on the starts of the service process

ASSUME ServiceAssumption == MaxServices \in Nat \ {0} /\ MaxStarts \in Nat \ {0}

VARIABLES
    scm,       \* the service of the fixed name
    service,   \* the service process
    handler,   \* its control handler: what is left of a Stop control
    owner,     \* the store: its mode, who holds its singleton lock; whether
               \* an admin endpoint is configured
    remover,   \* service uninstall
    checker    \* ScmHealthChecker

serviceVars == <<scm, service, handler, owner, remover, checker>>

NoService == 0
Off == [pc |-> "off", stop |-> FALSE, committed |-> FALSE, children |-> "none"]

\* The command line of the installed service: this deployment's, or another's.
Commands == {"bound", "other"}

ServiceInit ==
    /\ scm \in [id : {1}, command : {"bound"}, status : {"Stopped"}, failed : {FALSE},
                last : {1}, starts : {0}]
    /\ service = Off
    /\ handler = "idle"
    /\ owner \in [mode : {"Running"}, lock : {"free"}, admin : BOOLEAN]
    /\ remover = [pc |-> "idle", handle |-> NoService]
    /\ checker = "idle"

Publish(status, failed) == [scm EXCEPT !.status = status, !.failed = failed]
Main(pc) == service' = [service EXCEPT !.pc = pc]

-----------------------------------------------------------------------------
(* The service control manager and installers. *)

StartService(s) ==
    /\ s.id # NoService /\ s.status = "Stopped" /\ s.starts < MaxStarts
    /\ service.pc = "off"
    /\ service' = [Off EXCEPT !.pc = "register"]
    /\ scm' = [s EXCEPT !.status = "StartPending", !.failed = FALSE, !.starts = @ + 1]

\* The SCM starts the service: at boot, on request, or as a failure action.
ScmStarts ==
    /\ StartService(scm)
    /\ UNCHANGED <<handler, owner, remover, checker>>

\* A Stop, Shutdown or Preshutdown control reaches the handler.
StopControl ==
    /\ scm.status \in {"StartPending", "Running"} /\ service.pc # "register"
    /\ handler = "idle"
    /\ handler' = "flag"

ScmStops ==
    /\ service.pc # "off" /\ StopControl
    /\ UNCHANGED <<scm, service, owner, remover, checker>>

\* The process dies: its lock and its jobs go with it.
ServiceDies ==
    /\ service.pc # "off"
    /\ service' = Off /\ handler' = "idle"
    /\ scm' = Publish("Stopped", TRUE)
    /\ owner' = [owner EXCEPT !.lock = IF @ = "service" THEN "free" ELSE @]
    /\ UNCHANGED <<remover, checker>>

\* install_as_with_config, for this deployment or for another: an existing
\* service is configured again, a service that is missing is created; a
\* service created here is deleted again when it cannot be configured.
Install ==
    \/ /\ scm.id # NoService
       /\ \E c \in Commands \ {scm.command} : scm' = [scm EXCEPT !.command = c]
       /\ UNCHANGED <<service, handler, owner, remover, checker>>
    \/ /\ scm.id = NoService /\ scm.last < MaxServices /\ service.pc = "off"
       /\ \E c \in Commands :
             scm' = [scm EXCEPT !.id = scm.last + 1, !.last = @ + 1, !.command = c,
                                !.status = "Stopped", !.failed = FALSE]
       /\ UNCHANGED <<service, handler, owner, remover, checker>>

\* Another party deletes the stopped service.
ForeignDelete ==
    /\ scm.id # NoService /\ scm.status = "Stopped"
    /\ scm' = [scm EXCEPT !.id = NoService]
    /\ UNCHANGED <<service, handler, owner, remover, checker>>

-----------------------------------------------------------------------------
(* The service process. *)

\* service_entry: the handler is registered and StartPending published.
RegisterHandler ==
    /\ service.pc = "register"
    /\ Main("readiness")
    /\ UNCHANGED <<scm, handler, owner, remover, checker>>

\* What a pass leaves of the children: those of the durable mode, or a
\* component in quarantine, whose child may be there.
Passed == {IF owner.mode = "Running" THEN "live" ELSE "none", "stuck"}

\* The readiness callback: the owner store is opened under its lock and one
\* pass completes; a failure is published as a failed stop.
Readiness ==
    /\ service.pc = "readiness"
    /\ \/ /\ owner.lock = "free"
          /\ owner' = [owner EXCEPT !.lock = "service"]
          /\ \E c \in Passed : service' = [service EXCEPT !.pc = "running", !.children = c]
          /\ UNCHANGED <<scm, handler>>
       \/ /\ scm' = Publish("Stopped", TRUE)
          /\ service' = Off /\ handler' = "idle"
          /\ UNCHANGED owner
    /\ UNCHANGED <<remover, checker>>

PublishRunning ==
    /\ service.pc = "running"
    /\ scm' = Publish("Running", FALSE)
    /\ Main("loop")
    /\ UNCHANGED <<handler, owner, remover, checker>>

\* run_until_stopped_with: a stop request is made durable before the pass that
\* may stop a child.
CommitStop ==
    /\ service.pc = "loop" /\ service.stop /\ ~service.committed
    /\ owner' = [owner EXCEPT !.mode = "Stopped"]
    /\ service' = [service EXCEPT !.committed = TRUE]
    /\ UNCHANGED <<scm, handler, remover, checker>>

\* An operator's command, taken from the queue by the same thread.
DrainAdmin ==
    /\ service.pc = "loop" /\ ~service.committed /\ owner.admin
    /\ \E m \in {"Running", "Stopped"} \ {owner.mode} : owner' = [owner EXCEPT !.mode = m]
    /\ UNCHANGED <<scm, service, handler, remover, checker>>

\* A pass: children are started or stopped as the durable mode says.
Pass ==
    /\ service.pc = "loop" /\ (service.stop => service.committed)
    /\ service.children \notin Passed \ {"stuck"}
    /\ \E c \in Passed : service' = [service EXCEPT !.children = c]
    /\ UNCHANGED <<scm, handler, owner, remover, checker>>

\* The loop ends: stopped durably, with nothing owned; the owner is dropped.
LoopEnds ==
    /\ service.pc = "loop" /\ (service.committed \/ ~owner.admin)
    /\ owner.mode = "Stopped" /\ service.children = "none"
    /\ service' = [service EXCEPT !.pc = "stopped"]
    /\ owner' = [owner EXCEPT !.lock = "free"]
    /\ UNCHANGED <<scm, handler, remover, checker>>

\* Mutant: a failed stop is retried for ever.
LoopRetries ==
    /\ service.pc = "loop" /\ service.committed
    /\ service' = [service EXCEPT !.committed = FALSE]
    /\ UNCHANGED <<scm, handler, owner, remover, checker>>

\* run_service: a failed pass is retried by the same owner; once a stop is
\* asked for, only until the deadline.
LoopFails ==
    /\ service.pc = "loop"
    /\ \/ /\ service.committed
          /\ service' = [service EXCEPT !.committed = FALSE]
          /\ UNCHANGED owner
       \/ /\ service.stop
          /\ service' = [service EXCEPT !.pc = "failed", !.children = "none"]
          /\ owner' = [owner EXCEPT !.lock = "free"]
    /\ UNCHANGED <<scm, handler, remover, checker>>

\* service_entry: the end of the loop is published, and the process ends; when
\* the last status is not Stopped, the SCM takes the end for a failure.
PublishStopped ==
    /\ service.pc \in {"stopped", "failed"}
    /\ scm' = Publish("Stopped", service.pc = "failed")
    /\ Main("exit")
    /\ UNCHANGED <<handler, owner, remover, checker>>

ServiceExits ==
    /\ service.pc = "exit"
    /\ service' = Off /\ handler' = "idle"
    /\ scm' = Publish("Stopped", scm.failed \/ scm.status # "Stopped")
    /\ UNCHANGED <<owner, remover, checker>>

\* The control handler: the flag, and then StopPending.
HandlerSetsFlag ==
    /\ handler = "flag"
    /\ handler' = "publish"
    /\ service' = [service EXCEPT !.stop = TRUE]
    /\ UNCHANGED <<scm, owner, remover, checker>>

HandlerPublishes ==
    /\ handler = "publish"
    /\ handler' = "idle"
    /\ scm' = Publish("StopPending", scm.failed)
    /\ UNCHANGED <<service, owner, remover, checker>>

-----------------------------------------------------------------------------
(* service uninstall. *)

\* A query on the held handle, validate_installed_service_config included.
Bound(id) == scm.id = id /\ scm.command = "bound"
BoundStopped == Bound(remover.handle) /\ scm.status = "Stopped"
Remover(pc) == remover' = [remover EXCEPT !.pc = pc]

\* The command fails, and drops what it holds.
RemoverFails ==
    /\ remover' = [pc |-> "idle", handle |-> NoService]
    /\ owner' = [owner EXCEPT !.lock = IF @ = "remover" THEN "free" ELSE @]
    /\ UNCHANGED <<scm, handler>>

\* bind_installed_service.
Bind ==
    /\ remover.pc = "idle" /\ scm.id # NoService /\ Bound(scm.id)
    /\ Remover("open")
    /\ UNCHANGED <<scm, service, handler, owner, checker>>

\* stop_bound_service: the service is opened by its name, the command line is
\* read again, and a service that is not stopped is told to.
StopBound ==
    /\ remover.pc = "open"
    /\ \/ /\ scm.id # NoService /\ Bound(scm.id)
          /\ \/ /\ scm.status = "Stopped" /\ UNCHANGED handler
                /\ remover' = [pc |-> "recheck", handle |-> scm.id]
             \/ /\ scm.status # "Stopped"
                /\ IF scm.status = "StopPending" THEN UNCHANGED handler ELSE StopControl
                /\ remover' = [pc |-> "wait", handle |-> scm.id]
          /\ UNCHANGED <<scm, owner>>
       \/ RemoverFails
    /\ UNCHANGED <<service, checker>>

\* wait_for_service_state.
AwaitStopped ==
    /\ remover.pc = "wait"
    /\ \/ scm.status = "Stopped" /\ Remover("recheck") /\ UNCHANGED <<scm, handler, owner>>
       \/ RemoverFails
    /\ UNCHANGED <<service, checker>>

\* stop_bound_service, its end: the witness.
StopWitness ==
    /\ remover.pc = "recheck"
    /\ \/ BoundStopped /\ Remover("mint") /\ UNCHANGED <<scm, handler, owner>>
       \/ RemoverFails
    /\ UNCHANGED <<service, checker>>

\* Mutant: the owner is closed once it was seen stopped.
MintAndRelease ==
    /\ remover.pc = "mint"
    /\ \/ /\ owner.lock = "free"
          /\ owner' = [owner EXCEPT !.mode = "Stopped"]
          /\ Remover("verify") /\ UNCHANGED <<scm, handler>>
       \/ RemoverFails
    /\ UNCHANGED <<service, checker>>

\* mint_durably_stopped_deployment: the bound store is opened under its lock,
\* stopped durably and reconciled cleanly, and stays open.
MintOwner ==
    /\ remover.pc = "mint"
    /\ \/ /\ owner.lock = "free"
          /\ owner' = [owner EXCEPT !.mode = "Stopped", !.lock = "remover"]
          /\ Remover("verify") /\ UNCHANGED <<scm, handler>>
       \/ RemoverFails
    /\ UNCHANGED <<service, checker>>

\* verify_before_delete.
VerifyOwner ==
    /\ remover.pc = "verify"
    /\ \/ owner.mode = "Stopped" /\ Remover("query") /\ UNCHANGED <<scm, handler, owner>>
       \/ RemoverFails
    /\ UNCHANGED <<service, checker>>

\* delete_bound_stopped_service: the queries on the held handle.
DeleteQuery ==
    /\ remover.pc = "query"
    /\ \/ BoundStopped /\ Remover("delete") /\ UNCHANGED <<scm, handler, owner>>
       \/ RemoverFails
    /\ UNCHANGED <<service, checker>>

\* delete_bound_stopped_service: the deletion, of the service of the handle.
DeleteBound ==
    /\ remover.pc = "delete"
    /\ \/ /\ scm.id = remover.handle
          /\ scm' = [scm EXCEPT !.id = NoService]
          /\ owner' = [owner EXCEPT !.lock = "free"]
          /\ remover' = [pc |-> "idle", handle |-> NoService]
          /\ UNCHANGED handler
       \/ RemoverFails
    /\ UNCHANGED <<service, checker>>

-----------------------------------------------------------------------------
(* ScmHealthChecker::request_recovery_if_stale. *)

\* A stale heartbeat of a running service: it is stopped.
CheckerStops ==
    /\ checker = "idle" /\ scm.status = "Running" /\ StopControl
    /\ checker' = "stopping"
    /\ UNCHANGED <<scm, service, owner, remover>>

CheckerStarts ==
    /\ checker = "stopping"
    /\ \/ StartService(scm) /\ checker' = "starting"
       \/ checker' = "idle" /\ UNCHANGED <<scm, service>>
    /\ UNCHANGED <<handler, owner, remover>>

CheckerEnds ==
    /\ checker = "starting" /\ checker' = "idle"
    /\ UNCHANGED <<scm, service, handler, owner, remover>>

-----------------------------------------------------------------------------
ServiceThread ==
    \/ RegisterHandler \/ Readiness \/ PublishRunning \/ CommitStop \/ DrainAdmin \/ Pass
    \/ LoopEnds \/ LoopFails \/ PublishStopped \/ ServiceExits

ServiceNext ==
    \/ ServiceThread \/ HandlerSetsFlag \/ HandlerPublishes
    \/ ScmStarts \/ ScmStops \/ ServiceDies \/ Install \/ ForeignDelete
    \/ Bind \/ StopBound \/ AwaitStopped \/ StopWitness \/ MintOwner \/ VerifyOwner
    \/ DeleteQuery \/ DeleteBound \/ CheckerStops \/ CheckerStarts \/ CheckerEnds

ServiceSpec == ServiceInit /\ [][ServiceNext]_serviceVars

\* The SCM runs the control it sent, the loop's thread goes on, and the clock
\* reaches the deadline of a stop that keeps failing.
ServiceFairness ==
    /\ WF_serviceVars(HandlerSetsFlag) /\ WF_serviceVars(HandlerPublishes)
    /\ WF_serviceVars(RegisterHandler) /\ WF_serviceVars(Readiness)
    /\ WF_serviceVars(PublishRunning) /\ WF_serviceVars(CommitStop) /\ WF_serviceVars(Pass)
    /\ WF_serviceVars(PublishStopped) /\ WF_serviceVars(ServiceExits)
    /\ SF_serviceVars((LoopEnds \/ (LoopFails /\ service'.pc = "failed")))

-----------------------------------------------------------------------------
(* Properties. *)

\* A removal deletes the very service it stopped, and does so while the store
\* is durably stopped and no service process owns it, although the service may
\* be started, configured again or replaced between its calls.
DeleteIsSafe ==
    [][remover.pc = "delete" /\ remover'.pc = "idle" /\ scm'.id # scm.id =>
          /\ scm.id = remover.handle
          /\ owner.mode = "Stopped"
          /\ service.pc \notin {"running", "loop"}]_serviceVars

\* A Stop control ends the service, by a clean stop or by the failure its
\* deadline brings, unless a component is in quarantine, which the loop waits
\* for without a deadline.
StopControlEnds == (handler = "flag") ~> (service.pc = "off" \/ service.children = "stuck")
================================================================================
