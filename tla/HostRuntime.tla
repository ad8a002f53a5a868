----------------------------- MODULE HostRuntime -----------------------------
(***************************************************************************)
(* The runtime-v3 adapter of the synthetic host (runtime.rs,               *)
(* runtime_store.rs): sessions, the runtime operation journal and its      *)
(* queue.                                                                  *)
(*                                                                         *)
(* A request names an instance, a session, a lease and, where the kind     *)
(* has one, an operation and the generation the client last saw.  A        *)
(* session keeps the state id it was made with and always offers the same  *)
(* legal actions, so both are left out; a replayed or conflicting          *)
(* operation id is answered from the journal and changes nothing.          *)
(***************************************************************************)
EXTENDS HostLease, FiniteSets

CONSTANTS
    Sessions,               \* session ids
    Actions,                \* operation ids of the runtime journal
    MaxRuntimeOperations,   \* MAX_RUNTIME_OPERATIONS
    MaxGeneration           \* MAX_RUNTIME_INTEGER, for the session generation

ASSUME HostRuntimeAssumption ==
    /\ None \notin Sessions
    /\ MaxRuntimeOperations \in Nat /\ MaxGeneration \in Nat

VARIABLES
    sessions,            \* runtime_sessions, by id
    runtimeOperations,   \* runtime_operations, by id
    runtimeQueue         \* ids of runtime_queue

runtimeVars == <<sessions, runtimeOperations, runtimeQueue>>

RuntimeStatus == {"ABSENT", "ADMITTED", "EXECUTING", "UNKNOWN", "SETTLED", "RECONCILED"}

NoSession == [state |-> "ABSENT", instance |-> None, epoch |-> 0, generation |-> 0]

\* pre is the generation the action was admitted in; proved says that witness
\* and result are recorded.
NoAction == [status |-> "ABSENT", instance |-> None, session |-> None, epoch |-> 0,
             pre |-> 0, proved |-> FALSE]

RuntimeInit ==
    /\ sessions = [s \in Sessions |-> NoSession]
    /\ runtimeOperations = [a \in Actions |-> NoAction]
    /\ runtimeQueue = {}

-----------------------------------------------------------------------------
(* What a request reads. *)

Active(row)     == row.status \in {"ADMITTED", "EXECUTING"}
Unresolved(row) == row.status \in {"ADMITTED", "EXECUTING", "UNKNOWN"}

\* runtime_authority_current.
AuthorityCurrent(i, e) ==
    /\ lease.epoch = e /\ lease.instance = i /\ ~lease.revoked /\ clock < lease.expires
    /\ lease.generation = fence.generation /\ lease.instance = fence.instance
    /\ fence.state = "READY"

\* unresolved_runtime_operation_for_instance.
InstanceUnresolved(i) ==
    \E a \in Actions : Unresolved(runtimeOperations[a]) /\ runtimeOperations[a].instance = i

\* active_runtime_session_for_instance.
InstanceHasSession(i) ==
    \E s \in Sessions : sessions[s].state = "ACTIVE" /\ sessions[s].instance = i

\* A request under a session id that is not known makes the session.
MayOpen(s, i, e) ==
    /\ sessions[s].state = "ABSENT"
    /\ AuthorityCurrent(i, e) /\ ~InstanceUnresolved(i) /\ ~InstanceHasSession(i)

NewSession(i, e, g) == [state |-> "ACTIVE", instance |-> i, epoch |-> e, generation |-> g]

\* The caller's instance and lease are those of the session.
Holds(s, i, e) ==
    /\ sessions[s].state # "ABSENT"
    /\ sessions[s].instance = i /\ sessions[s].epoch = e

\* The operation was admitted in this session, under its lease.
Belongs(row, s) ==
    /\ row.status # "ABSENT"
    /\ row.session = s /\ row.instance = sessions[s].instance /\ row.epoch = sessions[s].epoch

-----------------------------------------------------------------------------
(* What a request writes. *)

\* The part of bootstrap, lease_acquire and open.
RuntimeUncertain ==
    /\ runtimeOperations' =
          [a \in Actions |-> IF Active(runtimeOperations[a])
                             THEN [runtimeOperations[a] EXCEPT !.status = "UNKNOWN"]
                             ELSE runtimeOperations[a]]
    /\ runtimeQueue' = {a \in runtimeQueue : runtimeOperations'[a].status # "UNKNOWN"}
    /\ UNCHANGED sessions

\* mark_runtime_operation_unknown.
MarkUnknown(a) ==
    /\ runtimeOperations' = [runtimeOperations EXCEPT ![a].status = "UNKNOWN"]
    /\ runtimeQueue' = runtimeQueue \ {a}

\* create_runtime_session, by a request of any kind.
OpenSession(s, i, e, g) ==
    /\ MayOpen(s, i, e)
    /\ sessions' = [sessions EXCEPT ![s] = NewSession(i, e, g)]
    /\ UNCHANGED <<runtimeOperations, runtimeQueue>>

\* v3_dispatch_value, in a session that is there or that the request makes.
AdmitAction(a, s, i, e, g) ==
    LET session == IF MayOpen(s, i, e) THEN NewSession(i, e, g) ELSE sessions[s]
    IN  /\ AuthorityCurrent(i, e)
        /\ session.state = "ACTIVE" /\ session.instance = i /\ session.epoch = e
        /\ runtimeOperations[a].status = "ABSENT"
        /\ g = session.generation
        /\ ~\E x \in Actions : Unresolved(runtimeOperations[x]) /\ runtimeOperations[x].session = s
        /\ ~InstanceUnresolved(i)
        /\ Cardinality({x \in Actions : runtimeOperations[x].status # "ABSENT"})
              < MaxRuntimeOperations
        /\ sessions' = [sessions EXCEPT ![s] = session]
        /\ runtimeOperations' =
              [runtimeOperations EXCEPT
                 ![a] = [status |-> "ADMITTED", instance |-> i, session |-> s, epoch |-> e,
                         pre |-> session.generation, proved |-> FALSE]]
        /\ runtimeQueue' = runtimeQueue \cup {a}

\* A dispatch, wait or recovery under a lease that is not current: the
\* operation it names becomes uncertain if it is exactly of that lease.
MarkStale(a, s, i, e) ==
    /\ sessions[s].state # "ABSENT" /\ ~AuthorityCurrent(i, e)
    /\ Active(runtimeOperations[a])
    /\ runtimeOperations[a].instance = i /\ runtimeOperations[a].session = s
    /\ runtimeOperations[a].epoch = e
    /\ MarkUnknown(a) /\ UNCHANGED sessions

\* What drain_runtime_operation checks again before it executes.
Drainable(a, s) ==
    /\ AuthorityCurrent(runtimeOperations[a].instance, runtimeOperations[a].epoch)
    /\ runtimeOperations[a].pre = sessions[s].generation
    /\ a \in runtimeQueue

\* v3_wait_value, up to the commit of EXECUTING.
DrainAction(a, s, i, e) ==
    /\ AuthorityCurrent(i, e) /\ Holds(s, i, e) /\ sessions[s].state = "ACTIVE"
    /\ Belongs(runtimeOperations[a], s) /\ runtimeOperations[a].status = "ADMITTED"
    /\ IF Drainable(a, s)
       THEN /\ runtimeOperations' = [runtimeOperations EXCEPT ![a].status = "EXECUTING"]
            /\ UNCHANGED runtimeQueue
       ELSE MarkUnknown(a)
    /\ UNCHANGED sessions

\* Result, witness, the session's next generation and the queue in one
\* transaction; a next generation out of range is an error before it.
SettleAction(a) ==
    /\ sessions[runtimeOperations[a].session].generation < MaxGeneration
    /\ runtimeOperations' = [runtimeOperations EXCEPT ![a] = [@ EXCEPT !.status = "SETTLED", !.proved = TRUE]]
    /\ sessions' = [sessions EXCEPT ![runtimeOperations[a].session].generation = @ + 1]
    /\ runtimeQueue' = runtimeQueue \ {a}

\* recover_request with reconcile, by the session's own or by a newer lease.
ReconcileAction(a, s, i, e) ==
    /\ AuthorityCurrent(i, e) /\ sessions[s].state # "ABSENT"
    /\ Belongs(runtimeOperations[a], s)
    /\ IF runtimeOperations[a].status = "UNKNOWN" /\ runtimeOperations[a].proved
       THEN /\ runtimeOperations' = [runtimeOperations EXCEPT ![a].status = "RECONCILED"]
            /\ runtimeQueue' = runtimeQueue \ {a}
       ELSE UNCHANGED <<runtimeOperations, runtimeQueue>>
    /\ UNCHANGED sessions

\* release_lease and stop_episode: three writes, each committed on its own,
\* after the revocation of a released lease.
MayStop(s, i, e) == AuthorityCurrent(i, e) /\ Holds(s, i, e)

StopMark(s) ==
    /\ runtimeOperations' =
          [a \in Actions |-> IF Active(runtimeOperations[a]) /\ runtimeOperations[a].session = s
                             THEN [runtimeOperations[a] EXCEPT !.status = "UNKNOWN"]
                             ELSE runtimeOperations[a]]
    /\ UNCHANGED <<sessions, runtimeQueue>>

StopUnqueue(s) ==
    /\ runtimeQueue' = {a \in runtimeQueue : ~(/\ runtimeOperations[a].session = s
                                               /\ runtimeOperations[a].status = "UNKNOWN")}
    /\ UNCHANGED <<sessions, runtimeOperations>>

StopPersist(s) ==
    /\ sessions' = [sessions EXCEPT ![s].state = "STOPPED"]
    /\ UNCHANGED <<runtimeOperations, runtimeQueue>>

-----------------------------------------------------------------------------
(* Properties. *)

\* The rows keep their types.
RuntimeTypeOK ==
    /\ sessions \in [Sessions ->
          [state : {"ABSENT", "ACTIVE", "STOPPED"}, instance : Instances \cup {None},
           epoch : 0 .. MaxEpoch, generation : 0 .. MaxGeneration]]
    /\ runtimeOperations \in [Actions ->
          [status : RuntimeStatus, instance : Instances \cup {None},
           session : Sessions \cup {None}, epoch : 0 .. MaxEpoch, pre : 0 .. MaxGeneration,
           proved : BOOLEAN]]
    /\ runtimeQueue \subseteq Actions

\* At most one operation of an instance is unresolved, over all its sessions,
\* leases and boots: nothing is admitted beside an outcome that is unknown.
OneUnresolvedPerInstance ==
    \A a, b \in Actions :
        /\ Unresolved(runtimeOperations[a]) /\ Unresolved(runtimeOperations[b])
        /\ runtimeOperations[a].instance = runtimeOperations[b].instance
        => a = b

\* In a session no two operations took effect in the same generation, and the
\* session is past every generation in which one did.
OneEffectPerGeneration ==
    \A a \in Actions : runtimeOperations[a].proved =>
        /\ runtimeOperations[a].pre < sessions[runtimeOperations[a].session].generation
        /\ \A b \in Actions \ {a} :
              runtimeOperations[b].proved /\ runtimeOperations[b].session = runtimeOperations[a].session
                  => runtimeOperations[b].pre # runtimeOperations[a].pre

\* An admitted operation is still queued, in the generation it was admitted
\* in: under a current lease a wait finds nothing to refuse.
AdmittedIsDrainable ==
    \A a \in Actions : runtimeOperations[a].status = "ADMITTED" =>
        /\ a \in runtimeQueue
        /\ runtimeOperations[a].pre = sessions[runtimeOperations[a].session].generation
==============================================================================
