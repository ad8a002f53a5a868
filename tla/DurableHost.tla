----------------------------- MODULE DurableHost -----------------------------
(***************************************************************************)
(* The synthetic host as a whole (fault-fixture, lib.rs, server.rs): one   *)
(* process serves one request at a time, each of its handlers writes the   *)
(* tables of lease, recovery journal and runtime journal it concerns, and  *)
(* the process may die wherever a handler has committed something.  A      *)
(* death and the opening of the database by the next process are one       *)
(* step: nothing else is kept.                                             *)
(***************************************************************************)
EXTENDS HostJournal, HostRuntime

CONSTANT MaxWork   \* bound on the operations of both journals together

ASSUME DurableHostAssumption == MaxWork \in Nat

VARIABLE handler   \* the request in hand: what it committed last, and for which row

hostVars == <<fence, lease, history, clock, operations, queue, effects, receipts,
              sessions, runtimeOperations, runtimeQueue, handler>>

Idle == [at |-> "idle", of |-> None]

HostInit == LeaseInit /\ JournalInit /\ RuntimeInit /\ handler = Idle

Rest == handler = Idle /\ UNCHANGED handler
At(place, x) == handler = [at |-> place, of |-> x]
Goto(place, x) == handler' = [at |-> place, of |-> x]
Finish == handler' = Idle

HasWork ==
    Cardinality(Operations \ InState("ABSENT"))
      + Cardinality({a \in Actions : runtimeOperations[a].status # "ABSENT"}) < MaxWork

-----------------------------------------------------------------------------
(* Authority. *)

Bootstrap == \E i \in Instances :
    Rest /\ RotateFence(i) /\ JournalUncertain /\ RuntimeUncertain

HostFence == \E g \in 1 .. MaxAuthority :
    Rest /\ AcceptFence(g) /\ UNCHANGED <<journalVars, runtimeVars>>

LeaseAcquire == \E g \in 1 .. MaxAuthority :
    Rest /\ IssueLease(g) /\ JournalUncertain /\ RuntimeUncertain

LeaseRenew == \E d \in Document, n \in 1 .. MaxTick :
    Rest /\ RenewLease(d, n) /\ UNCHANGED <<journalVars, runtimeVars>>

LeaseRevoke == \E d \in Document :
    /\ Rest /\ ValidLease(d) /\ RevokeLease(d.epoch)
    /\ UNCHANGED <<journalVars, runtimeVars>>

Reopen == RestartLease /\ JournalUncertain /\ RuntimeUncertain /\ Finish

-----------------------------------------------------------------------------
(* The recovery journal. *)

Intent == \E o \in Operations, d \in Document :
    Rest /\ HasWork /\ RecordIntent(o, d) /\ UNCHANGED <<leaseVars, runtimeVars>>

Dispatch == \E o \in Operations, d \in Document :
    Rest /\ DispatchOperation(o, d) /\ UNCHANGED <<leaseVars, runtimeVars>>

Reconcile == \E o \in Operations, g \in 1 .. MaxAuthority :
    Rest /\ ReconcileOperation(o, g) /\ UNCHANGED <<leaseVars, runtimeVars>>

TickRefused == \E o \in Operations :
    Rest /\ (TickLeftover(o) \/ TickQuarantine(o)) /\ UNCHANGED <<leaseVars, runtimeVars>>

Tick == \E o \in Operations :
    /\ handler = Idle /\ TickMutate(o) /\ Goto("mutated", o)
    /\ UNCHANGED <<leaseVars, runtimeVars>>

TickOn == \E o \in Operations :
    /\ \/ At("mutated", o) /\ TickReceipt(o) /\ Goto("receipted", o)
       \/ At("receipted", o) /\ TickSettle(o) /\ Goto("settled", o)
       \/ At("settled", o) /\ TickUnqueue(o) /\ Finish
    /\ UNCHANGED <<leaseVars, runtimeVars>>

-----------------------------------------------------------------------------
(* The runtime adapter. *)

RuntimeOpen == \E s \in Sessions, i \in Instances, e \in 1 .. MaxEpoch, g \in 0 .. MaxGeneration :
    Rest /\ OpenSession(s, i, e, g) /\ UNCHANGED <<leaseVars, journalVars>>

RuntimeDispatch ==
    \E a \in Actions, s \in Sessions, i \in Instances, e \in 1 .. MaxEpoch,
       g \in 0 .. MaxGeneration :
        Rest /\ HasWork /\ AdmitAction(a, s, i, e, g) /\ UNCHANGED <<leaseVars, journalVars>>

RuntimeStale == \E a \in Actions, s \in Sessions, i \in Instances, e \in 1 .. MaxEpoch :
    Rest /\ MarkStale(a, s, i, e) /\ UNCHANGED <<leaseVars, journalVars>>

RuntimeWait == \E a \in Actions, s \in Sessions, i \in Instances, e \in 1 .. MaxEpoch :
    /\ handler = Idle /\ DrainAction(a, s, i, e)
    /\ IF Drainable(a, s) THEN Goto("executing", a) ELSE Finish
    /\ UNCHANGED <<leaseVars, journalVars>>

RuntimeSettle == \E a \in Actions :
    At("executing", a) /\ SettleAction(a) /\ Finish /\ UNCHANGED <<leaseVars, journalVars>>

RuntimeReconcile == \E a \in Actions, s \in Sessions, i \in Instances, e \in 1 .. MaxEpoch :
    Rest /\ ReconcileAction(a, s, i, e) /\ UNCHANGED <<leaseVars, journalVars>>

RuntimeStop == \E s \in Sessions, i \in Instances, e \in 1 .. MaxEpoch :
    /\ handler = Idle /\ MayStop(s, i, e)
    /\ RevokeLease(e) \/ UNCHANGED leaseVars   \* release_lease or stop_episode
    /\ Goto("stopping", s) /\ UNCHANGED <<journalVars, runtimeVars>>

RuntimeStopOn == \E s \in Sessions :
    /\ \/ At("stopping", s) /\ StopMark(s) /\ Goto("marked", s)
       \/ At("marked", s) /\ StopUnqueue(s) /\ Goto("unqueued", s)
       \/ At("unqueued", s) /\ StopPersist(s) /\ Finish
    /\ UNCHANGED <<leaseVars, journalVars>>

\* What is left of a runtime request fails: a statement of the database, or a
\* generation out of range.  The error is answered and the server goes on; in
\* a tick the process ends instead, which is a Reopen.
RuntimeFails ==
    /\ handler.at \in {"executing", "stopping", "marked", "unqueued"} /\ Finish
    /\ UNCHANGED <<leaseVars, journalVars, runtimeVars>>

-----------------------------------------------------------------------------
HostNext ==
    \/ Bootstrap \/ HostFence \/ LeaseAcquire \/ LeaseRenew \/ LeaseRevoke \/ Reopen
    \/ Intent \/ Dispatch \/ Reconcile \/ TickRefused \/ Tick \/ TickOn
    \/ RuntimeOpen \/ RuntimeDispatch \/ RuntimeStale \/ RuntimeWait \/ RuntimeSettle
    \/ RuntimeReconcile \/ RuntimeStop \/ RuntimeStopOn \/ RuntimeFails

HostSpec == HostInit /\ [][HostNext]_hostVars

-----------------------------------------------------------------------------
(* Properties of the whole. *)

\* Only its own session's stop, a new authority or a restart makes an admitted
\* operation of the current lease uncertain; a stale caller never does.
StaleCallersAreHarmless ==
    [][\A a \in Actions :
          /\ runtimeOperations[a].status = "ADMITTED"
          /\ AuthorityCurrent(runtimeOperations[a].instance, runtimeOperations[a].epoch)
          /\ runtimeOperations'[a].status = "UNKNOWN"
          => \/ At("stopping", runtimeOperations[a].session)
             \/ fence'.state = "RESTART_REQUIRED" \/ fence'.generation # fence.generation
             \/ lease'.epoch # lease.epoch]_hostVars
==============================================================================
