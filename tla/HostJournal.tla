----------------------------- MODULE HostJournal -----------------------------
(***************************************************************************)
(* The recovery journal of the synthetic host (journal.rs, lib.rs):        *)
(* operations, their admission tickets, the queue, effects and receipts.   *)
(*                                                                         *)
(* A host tick commits the effect, the receipt, the settled state and the  *)
(* removal from the queue separately; the process may die between any two  *)
(* of them.  One request is handled at a time.  Digests, actions and       *)
(* boundaries are compared with what the operation id was first recorded   *)
(* with, and a request in which they differ changes nothing.               *)
(***************************************************************************)
EXTENDS HostLease, FiniteSets, Sequences

CONSTANTS
    Operations,    \* operation ids of the recovery journal
    MaxReceipts    \* MAX_RECEIPTS

ASSUME HostJournalAssumption == MaxReceipts \in Nat

VARIABLES
    operations,   \* the operations table, by id
    queue,        \* ids of the queue table; a queued ticket is its operation's
    effects,      \* the effects table, in the order of insertion
    receipts      \* ids of the receipts table

journalVars == <<operations, queue, effects, receipts>>

OperationState ==
    {"ABSENT", "INTENT_RECORDED", "MAY_HAVE_BEEN_DISPATCHED", "UNKNOWN", "SETTLED", "RECONCILED"}

\* epoch and generation: the original context.  The ticket's are those of the
\* lease presented to dispatch, its deadline that lease's expiry at the time.
NoTicket == [epoch |-> 0, generation |-> 0, deadline |-> 0]
Absent == [state |-> "ABSENT", epoch |-> 0, generation |-> 0, ticket |-> NoTicket,
           witness |-> FALSE]

JournalInit ==
    /\ operations = [o \in Operations |-> Absent]
    /\ queue = {}
    /\ effects = <<>>
    /\ receipts = {}

InState(state) == {o \in Operations : operations[o].state = state}

\* Authority moved on: what may have been dispatched is uncertain, and
\* nothing uncertain stays in the queue.
Uncertain(row) ==
    IF row.state = "MAY_HAVE_BEEN_DISPATCHED" THEN [row EXCEPT !.state = "UNKNOWN"] ELSE row

\* The part of bootstrap, lease_acquire and open.
JournalUncertain ==
    /\ operations' = [o \in Operations |-> Uncertain(operations[o])]
    /\ queue' = {o \in queue : operations'[o].state # "UNKNOWN"}
    /\ UNCHANGED <<effects, receipts>>

\* intent.
RecordIntent(o, d) ==
    /\ ValidLease(d)
    /\ operations[o].state = "ABSENT"
    /\ operations' = [operations EXCEPT
                        ![o] = [@ EXCEPT !.state = "INTENT_RECORDED", !.epoch = d.epoch,
                                         !.generation = d.generation]]
    /\ UNCHANGED <<queue, effects, receipts>>

\* dispatch, with issue_ticket.  The lease presented need not be the one of
\* the original context.
DispatchOperation(o, d) ==
    /\ ValidLease(d)
    /\ operations[o].state = "INTENT_RECORDED"
    /\ Cardinality(receipts) < MaxReceipts
    /\ operations' = [operations EXCEPT
                        ![o] = [@ EXCEPT !.state = "MAY_HAVE_BEEN_DISPATCHED",
                                         !.ticket = [epoch |-> d.epoch,
                                                     generation |-> d.generation,
                                                     deadline |-> lease.expires]]]
    /\ queue' = queue \cup {o}
    /\ UNCHANGED <<effects, receipts>>

-----------------------------------------------------------------------------
(* tick: the host takes a queued operation. *)

\* validate_ticket.
TicketMatches(row) == row.ticket.epoch = row.epoch /\ row.ticket.generation = row.generation

\* Mutant: only the lease epoch is compared, as the code once issued it.
TicketAuthorityByEpoch(ticket) == ticket.epoch <= lease.epoch

\* validate_ticket_authority.
TicketAuthority(ticket) ==
    /\ ~lease.revoked /\ clock < lease.expires
    /\ ticket.epoch = lease.epoch /\ ticket.generation = lease.generation
    /\ fence.generation = lease.generation

\* What an earlier tick, or a restart, left in the queue.
TickLeftover(o) ==
    /\ o \in queue
    /\ operations[o].state \in {"SETTLED", "RECONCILED", "UNKNOWN"} \/ operations[o].witness
    /\ queue' = queue \ {o}
    /\ UNCHANGED <<operations, effects, receipts>>

Runnable(o) ==
    /\ o \in queue
    /\ operations[o].state = "MAY_HAVE_BEEN_DISPATCHED" /\ ~operations[o].witness

Expired(o) == clock >= operations[o].ticket.deadline

\* quarantine_queued_operation: the deadline passed, or authority moved on.  A
\* ticket of another lease than the original context's is refused before
\* its authority is looked at, and stays queued.
TickQuarantine(o) ==
    /\ Runnable(o)
    /\ Expired(o) \/ (TicketMatches(operations[o]) /\ ~TicketAuthority(operations[o].ticket))
    /\ operations' = [operations EXCEPT ![o].state = "UNKNOWN"]
    /\ queue' = queue \ {o}
    /\ UNCHANGED <<effects, receipts>>

\* The effect, its witness and the uncertain state, in one transaction.
TickMutate(o) ==
    /\ Runnable(o)
    /\ ~Expired(o) /\ TicketMatches(operations[o]) /\ TicketAuthority(operations[o].ticket)
    /\ effects' = Append(effects, o)
    /\ operations' = [operations EXCEPT ![o] = [@ EXCEPT !.state = "UNKNOWN", !.witness = TRUE]]
    /\ UNCHANGED <<queue, receipts>>

TickReceipt(o) ==
    /\ receipts' = receipts \cup {o}
    /\ UNCHANGED <<operations, queue, effects>>

TickSettle(o) ==
    /\ operations' = [operations EXCEPT ![o].state = "SETTLED"]
    /\ UNCHANGED <<queue, effects, receipts>>

TickUnqueue(o) ==
    /\ queue' = queue \ {o}
    /\ UNCHANGED <<operations, effects, receipts>>

HasEffect(o) == \E n \in 1 .. Len(effects) : effects[n] = o

\* reconcile with receipt_lookup; the other strategies write nothing.
ReconcileOperation(o, g) ==
    /\ CurrentFence(g)
    /\ operations[o].witness /\ HasEffect(o)
    /\ operations[o].state \notin {"SETTLED", "RECONCILED"}
    /\ operations' = [operations EXCEPT ![o].state = "RECONCILED"]
    /\ UNCHANGED <<queue, effects, receipts>>

-----------------------------------------------------------------------------
(* Properties. *)

\* The rows keep their types.
JournalTypeOK ==
    /\ operations \in [Operations ->
          [state : OperationState, epoch : 0 .. MaxEpoch, generation : 0 .. MaxAuthority,
           ticket : [epoch : 0 .. MaxEpoch, generation : 0 .. MaxAuthority, deadline : Nat],
           witness : BOOLEAN]]
    /\ queue \subseteq Operations /\ receipts \subseteq Operations
    /\ effects \in Seq(Operations)

\* Fencing: an effect is added once, and only while the lease of its ticket is
\* neither revoked nor expired in the history, whatever was queued, renewed,
\* released, rotated or restarted since the ticket was issued.
EffectsAreFenced ==
    [][\A o \in Operations :
          effects' = Append(effects, o) =>
              LET epoch == operations[o].ticket.epoch
              IN  /\ ~HasEffect(o)
                  /\ epoch \in DOMAIN history /\ ~history[epoch].revoked
                  /\ clock < history[epoch].expires]_effects

\* The effects are in the order of the leases they were made under.
EffectsFollowEpochs ==
    \A m, n \in 1 .. Len(effects) :
        m < n => operations[effects[m]].ticket.epoch <= operations[effects[n]].ticket.epoch

\* An operation that is uncertain without a witness never takes effect later:
\* it can be reported unknown for good.
NoLateEffect ==
    [][\A o \in Operations :
          operations[o].state = "UNKNOWN" /\ ~operations[o].witness
              => operations'[o] = operations[o]]_<<operations, effects>>

\* What the journal claims is backed: witnesses are effects, receipts are of
\* effects, a settled operation has its receipt and a reconciled one its
\* effect, wherever a tick was cut short.
ClaimsAreBacked ==
    /\ \A o \in Operations : operations[o].witness <=> HasEffect(o)
    /\ \A o \in receipts : HasEffect(o)
    /\ InState("SETTLED") \subseteq receipts
    /\ \A o \in InState("RECONCILED") : HasEffect(o)

\* An operation answered as possibly dispatched is in the queue, so that a tick
\* either runs it or makes it uncertain; nothing else in the queue can run.
DispatchedIsQueued ==
    /\ InState("MAY_HAVE_BEEN_DISPATCHED") \subseteq queue
    /\ \A o \in queue : operations[o].state = "MAY_HAVE_BEEN_DISPATCHED" \/ operations[o].witness
==============================================================================
