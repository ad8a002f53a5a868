------------------------------ MODULE HostLease ------------------------------
(***************************************************************************)
(* Fencing and lease authority of the synthetic host (fault-fixture,       *)
(* lease.rs and db.rs): the fence row, the lease row, the append-only      *)
(* lease history and the fixture clock, all in one SQLite database.        *)
(*                                                                         *)
(* Boot id, host fence id and authority generation are made together, so   *)
(* the generation stands for the three; lease ids are fresh with every     *)
(* epoch, so the epoch stands for both.  A request that is refused leaves  *)
(* every row alone and is not a step.  Each operator is the part of a      *)
(* handler, or of the opening of the database, that concerns these tables; *)
(* DurableHost puts the parts together.                                    *)
(***************************************************************************)
EXTENDS Naturals

CONSTANTS
    Instances,         \* instance ids
    None,              \* no instance, no request
    Ttl,               \* lease_policy.ttl_seconds
    RenewalInterval,   \* lease_policy.renewal_interval_seconds
    MaxAuthority,      \* bound on authority generations
    MaxEpoch,          \* bound on lease epochs
    MaxTick            \* bound on the fixture clock

ASSUME HostLeaseAssumption ==
    /\ None \notin Instances
    /\ Ttl \in Nat /\ RenewalInterval \in Nat \ {0} /\ RenewalInterval < Ttl
    /\ MaxAuthority \in Nat /\ MaxEpoch \in Nat /\ MaxTick \in Nat

VARIABLES
    fence,     \* the fence row
    lease,     \* the lease row: the current projection
    history,   \* lease_history, by epoch
    clock      \* fixture_clock

leaseVars == <<fence, lease, history, clock>>

AuthorityState == {"ABSENT", "RESTART_REQUIRED", "FENCE_REQUIRED", "READY"}

\* A row that is not there: epoch 0 is never issued.
NoFence == [state |-> "ABSENT", generation |-> 0, counter |-> 0, instance |-> None]
NoLease == [epoch |-> 0, generation |-> 0, instance |-> None, expires |-> 0,
            sequence |-> 0, revoked |-> TRUE]

\* A lease document as a client presents it: it may be one of an earlier
\* epoch, or one from before a renewal.
Document == [epoch : 1 .. MaxEpoch, generation : 1 .. MaxAuthority, expires : 0 .. MaxTick + Ttl]

LeaseInit ==
    /\ fence = NoFence
    /\ lease = NoLease
    /\ history = [e \in {} |-> 0]
    /\ clock = 0

-----------------------------------------------------------------------------
(* What the handlers read. *)

\* The larger of the fence's counter and the newest epoch in the history.
EpochCounter ==
    LET epochs == {fence.counter} \cup DOMAIN history
    IN  CHOOSE c \in epochs : \A e \in epochs : e <= c

\* validate_lease, with validate_current_fence_fields.
ValidLease(d) ==
    /\ ~lease.revoked
    /\ d.epoch = lease.epoch /\ d.generation = lease.generation /\ d.expires = lease.expires
    /\ clock < lease.expires
    /\ fence.state = "READY"
    /\ d.generation = fence.generation

\* validate_fence_pair and validate_current_fence.
CurrentFence(g) == fence.state = "READY" /\ g = fence.generation

Row(rows, e, row) == [x \in DOMAIN rows \cup {e} |-> IF x = e THEN row ELSE rows[x]]

\* INSERT OR IGNORE of the lease row into the history.
Kept ==
    IF lease.epoch \in {0} \cup DOMAIN history
    THEN history
    ELSE Row(history, lease.epoch, [expires |-> lease.expires, revoked |-> lease.revoked])

\* The lease row's lease is revoked in the history.
Revoked(rows) ==
    [e \in DOMAIN rows |->
        IF e = lease.epoch THEN [rows[e] EXCEPT !.revoked = TRUE] ELSE rows[e]]

-----------------------------------------------------------------------------
(* What the handlers write. *)

\* bootstrap: a new boot and fence, not usable before host_fence.
RotateFence(i) ==
    /\ fence.generation < MaxAuthority
    /\ fence' = [state |-> "FENCE_REQUIRED", generation |-> fence.generation + 1,
                 counter |-> EpochCounter, instance |-> i]
    /\ lease' = [lease EXCEPT !.revoked = TRUE]
    /\ history' = Revoked(history)
    /\ UNCHANGED clock

\* host_fence.
AcceptFence(g) ==
    /\ fence.state \in {"FENCE_REQUIRED", "READY"}
    /\ g = fence.generation
    /\ fence' = [fence EXCEPT !.state = "READY"]
    /\ UNCHANGED <<lease, history, clock>>

\* Mutant: the history keeps the earlier lease as it was.
IssueLeaseOnly(g) ==
    /\ CurrentFence(g)
    /\ EpochCounter < MaxEpoch
    /\ LET epoch   == EpochCounter + 1
           expires == clock + Ttl
       IN  /\ fence' = [fence EXCEPT !.counter = epoch]
           /\ history' = Row(Kept, epoch, [expires |-> expires, revoked |-> FALSE])
           /\ lease' = [epoch |-> epoch, generation |-> g, instance |-> fence.instance,
                        expires |-> expires, sequence |-> 0, revoked |-> FALSE]
    /\ UNCHANGED clock

\* lease_acquire: the earlier lease is revoked and kept.
IssueLease(g) ==
    /\ CurrentFence(g)
    /\ EpochCounter < MaxEpoch
    /\ LET epoch   == EpochCounter + 1
           expires == clock + Ttl
       IN  /\ fence' = [fence EXCEPT !.counter = epoch]
           /\ history' = Row(Revoked(Kept), epoch, [expires |-> expires, revoked |-> FALSE])
           /\ lease' = [epoch |-> epoch, generation |-> g, instance |-> fence.instance,
                        expires |-> expires, sequence |-> 0, revoked |-> FALSE]
    /\ UNCHANGED clock

\* lease_renew: the only request that moves the clock.
RenewLease(d, sequence) ==
    /\ ValidLease(d)
    /\ sequence = lease.sequence + 1
    /\ clock + RenewalInterval <= MaxTick
    /\ lease.epoch \in DOMAIN history
    /\ clock' = IF clock + RenewalInterval + Ttl >= lease.expires
                THEN clock + RenewalInterval ELSE lease.expires - Ttl
    /\ lease' = [lease EXCEPT !.expires = clock' + Ttl, !.sequence = sequence]
    /\ history' = [history EXCEPT ![lease.epoch].expires = clock' + Ttl]
    /\ UNCHANGED fence

\* The writes of lease_revoke, and of a runtime release_lease.
RevokeLease(e) ==
    /\ lease' = IF e = lease.epoch THEN [lease EXCEPT !.revoked = TRUE] ELSE lease
    /\ history' = [x \in DOMAIN history |->
                      IF x = e THEN [history[x] EXCEPT !.revoked = TRUE] ELSE history[x]]
    /\ UNCHANGED <<fence, clock>>

\* DurableHost::open: the lease of the last process is kept, revoked, and the
\* fence needs a new bootstrap.
RestartLease ==
    /\ fence' = IF fence.state = "ABSENT" THEN fence
                ELSE [fence EXCEPT !.state = "RESTART_REQUIRED", !.counter = EpochCounter]
    /\ lease' = [lease EXCEPT !.revoked = TRUE]
    /\ history' = Revoked(Kept)
    /\ UNCHANGED clock

-----------------------------------------------------------------------------
(* Properties. *)

\* The rows keep their types.
LeaseTypeOK ==
    /\ fence \in [state : AuthorityState, generation : 0 .. MaxAuthority,
                  counter : 0 .. MaxEpoch, instance : Instances \cup {None}]
    /\ lease \in [epoch : 0 .. MaxEpoch, generation : 0 .. MaxAuthority,
                  instance : Instances \cup {None}, expires : Nat, sequence : Nat,
                  revoked : BOOLEAN]
    /\ DOMAIN history \subseteq 1 .. MaxEpoch
    /\ history \in [DOMAIN history -> [expires : Nat, revoked : BOOLEAN]]
    /\ clock \in Nat

\* The history and the lease row agree: at most one lease was never revoked,
\* it is the one in the lease row, with its expiry, and it was issued under
\* the fence that is now in force.  Restarts, new boots, reacquisitions,
\* renewals and releases all write both tables.
OneLiveLease ==
    \A e \in DOMAIN history :
        ~history[e].revoked =>
            /\ e = lease.epoch /\ ~lease.revoked
            /\ history[e].expires = lease.expires
            /\ lease.generation = fence.generation /\ fence.state = "READY"
==============================================================================
