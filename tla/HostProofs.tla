------------------------------ MODULE HostProofs ------------------------------
(***************************************************************************)
(* Proofs about the synthetic host, for all sets of instances, operations  *)
(* and sessions and all bounds.  The invariant has a part for the lease    *)
(* tables, one for the recovery journal and one for the runtime journal,   *)
(* each of which is kept by whatever the handlers do to its own tables.    *)
(***************************************************************************)
EXTENDS DurableHost, TLAPS

-----------------------------------------------------------------------------
(* The lease tables. *)

\* An unrevoked lease row is in the history, and no epoch is above the counter.
LeaseInv ==
    /\ LeaseTypeOK
    /\ OneLiveLease
    /\ lease.epoch <= fence.counter
    /\ \A e \in DOMAIN history : e <= fence.counter
    /\ ~lease.revoked => lease.epoch \in DOMAIN history /\ ~history[lease.epoch].revoked

\* What any handler may do to the lease tables.
LeaseNext ==
    \/ \E i \in Instances : RotateFence(i)
    \/ \E g \in 1 .. MaxAuthority : AcceptFence(g)
    \/ \E g \in 1 .. MaxAuthority : IssueLease(g)
    \/ \E d \in Document, n \in 1 .. MaxTick : RenewLease(d, n)
    \/ \E e \in 1 .. MaxEpoch : RevokeLease(e)
    \/ RestartLease
    \/ UNCHANGED leaseVars

\* The epoch a new lease gets is one above the counter of the fence row.
LEMMA CounterIsNewest ==
    ASSUME LeaseInv
    PROVE  EpochCounter = fence.counter
<1>1. /\ fence.counter \in 0 .. MaxEpoch /\ MaxEpoch \in Nat
      /\ DOMAIN history \subseteq 1 .. MaxEpoch
      /\ \A e \in DOMAIN history : e <= fence.counter
  BY HostLeaseAssumption DEF LeaseInv, LeaseTypeOK
<1> DEFINE epochs == {fence.counter} \cup DOMAIN history
<1>2. fence.counter \in epochs /\ \A e \in epochs : e <= fence.counter
  BY <1>1
<1>3. \A c \in epochs : (\A e \in epochs : e <= c) => c = fence.counter
  <2> TAKE c \in epochs
  <2> HAVE \A e \in epochs : e <= c
  <2>1. fence.counter <= c /\ c <= fence.counter
    BY <1>2
  <2>2. c \in Nat /\ fence.counter \in Nat
    BY <1>1
  <2> QED
    BY <2>1, <2>2
<1>4. EpochCounter \in epochs /\ \A e \in epochs : e <= EpochCounter
  <2> HIDE DEF epochs
  <2> DEFINE newest == CHOOSE c \in epochs : \A e \in epochs : e <= c
  <2>1. newest \in epochs /\ \A e \in epochs : e <= newest
    BY <1>2, Zenon
  <2>2. EpochCounter = newest
    BY DEF EpochCounter, epochs
  <2> QED
    BY <2>1, <2>2
<1> QED
  BY <1>3, <1>4

LEMMA LeaseInitially ==
    ASSUME LeaseInit
    PROVE  LeaseInv
BY HostLeaseAssumption DEF LeaseInit, LeaseInv, LeaseTypeOK, OneLiveLease, NoFence, NoLease, AuthorityState

\* The row types, by field, for the leaves below.
LEMMA LeaseFields ==
    ASSUME LeaseTypeOK
    PROVE  /\ fence.state \in AuthorityState /\ fence.generation \in 0 .. MaxAuthority
           /\ fence.counter \in 0 .. MaxEpoch /\ fence.instance \in Instances \cup {None}
           /\ lease.epoch \in 0 .. MaxEpoch /\ lease.generation \in 0 .. MaxAuthority
           /\ lease.instance \in Instances \cup {None} /\ lease.expires \in Nat
           /\ lease.sequence \in Nat /\ lease.revoked \in BOOLEAN
           /\ \A e \in DOMAIN history :
                 /\ history[e] \in [expires : Nat, revoked : BOOLEAN]
                 /\ history[e].expires \in Nat /\ history[e].revoked \in BOOLEAN
BY DEF LeaseTypeOK

\* Generations and epochs are numbers, and the lease is no newer than the fence.
LEMMA LeaseNumbers ==
    ASSUME LeaseInv
    PROVE  /\ fence.generation \in Nat /\ lease.epoch \in Nat /\ fence.counter \in Nat
           /\ lease.epoch <= fence.counter
<1>1. LeaseTypeOK /\ lease.epoch <= fence.counter
  BY DEF LeaseInv
<1> QED
  BY <1>1, LeaseFields, HostLeaseAssumption

\* A counter that grows by one changes.
LEMMA GrowsMeansChanges == \A m, n \in Nat : m = n \/ m <= n => n + 1 # m
OBVIOUS

\* A history row with one field replaced.
LEMMA HistoryRow ==
    ASSUME NEW r \in [expires : Nat, revoked : BOOLEAN], NEW x
    PROVE  /\ [r EXCEPT !.revoked = TRUE] = [expires |-> r.expires, revoked |-> TRUE]
           /\ [r EXCEPT !.expires = x] = [expires |-> x, revoked |-> r.revoked]
<1>1. r = [expires |-> r.expires, revoked |-> r.revoked]
  OBVIOUS
<1>2. [r EXCEPT !.revoked = TRUE] = [expires |-> r.expires, revoked |-> TRUE]
  <2>1. \A b : [r EXCEPT !.revoked = b] = [expires |-> r.expires, revoked |-> b]
    BY <1>1
  <2> QED
    BY <2>1, Zenon
<1>3. [r EXCEPT !.expires = x] = [expires |-> x, revoked |-> r.revoked]
  BY <1>1
<1> QED
  BY <1>2, <1>3

\* Every lease step keeps the invariant.
LEMMA LeaseStep ==
    ASSUME LeaseInv, LeaseNext
    PROVE  LeaseInv'
<1> USE HostLeaseAssumption
<1>0. EpochCounter = fence.counter
  BY CounterIsNewest
<1>f. LeaseTypeOK
  BY DEF LeaseInv
<1>g. /\ fence.state \in AuthorityState /\ fence.generation \in 0 .. MaxAuthority
      /\ fence.counter \in 0 .. MaxEpoch /\ fence.instance \in Instances \cup {None}
      /\ lease.epoch \in 0 .. MaxEpoch /\ lease.generation \in 0 .. MaxAuthority
      /\ lease.instance \in Instances \cup {None} /\ lease.expires \in Nat
      /\ lease.sequence \in Nat /\ lease.revoked \in BOOLEAN
      /\ \A e \in DOMAIN history :
            /\ history[e] \in [expires : Nat, revoked : BOOLEAN]
            /\ history[e].expires \in Nat /\ history[e].revoked \in BOOLEAN
  BY <1>f, LeaseFields
<1>h. /\ DOMAIN history \subseteq 1 .. MaxEpoch
      /\ history \in [DOMAIN history -> [expires : Nat, revoked : BOOLEAN]]
      /\ clock \in Nat
      /\ fence = [state |-> fence.state, generation |-> fence.generation,
                  counter |-> fence.counter, instance |-> fence.instance]
      /\ lease = [epoch |-> lease.epoch, generation |-> lease.generation,
                  instance |-> lease.instance, expires |-> lease.expires,
                  sequence |-> lease.sequence, revoked |-> lease.revoked]
  BY <1>f DEF LeaseTypeOK
<1>i. /\ OneLiveLease
      /\ lease.epoch <= fence.counter
      /\ \A e \in DOMAIN history : e <= fence.counter
      /\ ~lease.revoked => lease.epoch \in DOMAIN history /\ ~history[lease.epoch].revoked
  BY DEF LeaseInv
\* Revocation of one epoch, in the history and, if it is there, in the row.
<1> DEFINE rev(h, e) == [x \in DOMAIN h |-> IF x = e THEN [h[x] EXCEPT !.revoked = TRUE] ELSE h[x]]
<1>r. ASSUME NEW e, NEW h, h \in [DOMAIN h -> [expires : Nat, revoked : BOOLEAN]]
      PROVE  /\ rev(h, e) \in [DOMAIN h -> [expires : Nat, revoked : BOOLEAN]]
             /\ DOMAIN rev(h, e) = DOMAIN h
             /\ e \in DOMAIN h => rev(h, e)[e].revoked
             /\ \A x \in DOMAIN h : x # e => rev(h, e)[x] = h[x]
  <2>1. \A x \in DOMAIN h : h[x] \in [expires : Nat, revoked : BOOLEAN]
    BY <1>r
  <2>2. \A x \in DOMAIN h : [h[x] EXCEPT !.revoked = TRUE] = [expires |-> h[x].expires, revoked |-> TRUE]
    BY <2>1, HistoryRow
  <2>3. \A x \in DOMAIN h : rev(h, e)[x] \in [expires : Nat, revoked : BOOLEAN]
    BY <2>1, <2>2, ZenonT(20)
  <2> QED
    BY <2>2, <2>3
<1> HIDE DEF rev
<1>1. ASSUME NEW i \in Instances, RotateFence(i)
      PROVE  LeaseInv'
  <2>1. /\ fence' = [state |-> "FENCE_REQUIRED", generation |-> fence.generation + 1,
                     counter |-> fence.counter, instance |-> i]
        /\ fence.generation + 1 \in 0 .. MaxAuthority
        /\ clock' = clock
    BY <1>0, <1>1, <1>g DEF RotateFence
  <2>2. lease' = [epoch |-> lease.epoch, generation |-> lease.generation,
                  instance |-> lease.instance, expires |-> lease.expires,
                  sequence |-> lease.sequence, revoked |-> TRUE]
    BY <1>1, <1>h, ZenonT(20) DEF RotateFence
  <2>3. history' = rev(history, lease.epoch)
    BY <1>1 DEF RotateFence, Revoked, rev
  <2>4. LeaseTypeOK'
    <3> HIDE DEF rev
    <3>1. "FENCE_REQUIRED" \in AuthorityState /\ TRUE \in BOOLEAN
      BY DEF AuthorityState
    <3> QED
      BY <1>g, <1>h, <1>r, <2>1, <2>2, <2>3, <3>1 DEF LeaseTypeOK
  <2>5. \A e \in DOMAIN history' : history'[e].revoked
    BY <1>g, <1>h, <1>i, <1>r, <2>3 DEF OneLiveLease
  <2> QED
    BY <1>h, <1>i, <1>r, <2>1, <2>2, <2>3, <2>4, <2>5 DEF LeaseInv, OneLiveLease
<1>2. ASSUME NEW g \in 1 .. MaxAuthority, AcceptFence(g)
      PROVE  LeaseInv'
  <2>1. fence' = [state |-> "READY", generation |-> fence.generation,
                  counter |-> fence.counter, instance |-> fence.instance]
    BY <1>2, <1>h DEF AcceptFence
  <2>2. lease' = lease /\ history' = history /\ clock' = clock
    BY <1>2 DEF AcceptFence
  <2>3. LeaseTypeOK'
    <3>1. "READY" \in AuthorityState
      BY DEF AuthorityState
    <3> QED
      BY <1>f, <1>g, <2>1, <2>2, <3>1 DEF LeaseTypeOK
  <2> QED
    BY <1>i, <2>1, <2>2, <2>3 DEF LeaseInv, OneLiveLease
<1>3. ASSUME NEW g \in 1 .. MaxAuthority, IssueLease(g)
      PROVE  LeaseInv'
  <2> DEFINE epoch == fence.counter + 1
             expires == clock + Ttl
  <2>1. /\ fence.state = "READY" /\ g = fence.generation
        /\ epoch \in 1 .. MaxEpoch /\ expires \in Nat /\ clock' = clock
    BY <1>0, <1>3, <1>g, <1>h DEF IssueLease, CurrentFence
  <2>2. fence' = [state |-> "READY", generation |-> fence.generation,
                  counter |-> epoch, instance |-> fence.instance]
    BY <1>0, <1>3, <1>h, <2>1 DEF IssueLease
  <2>3. lease' = [epoch |-> epoch, generation |-> g, instance |-> fence.instance,
                  expires |-> expires, sequence |-> 0, revoked |-> FALSE]
    BY <1>0, <1>3 DEF IssueLease
  <2> DEFINE old == rev(Kept, lease.epoch)
  <2>4. history' = Row(old, epoch, [expires |-> expires, revoked |-> FALSE])
    BY <1>0, <1>3 DEF IssueLease, Revoked, rev
  <2>5. /\ Kept \in [DOMAIN Kept -> [expires : Nat, revoked : BOOLEAN]]
        /\ DOMAIN Kept \subseteq 1 .. MaxEpoch
        /\ \A e \in DOMAIN Kept : e <= fence.counter
        /\ \A e \in DOMAIN Kept : e # lease.epoch => e \in DOMAIN history /\ Kept[e] = history[e]
    BY <1>g, <1>h, <1>i DEF Kept, Row
  <2>6. /\ old \in [DOMAIN Kept -> [expires : Nat, revoked : BOOLEAN]]
        /\ DOMAIN old = DOMAIN Kept
        /\ \A e \in DOMAIN old : old[e].revoked
    BY <1>g, <1>i, <1>r, <2>5 DEF OneLiveLease
  <2> HIDE DEF old
  <2>7. /\ DOMAIN history' = DOMAIN Kept \cup {epoch}
        /\ history'[epoch] = [expires |-> expires, revoked |-> FALSE]
        /\ \A e \in DOMAIN Kept : e # epoch => history'[e] = old[e]
        /\ history' \in [DOMAIN Kept \cup {epoch} -> [expires : Nat, revoked : BOOLEAN]]
    BY <2>1, <2>4, <2>6 DEF Row
  <2>8. LeaseTypeOK'
    <3>1. "READY" \in AuthorityState /\ g \in 0 .. MaxAuthority /\ epoch \in 0 .. MaxEpoch
      BY <1>h, <2>1 DEF AuthorityState
    <3> QED
      BY <1>g, <1>h, <2>1, <2>2, <2>3, <2>5, <2>7, <3>1 DEF LeaseTypeOK
  <2>9. \A e \in DOMAIN history' : ~history'[e].revoked => e = epoch
    BY <2>6, <2>7
  <2>10. \A e \in DOMAIN history' : e <= epoch
    BY <1>g, <2>1, <2>5, <2>7
  <2>11. OneLiveLease'
    BY <2>1, <2>2, <2>3, <2>7, <2>9 DEF OneLiveLease
  <2> QED
    BY <1>g, <2>1, <2>2, <2>3, <2>7, <2>8, <2>10, <2>11 DEF LeaseInv
<1>4. ASSUME NEW d \in Document, NEW n \in 1 .. MaxTick, RenewLease(d, n)
      PROVE  LeaseInv'
  <2>1. /\ ~lease.revoked /\ lease.epoch \in DOMAIN history /\ fence' = fence
        /\ clock' = IF clock + RenewalInterval + Ttl >= lease.expires
                     THEN clock + RenewalInterval ELSE lease.expires - Ttl
    BY <1>4 DEF RenewLease, ValidLease
  <2>2. clock' \in Nat /\ clock' + Ttl \in Nat
    BY <1>g, <1>h, <2>1
  <2>3. lease' = [epoch |-> lease.epoch, generation |-> lease.generation,
                  instance |-> lease.instance, expires |-> clock' + Ttl,
                  sequence |-> n, revoked |-> lease.revoked]
    BY <1>4, <1>h, ZenonT(20) DEF RenewLease
  <2>4. history' = [history EXCEPT ![lease.epoch] = [expires |-> clock' + Ttl, revoked |-> history[lease.epoch].revoked]]
    <3>1. [history[lease.epoch] EXCEPT !.expires = clock' + Ttl]
             = [expires |-> clock' + Ttl, revoked |-> history[lease.epoch].revoked]
      BY <1>g, <2>1, HistoryRow
    <3>2. history' = [history EXCEPT ![lease.epoch].expires = clock' + Ttl]
      BY <1>4 DEF RenewLease
    <3> QED
      BY <3>1, <3>2, <1>h, Zenon
  <2>5. /\ DOMAIN history' = DOMAIN history
        /\ history'[lease.epoch] = [expires |-> clock' + Ttl, revoked |-> history[lease.epoch].revoked]
        /\ \A e \in DOMAIN history : e # lease.epoch => history'[e] = history[e]
        /\ history' \in [DOMAIN history -> [expires : Nat, revoked : BOOLEAN]]
    BY <1>g, <1>h, <2>1, <2>2, <2>4
  <2>6. LeaseTypeOK'
    BY <1>f, <1>g, <1>h, <2>1, <2>2, <2>3, <2>5 DEF LeaseTypeOK
  <2>7. OneLiveLease'
    BY <1>i, <2>1, <2>3, <2>5 DEF OneLiveLease
  <2> QED
    BY <1>i, <2>1, <2>3, <2>5, <2>6, <2>7 DEF LeaseInv
<1>5. ASSUME NEW e \in 1 .. MaxEpoch, RevokeLease(e)
      PROVE  LeaseInv'
  <2>1. fence' = fence /\ clock' = clock /\ history' = rev(history, e)
    BY <1>5 DEF RevokeLease, rev
  <2>2. lease' = [epoch |-> lease.epoch, generation |-> lease.generation,
                  instance |-> lease.instance, expires |-> lease.expires,
                  sequence |-> lease.sequence, revoked |-> (lease.revoked \/ e = lease.epoch)]
    BY <1>5, <1>g, <1>h, ZenonT(20) DEF RevokeLease
  <2>3. LeaseTypeOK'
    BY <1>f, <1>g, <1>h, <1>r, <2>1, <2>2 DEF LeaseTypeOK
  <2>4. OneLiveLease'
    BY <1>h, <1>i, <1>r, <2>1, <2>2 DEF OneLiveLease
  <2>5. ~lease'.revoked => lease'.epoch \in DOMAIN history' /\ ~history'[lease'.epoch].revoked
    <3> SUFFICES ASSUME ~lease'.revoked
                 PROVE  lease.epoch \in DOMAIN history' /\ ~history'[lease.epoch].revoked
      BY <2>2
    <3>1. ~lease.revoked /\ e # lease.epoch
      BY <2>2, ZenonT(20)
    <3> QED
      BY <1>h, <1>i, <1>r, <2>1, <3>1
  <2>6. DOMAIN history' = DOMAIN history
    BY <1>h, <1>r, <2>1
  <2> QED
    BY <1>i, <2>1, <2>2, <2>3, <2>4, <2>5, <2>6 DEF LeaseInv
<1>6. ASSUME RestartLease
      PROVE  LeaseInv'
  <2>1. /\ fence' = [state |-> IF fence.state = "ABSENT" THEN "ABSENT" ELSE "RESTART_REQUIRED",
                     generation |-> fence.generation, counter |-> fence.counter,
                     instance |-> fence.instance]
        /\ clock' = clock /\ history' = rev(Kept, lease.epoch)
    BY <1>0, <1>6, <1>h, ZenonT(20) DEF RestartLease, Revoked, rev
  <2>2. lease' = [epoch |-> lease.epoch, generation |-> lease.generation,
                  instance |-> lease.instance, expires |-> lease.expires,
                  sequence |-> lease.sequence, revoked |-> TRUE]
    BY <1>6, <1>h, ZenonT(20) DEF RestartLease
  <2>3. /\ Kept \in [DOMAIN Kept -> [expires : Nat, revoked : BOOLEAN]]
        /\ DOMAIN Kept \subseteq 1 .. MaxEpoch
        /\ \A e \in DOMAIN Kept : e <= fence.counter
        /\ \A e \in DOMAIN Kept : e # lease.epoch => e \in DOMAIN history /\ Kept[e] = history[e]
    BY <1>g, <1>h, <1>i DEF Kept, Row
  <2>4. /\ history' \in [DOMAIN Kept -> [expires : Nat, revoked : BOOLEAN]]
        /\ DOMAIN history' = DOMAIN Kept
        /\ \A e \in DOMAIN history' : history'[e].revoked
    BY <1>g, <1>i, <1>r, <2>1, <2>3 DEF OneLiveLease
  <2>5. LeaseTypeOK'
    <3>1. (IF fence.state = "ABSENT" THEN "ABSENT" ELSE "RESTART_REQUIRED") \in AuthorityState
      BY DEF AuthorityState
    <3> QED
      BY <1>f, <1>g, <1>h, <2>1, <2>2, <2>3, <2>4, <3>1 DEF LeaseTypeOK
  <2> QED
    BY <1>i, <2>1, <2>2, <2>3, <2>4, <2>5 DEF LeaseInv, OneLiveLease
<1>7. ASSUME UNCHANGED leaseVars
      PROVE  LeaseInv'
  BY <1>7 DEF leaseVars, LeaseInv, LeaseTypeOK, OneLiveLease
<1> QED
  BY <1>1, <1>2, <1>3, <1>4, <1>5, <1>6, <1>7 DEF LeaseNext

-----------------------------------------------------------------------------
(* The recovery journal. *)

Ticket == [epoch : 0 .. MaxEpoch, generation : 0 .. MaxAuthority, deadline : Nat]
OperationRow ==
    [state : OperationState, epoch : 0 .. MaxEpoch, generation : 0 .. MaxAuthority,
     ticket : Ticket, witness : BOOLEAN]

JournalPlace == {"mutated", "receipted", "settled"}

\* A witnessed operation has left the queue's states, its ticket is of no later
\* lease than the current one, and a tick in hand has committed what it says.
JournalInv ==
    /\ JournalTypeOK
    /\ ClaimsAreBacked
    /\ DispatchedIsQueued
    /\ EffectsFollowEpochs
    /\ \A o \in Operations :
          operations[o].witness => operations[o].state \in {"UNKNOWN", "SETTLED", "RECONCILED"}
    /\ \A o \in Operations : operations[o].ticket.epoch <= lease.epoch
    /\ \A o \in Operations :
          /\ At("mutated", o) => operations[o].state = "UNKNOWN" /\ operations[o].witness
          /\ At("receipted", o) =>
                operations[o].state = "UNKNOWN" /\ operations[o].witness /\ o \in receipts
          /\ At("settled", o) => operations[o].state = "SETTLED" /\ operations[o].witness

\* A step of another part: no tick is in hand afterwards, and the journal is
\* left alone or its dispatched operations become uncertain.
OutsideJournal ==
    /\ \A o \in Operations : \A place \in JournalPlace : ~At(place, o)'
    /\ lease.epoch <= lease'.epoch
    /\ JournalUncertain \/ UNCHANGED journalVars

InsideJournal ==
    /\ UNCHANGED leaseVars
    /\ Intent \/ Dispatch \/ Reconcile \/ TickRefused \/ Tick \/ TickOn

\* An operation row and its updates.
LEMMA OperationRows ==
    ASSUME NEW r \in OperationRow
    PROVE  /\ r.state \in OperationState /\ r.epoch \in 0 .. MaxEpoch
           /\ r.generation \in 0 .. MaxAuthority /\ r.ticket \in Ticket
           /\ r.ticket.epoch \in 0 .. MaxEpoch /\ r.witness \in BOOLEAN
           /\ r = [state |-> r.state, epoch |-> r.epoch, generation |-> r.generation,
                   ticket |-> r.ticket, witness |-> r.witness]
BY DEF OperationRow, Ticket

LEMMA OperationRowTyped ==
    ASSUME NEW st \in OperationState, NEW e \in 0 .. MaxEpoch, NEW g \in 0 .. MaxAuthority,
           NEW t \in Ticket, NEW w \in BOOLEAN
    PROVE  [state |-> st, epoch |-> e, generation |-> g, ticket |-> t, witness |-> w] \in OperationRow
BY DEF OperationRow

LEMMA IntendedRow ==
    ASSUME NEW r \in OperationRow, NEW st, NEW e, NEW g
    PROVE  [r EXCEPT !.state = st, !.epoch = e, !.generation = g]
         = [state |-> st, epoch |-> e, generation |-> g,
            ticket |-> r.ticket, witness |-> r.witness]
<1>1. PICK q : q = [r EXCEPT !.state = st, !.epoch = e, !.generation = g]
  BY Zenon
<1>2. q = [state |-> st, epoch |-> e, generation |-> g,
            ticket |-> r.ticket, witness |-> r.witness]
  BY <1>1, ZenonT(20) DEF OperationRow
<1> QED
  BY <1>1, <1>2, Zenon

LEMMA SentRow ==
    ASSUME NEW r \in OperationRow, NEW st, NEW t
    PROVE  [r EXCEPT !.state = st, !.ticket = t]
         = [state |-> st, epoch |-> r.epoch, generation |-> r.generation,
            ticket |-> t, witness |-> r.witness]
<1>1. PICK q : q = [r EXCEPT !.state = st, !.ticket = t]
  BY Zenon
<1>2. q = [state |-> st, epoch |-> r.epoch, generation |-> r.generation,
            ticket |-> t, witness |-> r.witness]
  BY <1>1, ZenonT(20) DEF OperationRow
<1> QED
  BY <1>1, <1>2, Zenon

LEMMA WitnessedRow ==
    ASSUME NEW r \in OperationRow, NEW st, NEW w
    PROVE  [r EXCEPT !.state = st, !.witness = w]
         = [state |-> st, epoch |-> r.epoch, generation |-> r.generation,
            ticket |-> r.ticket, witness |-> w]
<1>1. PICK q : q = [r EXCEPT !.state = st, !.witness = w]
  BY Zenon
<1>2. q = [state |-> st, epoch |-> r.epoch, generation |-> r.generation,
            ticket |-> r.ticket, witness |-> w]
  BY <1>1, ZenonT(20) DEF OperationRow
<1> QED
  BY <1>1, <1>2, Zenon

LEMMA StateSet ==
    ASSUME NEW r \in OperationRow, NEW st \in OperationState
    PROVE  /\ [r EXCEPT !.state = st] \in OperationRow
           /\ [r EXCEPT !.state = st].state = st
           /\ [r EXCEPT !.state = st].ticket = r.ticket
           /\ [r EXCEPT !.state = st].witness = r.witness
<1>1. [r EXCEPT !.state = st]
         = [state |-> st, epoch |-> r.epoch, generation |-> r.generation,
            ticket |-> r.ticket, witness |-> r.witness]
  BY OperationRows
<1> QED
  BY <1>1, OperationRows, OperationRowTyped

\* A table with the state of one row replaced.
LEMMA TableStateSet ==
    ASSUME NEW T \in [Operations -> OperationRow], NEW o \in Operations,
           NEW st \in OperationState
    PROVE  /\ [T EXCEPT ![o].state = st] \in [Operations -> OperationRow]
           /\ [T EXCEPT ![o].state = st][o].state = st
           /\ [T EXCEPT ![o].state = st][o].ticket = T[o].ticket
           /\ [T EXCEPT ![o].state = st][o].witness = T[o].witness
           /\ \A x \in Operations \ {o} : [T EXCEPT ![o].state = st][x] = T[x]
<1>1. T[o] \in OperationRow
  OBVIOUS
<1> DEFINE row == [T[o] EXCEPT !.state = st]
<1>2. /\ row \in OperationRow
      /\ row.state = st /\ row.ticket = T[o].ticket /\ row.witness = T[o].witness
  BY <1>1, StateSet
<1>3. [T EXCEPT ![o].state = st] = [T EXCEPT ![o] = row]
  OBVIOUS
<1> HIDE DEF row
<1> QED
  BY <1>2, <1>3

\* The effects table after an insertion.
LEMMA EffectAppended ==
    ASSUME effects \in Seq(Operations), NEW o \in Operations, effects' = Append(effects, o)
    PROVE  /\ effects' \in Seq(Operations)
           /\ Len(effects') = Len(effects) + 1
           /\ \A n \in 1 .. Len(effects) : effects'[n] = effects[n]
           /\ effects'[Len(effects) + 1] = o
           /\ \A x \in Operations : HasEffect(x)' <=> HasEffect(x) \/ x = o
<1>1. Len(effects) \in Nat
  OBVIOUS
<1>2. /\ effects' \in Seq(Operations)
      /\ Len(effects') = Len(effects) + 1
      /\ \A n \in 1 .. Len(effects) : effects'[n] = effects[n]
      /\ effects'[Len(effects) + 1] = o
  OBVIOUS
<1> QED
  BY <1>1, <1>2 DEF HasEffect

LEMMA JournalInitially ==
    ASSUME HostInit
    PROVE  JournalInv
<1> USE HostLeaseAssumption
<1>1. NoTicket \in Ticket /\ "ABSENT" \in OperationState /\ FALSE \in BOOLEAN
  BY DEF NoTicket, Ticket, OperationState
<1>2. /\ Absent \in OperationRow /\ Absent.state = "ABSENT" /\ ~Absent.witness
      /\ Absent.ticket.epoch = 0
  <2>1. 0 \in 0 .. MaxEpoch /\ 0 \in 0 .. MaxAuthority
    OBVIOUS
  <2>2. Absent \in OperationRow
    BY <1>1, <2>1, OperationRowTyped, ZenonT(20) DEF Absent
  <2>3. Absent.state = "ABSENT" /\ ~Absent.witness /\ Absent.ticket = NoTicket
    BY DEF Absent
  <2> QED
    BY <2>2, <2>3 DEF NoTicket
<1>3. /\ operations = [o \in Operations |-> Absent] /\ queue = {} /\ effects = <<>> /\ receipts = {}
      /\ handler = [at |-> "idle", of |-> None] /\ lease.epoch = 0
  BY DEF HostInit, JournalInit, LeaseInit, NoLease, Idle
<1>4. JournalTypeOK
  BY <1>2, <1>3 DEF JournalTypeOK, OperationRow, Ticket
<1>5. ~\E n \in 1 .. Len(effects) : TRUE
  BY <1>3
<1>6. \A o \in Operations : ~HasEffect(o)
  BY <1>5 DEF HasEffect
<1>7. ClaimsAreBacked /\ DispatchedIsQueued /\ EffectsFollowEpochs
  BY <1>2, <1>3, <1>5, <1>6 DEF ClaimsAreBacked, DispatchedIsQueued, EffectsFollowEpochs, InState
<1> QED
  BY <1>2, <1>3, <1>4, <1>7 DEF JournalInv, At

\* A step of another part keeps the journal's invariant.
LEMMA JournalOutsideStep ==
    ASSUME JournalInv, LeaseInv, LeaseInv', OutsideJournal
    PROVE  JournalInv'
<1>1. /\ operations \in [Operations -> OperationRow] /\ queue \subseteq Operations
      /\ receipts \subseteq Operations /\ effects \in Seq(Operations)
  BY DEF JournalInv, JournalTypeOK, OperationRow, Ticket
<1>2. \A o \in Operations :
         operations[o] \in OperationRow /\ operations[o].ticket.epoch \in 0 .. MaxEpoch
  BY <1>1, OperationRows
<1>3. lease.epoch \in Nat /\ lease'.epoch \in Nat
  BY HostLeaseAssumption DEF LeaseInv, LeaseTypeOK
<1>4. /\ \A o \in Operations : operations[o].ticket.epoch <= lease'.epoch
      /\ \A o \in Operations : ~At("mutated", o)' /\ ~At("receipted", o)' /\ ~At("settled", o)'
  BY HostLeaseAssumption, <1>2, <1>3 DEF JournalInv, OutsideJournal, JournalPlace
<1>5. CASE UNCHANGED journalVars
  <2>1. operations' = operations /\ queue' = queue /\ effects' = effects /\ receipts' = receipts
    BY <1>5 DEF journalVars
  <2>2. JournalTypeOK' /\ ClaimsAreBacked' /\ DispatchedIsQueued' /\ EffectsFollowEpochs'
    BY <2>1 DEF JournalInv, JournalTypeOK, ClaimsAreBacked, DispatchedIsQueued,
                EffectsFollowEpochs, InState, HasEffect
  <2> QED
    BY <1>4, <2>1, <2>2 DEF JournalInv
<1>6. CASE JournalUncertain
  <2>1. /\ operations' = [o \in Operations |-> Uncertain(operations[o])]
        /\ queue' = {o \in queue : operations'[o].state # "UNKNOWN"}
        /\ effects' = effects /\ receipts' = receipts
    BY <1>6 DEF JournalUncertain
  <2>2. \A o \in Operations :
           /\ operations'[o] \in OperationRow
           /\ operations'[o].ticket = operations[o].ticket
           /\ operations'[o].witness = operations[o].witness
           /\ operations'[o].state = IF operations[o].state = "MAY_HAVE_BEEN_DISPATCHED"
                                     THEN "UNKNOWN" ELSE operations[o].state
    <3>1. "UNKNOWN" \in OperationState
      BY DEF OperationState
    <3> QED
      BY <1>2, <2>1, <3>1, StateSet DEF Uncertain
  <2>3. operations' \in [Operations -> OperationRow]
    BY <2>1, <2>2
  <2>4. JournalTypeOK'
    BY <1>1, <2>1, <2>3 DEF JournalTypeOK, OperationRow, Ticket
  <2>5. \A o \in Operations : HasEffect(o)' <=> HasEffect(o)
    BY <2>1 DEF HasEffect
  <2>6. ClaimsAreBacked'
    BY <1>1, <2>1, <2>2, <2>5 DEF JournalInv, ClaimsAreBacked, InState
  <2>7. DispatchedIsQueued'
    BY <1>1, <2>1, <2>2 DEF JournalInv, DispatchedIsQueued, InState
  <2>8. EffectsFollowEpochs'
    BY <1>1, <2>1, <2>2 DEF JournalInv, EffectsFollowEpochs
  <2>9. \A o \in Operations :
           operations'[o].witness => operations'[o].state \in {"UNKNOWN", "SETTLED", "RECONCILED"}
    BY <2>2 DEF JournalInv
  <2> QED
    BY <1>4, <2>2, <2>4, <2>6, <2>7, <2>8, <2>9 DEF JournalInv
<1> QED
  BY <1>5, <1>6 DEF OutsideJournal

\* The journal's own steps: the row of o gets a new state and nothing else of
\* operations changes; effects stay.
LEMMA JournalStateStep ==
    ASSUME JournalInv, UNCHANGED leaseVars, UNCHANGED effects, NEW o \in Operations,
           NEW st \in OperationState,
           operations' = [operations EXCEPT ![o].state = st]
    PROVE  /\ operations' \in [Operations -> OperationRow]
           /\ operations'[o].state = st /\ operations'[o].witness = operations[o].witness
           /\ \A x \in Operations \ {o} : operations'[x] = operations[x]
           /\ \A x \in Operations : HasEffect(x)' <=> HasEffect(x)
           /\ \A x \in Operations : operations'[x].ticket = operations[x].ticket
           /\ \A x \in Operations : operations'[x].ticket.epoch <= lease'.epoch
           /\ \A x \in Operations : operations'[x].witness = operations[x].witness
           /\ EffectsFollowEpochs'
<1>1. operations \in [Operations -> OperationRow] /\ effects \in Seq(Operations)
  BY DEF JournalInv, JournalTypeOK, OperationRow, Ticket
<1>2. /\ operations' \in [Operations -> OperationRow]
      /\ operations'[o].state = st /\ operations'[o].ticket = operations[o].ticket
      /\ operations'[o].witness = operations[o].witness
      /\ \A x \in Operations \ {o} : operations'[x] = operations[x]
  BY <1>1, TableStateSet
<1>3. \A x \in Operations : operations'[x].ticket = operations[x].ticket
                           /\ operations'[x].witness = operations[x].witness
  BY <1>2
<1>4. \A x \in Operations : HasEffect(x)' <=> HasEffect(x)
  BY DEF HasEffect
<1>5. \A x \in Operations : operations'[x].ticket.epoch <= lease'.epoch
  BY <1>3 DEF JournalInv, leaseVars
<1>6. EffectsFollowEpochs'
  BY <1>1, <1>3 DEF JournalInv, EffectsFollowEpochs
<1> QED
  BY <1>2, <1>3, <1>4, <1>5, <1>6

\* Every step of the journal keeps its invariant.
LEMMA JournalInsideStep ==
    ASSUME JournalInv, LeaseInv, InsideJournal
    PROVE  JournalInv'
<1> USE HostLeaseAssumption
<1>0. /\ operations \in [Operations -> OperationRow] /\ queue \subseteq Operations
      /\ receipts \subseteq Operations /\ effects \in Seq(Operations)
  BY DEF JournalInv, JournalTypeOK, OperationRow, Ticket
<1>l. /\ UNCHANGED leaseVars /\ lease' = lease
      /\ lease.epoch \in 0 .. MaxEpoch /\ lease.expires \in Nat
  BY DEF InsideJournal, leaseVars, LeaseInv, LeaseTypeOK
<1>s. {"ABSENT", "INTENT_RECORDED", "MAY_HAVE_BEEN_DISPATCHED", "UNKNOWN", "SETTLED", "RECONCILED"}
         \subseteq OperationState
  BY DEF OperationState
<1>w. \A x \in Operations :
         /\ operations[x] \in OperationRow
         /\ operations[x].state \in OperationState /\ operations[x].witness \in BOOLEAN
         /\ operations[x].ticket \in Ticket /\ operations[x].ticket.epoch \in 0 .. MaxEpoch
         /\ operations[x].epoch \in 0 .. MaxEpoch /\ operations[x].generation \in 0 .. MaxAuthority
         /\ operations[x] = [state |-> operations[x].state, epoch |-> operations[x].epoch,
                             generation |-> operations[x].generation,
                             ticket |-> operations[x].ticket, witness |-> operations[x].witness]
  BY <1>0, OperationRows
<1>c. /\ \A x \in Operations : operations[x].witness <=> HasEffect(x)
      /\ \A x \in receipts : HasEffect(x)
      /\ \A x \in Operations : operations[x].state = "SETTLED" => x \in receipts
      /\ \A x \in Operations : operations[x].state = "RECONCILED" => HasEffect(x)
      /\ \A x \in Operations : operations[x].state = "MAY_HAVE_BEEN_DISPATCHED" => x \in queue
      /\ \A x \in queue : operations[x].state = "MAY_HAVE_BEEN_DISPATCHED" \/ operations[x].witness
      /\ \A x \in Operations :
            operations[x].witness => operations[x].state \in {"UNKNOWN", "SETTLED", "RECONCILED"}
      /\ \A x \in Operations : operations[x].ticket.epoch <= lease.epoch
  BY DEF JournalInv, ClaimsAreBacked, DispatchedIsQueued, InState
<1>a. \A place, x : At(place, x)' <=> handler' = [at |-> place, of |-> x]
  BY DEF At
<1>1. ASSUME Intent
      PROVE  JournalInv'
  <2>1. PICK o \in Operations, d \in Document : Rest /\ RecordIntent(o, d)
    BY <1>1 DEF Intent
  <2> DEFINE row == [state |-> "INTENT_RECORDED", epoch |-> d.epoch, generation |-> d.generation,
                     ticket |-> operations[o].ticket, witness |-> operations[o].witness]
  <2>2. /\ operations[o].state = "ABSENT"
        /\ queue' = queue /\ effects' = effects /\ receipts' = receipts
        /\ handler' = [at |-> "idle", of |-> None]
    BY <2>1 DEF RecordIntent, Rest, Idle
  <2>3. operations' = [operations EXCEPT ![o] = row]
    <3>1. [operations[o] EXCEPT !.state = "INTENT_RECORDED", !.epoch = d.epoch,
                               !.generation = d.generation] = row
      BY <1>0, IntendedRow, Zenon
    <3> HIDE DEF row
    <3> QED
      BY <2>1, <3>1, Zenon DEF RecordIntent
  <2>4. row \in OperationRow
    <3>1. d.epoch \in 0 .. MaxEpoch /\ d.generation \in 0 .. MaxAuthority
      BY DEF Document
    <3> QED
      BY <1>s, <1>w, <3>1, OperationRowTyped, ZenonT(20)
  <2>5. row.state = "INTENT_RECORDED" /\ row.ticket = operations[o].ticket /\ row.witness = operations[o].witness
    OBVIOUS
  <2> HIDE DEF row
  <2>6. /\ operations' \in [Operations -> OperationRow]
        /\ operations'[o] = row
        /\ \A x \in Operations \ {o} : operations'[x] = operations[x]
    BY <1>0, <2>3, <2>4
  <2>7. \A x \in Operations : HasEffect(x)' <=> HasEffect(x)
    BY <2>2 DEF HasEffect
  <2>8. JournalTypeOK'
    BY <1>0, <2>2, <2>6 DEF JournalTypeOK, OperationRow, Ticket
  <2>9. ~operations[o].witness
    BY <1>c, <2>2
  <2>10. ClaimsAreBacked'
    BY <1>0, <1>c, <2>2, <2>5, <2>6, <2>7, ZenonT(20) DEF ClaimsAreBacked, InState
  <2>11. DispatchedIsQueued'
    BY <1>0, <1>c, <2>2, <2>5, <2>6, <2>9 DEF DispatchedIsQueued, InState
  <2>12. \A x \in Operations : operations'[x].ticket = operations[x].ticket
    BY <2>5, <2>6
  <2>13. EffectsFollowEpochs'
    BY <1>0, <2>2, <2>12 DEF JournalInv, EffectsFollowEpochs
  <2>14. \A x \in Operations :
            operations'[x].witness => operations'[x].state \in {"UNKNOWN", "SETTLED", "RECONCILED"}
    BY <1>c, <2>5, <2>6, <2>9
  <2>15. \A x \in Operations : operations'[x].ticket.epoch <= lease'.epoch
    BY <1>c, <1>l, <2>12
  <2>16. \A x : ~At("mutated", x)' /\ ~At("receipted", x)' /\ ~At("settled", x)'
    BY <1>a, <2>2, ZenonT(20)
  <2> QED
    BY <2>8, <2>10, <2>11, <2>13, <2>14, <2>15, <2>16 DEF JournalInv
<1>2. ASSUME Dispatch
      PROVE  JournalInv'
  <2>1. PICK o \in Operations, d \in Document : Rest /\ DispatchOperation(o, d)
    BY <1>2 DEF Dispatch
  <2> DEFINE t == [epoch |-> d.epoch, generation |-> d.generation, deadline |-> lease.expires]
             row == [state |-> "MAY_HAVE_BEEN_DISPATCHED", epoch |-> operations[o].epoch,
                     generation |-> operations[o].generation, ticket |-> t,
                     witness |-> operations[o].witness]
  <2>2. /\ operations[o].state = "INTENT_RECORDED" /\ d.epoch = lease.epoch
        /\ queue' = queue \cup {o} /\ effects' = effects /\ receipts' = receipts
        /\ handler' = [at |-> "idle", of |-> None]
    BY <2>1 DEF DispatchOperation, ValidLease, Rest, Idle
  <2>3. operations' = [operations EXCEPT ![o] = row]
    <3>1. [operations[o] EXCEPT !.state = "MAY_HAVE_BEEN_DISPATCHED", !.ticket = t] = row
      <4> HIDE DEF t
      <4> QED
        BY <1>0, SentRow, Zenon
    <3> HIDE DEF row
    <3> QED
      BY <2>1, <3>1, Zenon DEF DispatchOperation
  <2>4. t \in Ticket /\ t.epoch = lease.epoch
    BY <1>l, <2>2 DEF Document, Ticket
  <2> HIDE DEF t
  <2>5. /\ row \in OperationRow /\ row.state = "MAY_HAVE_BEEN_DISPATCHED" /\ row.ticket = t
        /\ row.witness = operations[o].witness
    BY <1>s, <1>w, <2>4, OperationRowTyped, ZenonT(20)
  <2> HIDE DEF row
  <2>6. /\ operations' \in [Operations -> OperationRow]
        /\ operations'[o] = row
        /\ \A x \in Operations \ {o} : operations'[x] = operations[x]
    BY <1>0, <2>3, <2>5
  <2>7. \A x \in Operations : HasEffect(x)' <=> HasEffect(x)
    BY <2>2 DEF HasEffect
  <2>8. JournalTypeOK'
    BY <1>0, <2>2, <2>6 DEF JournalTypeOK, OperationRow, Ticket
  <2>9. ~operations[o].witness /\ ~HasEffect(o)
    BY <1>c, <2>2
  <2>10. ClaimsAreBacked'
    BY <1>0, <1>c, <2>2, <2>5, <2>6, <2>7 DEF ClaimsAreBacked, InState
  <2>11. DispatchedIsQueued'
    BY <1>0, <1>c, <2>2, <2>5, <2>6 DEF DispatchedIsQueued, InState
  <2>12. EffectsFollowEpochs'
    <3>1. \A n \in 1 .. Len(effects) : effects[n] \in Operations /\ effects[n] # o
      BY <1>0, <2>9 DEF HasEffect
    <3>2. \A n \in 1 .. Len(effects) : operations'[effects[n]] = operations[effects[n]]
      BY <2>6, <3>1
    <3> QED
      BY <2>2, <3>2 DEF JournalInv, EffectsFollowEpochs
  <2>13. \A x \in Operations :
            operations'[x].witness => operations'[x].state \in {"UNKNOWN", "SETTLED", "RECONCILED"}
    BY <1>c, <2>5, <2>6, <2>9
  <2>14. \A x \in Operations : operations'[x].ticket.epoch <= lease'.epoch
    BY <1>c, <1>l, <2>4, <2>5, <2>6
  <2>15. \A x : ~At("mutated", x)' /\ ~At("receipted", x)' /\ ~At("settled", x)'
    BY <1>a, <2>2, ZenonT(20)
  <2> QED
    BY <2>8, <2>10, <2>11, <2>12, <2>13, <2>14, <2>15 DEF JournalInv
<1>3. ASSUME Reconcile
      PROVE  JournalInv'
  <2>1. PICK o \in Operations, g \in 1 .. MaxAuthority : Rest /\ ReconcileOperation(o, g)
    BY <1>3 DEF Reconcile
  <2>2. /\ operations' = [operations EXCEPT ![o].state = "RECONCILED"]
        /\ operations[o].witness
        /\ operations[o].state \notin {"SETTLED", "RECONCILED"}
        /\ queue' = queue /\ effects' = effects /\ receipts' = receipts
        /\ handler' = [at |-> "idle", of |-> None]
    BY <2>1 DEF ReconcileOperation, Rest, Idle
  <2>3. /\ operations' \in [Operations -> OperationRow]
        /\ operations'[o].state = "RECONCILED" /\ operations'[o].witness = operations[o].witness
        /\ \A x \in Operations \ {o} : operations'[x] = operations[x]
        /\ \A x \in Operations : HasEffect(x)' <=> HasEffect(x)
        /\ \A x \in Operations : operations'[x].ticket.epoch <= lease'.epoch
        /\ EffectsFollowEpochs'
    BY <1>l, <1>s, <2>2, JournalStateStep, ZenonT(20)
  <2>4. JournalTypeOK'
    BY <1>0, <2>2, <2>3, ZenonT(20) DEF JournalTypeOK, OperationRow, Ticket
  <2>5. ClaimsAreBacked'
    BY <1>0, <1>c, <2>2, <2>3 DEF ClaimsAreBacked, InState
  <2>6. DispatchedIsQueued'
    BY <1>0, <1>c, <2>2, <2>3 DEF DispatchedIsQueued, InState
  <2>7. \A x : ~At("mutated", x)' /\ ~At("receipted", x)' /\ ~At("settled", x)'
    BY <1>a, <2>2, ZenonT(20)
  <2>8. \A x \in Operations :
           operations'[x].witness => operations'[x].state \in {"UNKNOWN", "SETTLED", "RECONCILED"}
    BY <1>c, <2>3
  <2> QED
    BY <2>3, <2>4, <2>5, <2>6, <2>7, <2>8 DEF JournalInv
<1>4. ASSUME TickRefused
      PROVE  JournalInv'
  <2>1. PICK o \in Operations : Rest /\ (TickLeftover(o) \/ TickQuarantine(o))
    BY <1>4 DEF TickRefused
  <2>2. \A x : ~At("mutated", x)' /\ ~At("receipted", x)' /\ ~At("settled", x)'
    BY <1>a, <2>1, ZenonT(20) DEF Rest, Idle
  <2>3. CASE TickLeftover(o)
    <3>1. /\ operations' = operations /\ effects' = effects /\ receipts' = receipts
          /\ queue' = queue \ {o}
          /\ operations[o].state # "MAY_HAVE_BEEN_DISPATCHED"
      BY <1>c, <2>3 DEF TickLeftover
    <3>2. JournalTypeOK' /\ EffectsFollowEpochs'
      BY <3>1 DEF JournalInv, JournalTypeOK, EffectsFollowEpochs
    <3>3. ClaimsAreBacked'
      BY <3>1 DEF JournalInv, ClaimsAreBacked, InState, HasEffect
    <3>4. DispatchedIsQueued'
      BY <1>c, <3>1 DEF DispatchedIsQueued, InState
    <3> QED
      BY <1>c, <1>l, <2>2, <3>1, <3>2, <3>3, <3>4, Zenon DEF JournalInv
  <2>4. CASE TickQuarantine(o)
    <3>1. /\ operations' = [operations EXCEPT ![o].state = "UNKNOWN"]
          /\ effects' = effects /\ receipts' = receipts /\ queue' = queue \ {o}
          /\ ~operations[o].witness
      BY <2>4 DEF TickQuarantine, Runnable
    <3>2. /\ operations' \in [Operations -> OperationRow]
          /\ operations'[o].state = "UNKNOWN" /\ operations'[o].witness = operations[o].witness
          /\ \A x \in Operations \ {o} : operations'[x] = operations[x]
          /\ \A x \in Operations : HasEffect(x)' <=> HasEffect(x)
          /\ \A x \in Operations : operations'[x].ticket.epoch <= lease'.epoch
          /\ EffectsFollowEpochs'
      BY <1>l, <1>s, <3>1, JournalStateStep, ZenonT(20)
    <3>3. JournalTypeOK'
      BY <1>0, <3>1, <3>2, ZenonT(20) DEF JournalTypeOK, OperationRow, Ticket
    <3>4. ClaimsAreBacked'
      BY <1>0, <1>c, <3>1, <3>2 DEF ClaimsAreBacked, InState
    <3>5. DispatchedIsQueued'
      BY <1>0, <1>c, <3>1, <3>2 DEF DispatchedIsQueued, InState
    <3>6. \A x \in Operations :
             operations'[x].witness => operations'[x].state \in {"UNKNOWN", "SETTLED", "RECONCILED"}
      BY <1>c, <3>2
    <3> QED
      BY <2>2, <3>2, <3>3, <3>4, <3>5, <3>6 DEF JournalInv
  <2> QED
    BY <2>1, <2>3, <2>4
<1>5. ASSUME Tick
      PROVE  JournalInv'
  <2>1. PICK o \in Operations : TickMutate(o) /\ Goto("mutated", o)
    BY <1>5 DEF Tick
  <2> DEFINE row == [state |-> "UNKNOWN", epoch |-> operations[o].epoch,
                     generation |-> operations[o].generation, ticket |-> operations[o].ticket,
                     witness |-> TRUE]
  <2>2. /\ operations[o].state = "MAY_HAVE_BEEN_DISPATCHED" /\ ~operations[o].witness
        /\ operations[o].ticket.epoch = lease.epoch
        /\ effects' = Append(effects, o) /\ queue' = queue /\ receipts' = receipts
        /\ handler' = [at |-> "mutated", of |-> o] /\ o \in queue
    BY <2>1 DEF TickMutate, Runnable, TicketAuthority, Goto
  <2>3. operations' = [operations EXCEPT ![o] = row]
    <3>1. \A w : [operations[o] EXCEPT !.state = "UNKNOWN", !.witness = w]
                   = [state |-> "UNKNOWN", epoch |-> operations[o].epoch,
                      generation |-> operations[o].generation, ticket |-> operations[o].ticket,
                      witness |-> w]
      BY <1>0, WitnessedRow, Zenon
    <3>2. [operations[o] EXCEPT !.state = "UNKNOWN", !.witness = TRUE] = row
      BY <3>1, Zenon
    <3> HIDE DEF row
    <3> QED
      BY <2>1, <3>2, Zenon DEF TickMutate
  <2>4. row \in OperationRow /\ row.state = "UNKNOWN" /\ row.ticket = operations[o].ticket
    BY <1>s, <1>w, OperationRowTyped, ZenonT(20)
  <2>5. row.witness
    BY Zenon
  <2> HIDE DEF row
  <2>6. /\ operations' \in [Operations -> OperationRow]
        /\ operations'[o] = row
        /\ \A x \in Operations \ {o} : operations'[x] = operations[x]
    BY <1>0, <2>3, <2>4
  <2>7. /\ effects' \in Seq(Operations)
        /\ Len(effects') = Len(effects) + 1
        /\ \A n \in 1 .. Len(effects) : effects'[n] = effects[n]
        /\ effects'[Len(effects) + 1] = o
        /\ \A x \in Operations : HasEffect(x)' <=> HasEffect(x) \/ x = o
    BY <1>0, <2>2, EffectAppended
  <2>8. JournalTypeOK'
    BY <1>0, <2>2, <2>6, <2>7, Zenon DEF JournalTypeOK, OperationRow, Ticket
  <2>9. ClaimsAreBacked'
    <3>1. \A x \in Operations : operations'[x].witness <=> HasEffect(x)'
      BY <1>c, <2>5, <2>6, <2>7, Zenon DEF ClaimsAreBacked
    <3> QED
      BY <1>0, <1>c, <2>2, <2>4, <2>6, <2>7, <3>1, Zenon DEF ClaimsAreBacked, InState
  <2>10. DispatchedIsQueued'
    BY <1>0, <1>c, <2>2, <2>4, <2>5, <2>6, ZenonT(20) DEF DispatchedIsQueued, InState
  <2>11. \A x \in Operations : operations'[x].ticket = operations[x].ticket
    BY <2>4, <2>6
  <2>12. EffectsFollowEpochs'
    <3> SUFFICES ASSUME NEW m \in 1 .. Len(effects'), NEW n \in 1 .. Len(effects'), m < n
                 PROVE  operations'[effects'[m]].ticket.epoch <= operations'[effects'[n]].ticket.epoch
      BY DEF EffectsFollowEpochs
    <3>1. Len(effects) \in Nat /\ \A k \in 1 .. Len(effects) : effects[k] \in Operations
      BY <1>0
    <3>2. m \in 1 .. Len(effects) /\ effects'[m] = effects[m] /\ effects[m] \in Operations
      BY <2>7, <3>1
    <3>3. CASE n \in 1 .. Len(effects)
      BY <2>7, <2>11, <3>1, <3>2, <3>3 DEF JournalInv, EffectsFollowEpochs
    <3>4. CASE n = Len(effects) + 1
      BY <1>c, <2>2, <2>7, <2>11, <3>2, <3>4, Zenon
    <3> QED
      BY <2>7, <3>1, <3>3, <3>4
  <2>13. \A x \in Operations :
            operations'[x].witness => operations'[x].state \in {"UNKNOWN", "SETTLED", "RECONCILED"}
    BY <1>c, <2>4, <2>6
  <2>14. \A x \in Operations : operations'[x].ticket.epoch <= lease'.epoch
    BY <1>c, <1>l, <2>11
  <2>15. \A x : /\ At("mutated", x)' => x = o
                /\ ~At("receipted", x)' /\ ~At("settled", x)'
    BY <1>a, <2>2, ZenonT(20)
  <2> QED
    BY <2>4, <2>5, <2>6, <2>8, <2>9, <2>10, <2>12, <2>13, <2>14, <2>15 DEF JournalInv
<1>6. ASSUME TickOn
      PROVE  JournalInv'
  <2>1. PICK o \in Operations :
           \/ At("mutated", o) /\ TickReceipt(o) /\ Goto("receipted", o)
           \/ At("receipted", o) /\ TickSettle(o) /\ Goto("settled", o)
           \/ At("settled", o) /\ TickUnqueue(o) /\ Finish
    BY <1>6 DEF TickOn
  <2>2. CASE At("mutated", o) /\ TickReceipt(o) /\ Goto("receipted", o)
    <3>1. /\ operations' = operations /\ effects' = effects /\ queue' = queue
          /\ receipts' = receipts \cup {o} /\ handler' = [at |-> "receipted", of |-> o]
          /\ operations[o].state = "UNKNOWN" /\ operations[o].witness
      BY <2>2 DEF TickReceipt, Goto, JournalInv
    <3>2. JournalTypeOK' /\ EffectsFollowEpochs' /\ DispatchedIsQueued'
      BY <3>1 DEF JournalInv, JournalTypeOK, EffectsFollowEpochs, DispatchedIsQueued, InState
    <3>3. \A x \in Operations : HasEffect(x)' <=> HasEffect(x)
      BY <3>1 DEF HasEffect
    <3>4. ClaimsAreBacked'
      BY <1>0, <1>c, <3>1, <3>3 DEF ClaimsAreBacked, InState
    <3>5. \A x : /\ At("receipted", x)' => x = o
                 /\ ~At("mutated", x)' /\ ~At("settled", x)'
      BY <1>a, <3>1, ZenonT(20)
    <3> QED
      BY <1>c, <1>l, <3>1, <3>2, <3>4, <3>5, Zenon DEF JournalInv
  <2>3. CASE At("receipted", o) /\ TickSettle(o) /\ Goto("settled", o)
    <3>1. /\ operations' = [operations EXCEPT ![o].state = "SETTLED"]
          /\ effects' = effects /\ queue' = queue /\ receipts' = receipts
          /\ handler' = [at |-> "settled", of |-> o]
          /\ operations[o].state = "UNKNOWN" /\ operations[o].witness /\ o \in receipts
      BY <2>3 DEF TickSettle, Goto, JournalInv
    <3>2. /\ operations' \in [Operations -> OperationRow]
          /\ operations'[o].state = "SETTLED" /\ operations'[o].witness = operations[o].witness
          /\ \A x \in Operations \ {o} : operations'[x] = operations[x]
          /\ \A x \in Operations : HasEffect(x)' <=> HasEffect(x)
          /\ \A x \in Operations : operations'[x].ticket.epoch <= lease'.epoch
          /\ EffectsFollowEpochs'
      BY <1>l, <1>s, <3>1, JournalStateStep, ZenonT(20)
    <3>3. JournalTypeOK'
      BY <1>0, <3>1, <3>2, ZenonT(20) DEF JournalTypeOK, OperationRow, Ticket
    <3>4. ClaimsAreBacked'
      BY <1>0, <1>c, <3>1, <3>2 DEF ClaimsAreBacked, InState
    <3>5. DispatchedIsQueued'
      BY <1>0, <1>c, <3>1, <3>2 DEF DispatchedIsQueued, InState
    <3>6. \A x : /\ At("settled", x)' => x = o
                 /\ ~At("mutated", x)' /\ ~At("receipted", x)'
      BY <1>a, <3>1, ZenonT(20)
    <3>7. \A x \in Operations :
             operations'[x].witness => operations'[x].state \in {"UNKNOWN", "SETTLED", "RECONCILED"}
      BY <1>c, <3>2
    <3> QED
      BY <3>1, <3>2, <3>3, <3>4, <3>5, <3>6, <3>7 DEF JournalInv
  <2>4. CASE At("settled", o) /\ TickUnqueue(o) /\ Finish
    <3>1. /\ operations' = operations /\ effects' = effects /\ receipts' = receipts
          /\ queue' = queue \ {o} /\ handler' = [at |-> "idle", of |-> None]
          /\ operations[o].state = "SETTLED"
      BY <2>4 DEF TickUnqueue, Finish, Idle, JournalInv
    <3>2. JournalTypeOK' /\ EffectsFollowEpochs'
      BY <3>1 DEF JournalInv, JournalTypeOK, EffectsFollowEpochs
    <3>3. ClaimsAreBacked'
      BY <3>1 DEF JournalInv, ClaimsAreBacked, InState, HasEffect
    <3>4. DispatchedIsQueued'
      BY <1>c, <3>1 DEF DispatchedIsQueued, InState
    <3>5. \A x : ~At("mutated", x)' /\ ~At("receipted", x)' /\ ~At("settled", x)'
      BY <1>a, <3>1, ZenonT(20)
    <3> QED
      BY <1>c, <1>l, <3>1, <3>2, <3>3, <3>4, <3>5, Zenon DEF JournalInv
  <2> QED
    BY <2>1, <2>2, <2>3, <2>4
<1> QED
  BY <1>1, <1>2, <1>3, <1>4, <1>5, <1>6 DEF InsideJournal

-----------------------------------------------------------------------------
(* The runtime journal. *)

SessionRow ==
    [state : {"ABSENT", "ACTIVE", "STOPPED"}, instance : Instances \cup {None},
     epoch : 0 .. MaxEpoch, generation : 0 .. MaxGeneration]
ActionRow ==
    [status : RuntimeStatus, instance : Instances \cup {None}, session : Sessions \cup {None},
     epoch : 0 .. MaxEpoch, pre : 0 .. MaxGeneration, proved : BOOLEAN]

\* An operation is of its session's instance and lease, an unfinished one is of
\* its session's generation, and only a finished one has a result.
RowsHaveSessions ==
    \A a \in Actions : runtimeOperations[a].status # "ABSENT" =>
        /\ runtimeOperations[a].session \in Sessions
        /\ sessions[runtimeOperations[a].session].state # "ABSENT"
        /\ sessions[runtimeOperations[a].session].instance = runtimeOperations[a].instance

ActiveIsCurrent ==
    \A a \in Actions : Active(runtimeOperations[a]) =>
        runtimeOperations[a].pre = sessions[runtimeOperations[a].session].generation

ProvedIsDone ==
    \A a \in Actions :
        runtimeOperations[a].proved => runtimeOperations[a].status \in {"SETTLED", "RECONCILED"}

ExecutingIsMarked ==
    \A a \in Actions : At("executing", a) => runtimeOperations[a].status = "EXECUTING"

RuntimeInv ==
    /\ RuntimeTypeOK
    /\ OneUnresolvedPerInstance
    /\ OneEffectPerGeneration
    /\ AdmittedIsDrainable
    /\ RowsHaveSessions
    /\ ActiveIsCurrent
    /\ ProvedIsDone
    /\ ExecutingIsMarked

LEMMA RuntimeInitially ==
    ASSUME RuntimeInit, handler = Idle
    PROVE  RuntimeInv
<1>1. RuntimeTypeOK
  BY HostLeaseAssumption, HostRuntimeAssumption
  DEF RuntimeInit, RuntimeTypeOK, NoSession, NoAction, RuntimeStatus
<1>2. \A a \in Actions : runtimeOperations[a].status = "ABSENT" /\ ~runtimeOperations[a].proved
  BY Zenon DEF RuntimeInit, NoAction
<1>3. \A a : ~At("executing", a)
  BY DEF At, Idle
<1> QED
  BY <1>1, <1>2, <1>3
  DEF RuntimeInv, OneUnresolvedPerInstance, OneEffectPerGeneration, AdmittedIsDrainable, Active,
      Unresolved, RowsHaveSessions, ActiveIsCurrent, ProvedIsDone, ExecutingIsMarked

\* The tables, by field.
LEMMA RuntimeFields ==
    ASSUME RuntimeTypeOK
    PROVE  /\ sessions \in [Sessions -> SessionRow] /\ runtimeOperations \in [Actions -> ActionRow]
           /\ runtimeQueue \subseteq Actions
           /\ \A s \in Sessions :
                 /\ sessions[s].state \in {"ABSENT", "ACTIVE", "STOPPED"}
                 /\ sessions[s].instance \in Instances \cup {None}
                 /\ sessions[s].epoch \in 0 .. MaxEpoch
                 /\ sessions[s].generation \in 0 .. MaxGeneration
           /\ \A a \in Actions :
                 /\ runtimeOperations[a].status \in RuntimeStatus
                 /\ runtimeOperations[a].instance \in Instances \cup {None}
                 /\ runtimeOperations[a].session \in Sessions \cup {None}
                 /\ runtimeOperations[a].epoch \in 0 .. MaxEpoch
                 /\ runtimeOperations[a].pre \in 0 .. MaxGeneration
                 /\ runtimeOperations[a].proved \in BOOLEAN
BY DEF RuntimeTypeOK, SessionRow, ActionRow

\* A row in which only the status changes.
LEMMA StatusRow ==
    ASSUME NEW r \in ActionRow, NEW st \in RuntimeStatus
    PROVE  LET q == [r EXCEPT !.status = st]
           IN  /\ q \in ActionRow /\ q.status = st
               /\ q.instance = r.instance /\ q.session = r.session /\ q.epoch = r.epoch
               /\ q.pre = r.pre /\ q.proved = r.proved
BY DEF ActionRow

\* The status of one row changes.
LEMMA StatusSet ==
    ASSUME RuntimeTypeOK, NEW a \in Actions, NEW st \in RuntimeStatus,
           runtimeOperations' = [runtimeOperations EXCEPT ![a].status = st]
    PROVE  /\ runtimeOperations' \in [Actions -> ActionRow]
           /\ runtimeOperations'[a] = [runtimeOperations[a] EXCEPT !.status = st]
           /\ \A b \in Actions \ {a} : runtimeOperations'[b] = runtimeOperations[b]
<1>1. runtimeOperations \in [Actions -> ActionRow]
  BY RuntimeFields
<1>2. runtimeOperations' = [runtimeOperations EXCEPT ![a] = [runtimeOperations[a] EXCEPT !.status = st]]
  BY Zenon
<1> DEFINE row == [runtimeOperations[a] EXCEPT !.status = st]
<1>3. row \in ActionRow
  BY <1>1, StatusRow
<1> HIDE DEF row
<1>4. runtimeOperations' = [runtimeOperations EXCEPT ![a] = row]
  BY <1>2 DEF row
<1>5. /\ runtimeOperations' \in [Actions -> ActionRow] /\ runtimeOperations'[a] = row
      /\ \A b \in Actions \ {a} : runtimeOperations'[b] = runtimeOperations[b]
  BY <1>1, <1>3, <1>4
<1> QED
  BY <1>5 DEF row

\* What a step that finishes nothing and admits nothing may do.
SameBut(a) ==
    /\ runtimeOperations'[a].instance = runtimeOperations[a].instance
    /\ runtimeOperations'[a].session = runtimeOperations[a].session
    /\ runtimeOperations'[a].epoch = runtimeOperations[a].epoch
    /\ runtimeOperations'[a].pre = runtimeOperations[a].pre
    /\ runtimeOperations'[a].proved = runtimeOperations[a].proved
    /\ \/ runtimeOperations'[a].status = runtimeOperations[a].status
       \/ /\ Active(runtimeOperations[a])
          /\ runtimeOperations'[a].status \in {"EXECUTING", "UNKNOWN"}

LEMMA StatusStep ==
    ASSUME RuntimeInv, UNCHANGED sessions,
           runtimeOperations' \in [Actions -> ActionRow], runtimeQueue' \subseteq Actions,
           \A a \in Actions : SameBut(a),
           \A a \in Actions : runtimeOperations'[a].status = "ADMITTED" /\ a \in runtimeQueue
                                 => a \in runtimeQueue',
           \A a \in Actions : At("executing", a)' => runtimeOperations'[a].status = "EXECUTING"
    PROVE  RuntimeInv'
<1>i. /\ RuntimeTypeOK /\ OneUnresolvedPerInstance /\ OneEffectPerGeneration /\ AdmittedIsDrainable /\ RowsHaveSessions
      /\ ActiveIsCurrent /\ ProvedIsDone /\ ExecutingIsMarked
  BY DEF RuntimeInv
<1>1. RuntimeTypeOK'
  BY <1>i DEF RuntimeTypeOK, SessionRow, ActionRow
<1>2. \A a \in Actions :
         /\ Unresolved(runtimeOperations'[a]) => Unresolved(runtimeOperations[a])
         /\ Active(runtimeOperations'[a]) => Active(runtimeOperations[a])
         /\ runtimeOperations'[a].status # "ABSENT" => runtimeOperations[a].status # "ABSENT"
         /\ runtimeOperations'[a].status = "ADMITTED" => runtimeOperations[a].status = "ADMITTED"
  BY DEF SameBut, Active, Unresolved
<1>3. OneUnresolvedPerInstance'
  BY <1>i, <1>2 DEF OneUnresolvedPerInstance, SameBut
<1>4. OneEffectPerGeneration'
  BY <1>i DEF OneEffectPerGeneration, SameBut
<1>5. AdmittedIsDrainable'
  BY <1>i, <1>2 DEF AdmittedIsDrainable, SameBut
<1>6. RowsHaveSessions'
  BY <1>i, <1>2 DEF RowsHaveSessions, SameBut
<1>7. ActiveIsCurrent'
  BY <1>i, <1>2 DEF ActiveIsCurrent, SameBut
<1>8. ProvedIsDone'
  BY <1>i DEF ProvedIsDone, SameBut, Active
<1>9. ExecutingIsMarked'
  BY DEF ExecutingIsMarked
<1> QED
  BY <1>1, <1>3, <1>4, <1>5, <1>6, <1>7, <1>8, <1>9 DEF RuntimeInv

\* A step of another part: no drain is in hand afterwards, and the runtime
\* journal is left alone or its unfinished operations become uncertain.
OutsideRuntime ==
    /\ \A a \in Actions : ~At("executing", a)'
    /\ RuntimeUncertain \/ UNCHANGED runtimeVars

LEMMA RuntimeOutsideStep ==
    ASSUME RuntimeInv, OutsideRuntime
    PROVE  RuntimeInv'
<1>0. RuntimeTypeOK /\ runtimeOperations \in [Actions -> ActionRow] /\ runtimeQueue \subseteq Actions
  BY RuntimeFields DEF RuntimeInv
<1>e. \A a \in Actions : ~At("executing", a)'
  BY DEF OutsideRuntime
<1>1. CASE UNCHANGED runtimeVars
  BY <1>0, <1>1, <1>e, StatusStep DEF runtimeVars, SameBut
<1>2. CASE RuntimeUncertain
  <2>1. "UNKNOWN" \in RuntimeStatus
    BY DEF RuntimeStatus
  <2>2. \A a \in Actions :
           /\ runtimeOperations'[a] \in ActionRow
           /\ SameBut(a)
           /\ runtimeOperations'[a].status # "ADMITTED"
    <3> TAKE a \in Actions
    <3>1. CASE Active(runtimeOperations[a])
      <4>1. runtimeOperations'[a] = [runtimeOperations[a] EXCEPT !.status = "UNKNOWN"]
        BY <1>2, <3>1 DEF RuntimeUncertain
      <4> QED
        BY <1>0, <2>1, <3>1, <4>1, StatusRow DEF SameBut
    <3>2. CASE ~Active(runtimeOperations[a])
      <4>1. runtimeOperations'[a] = runtimeOperations[a]
        BY <1>2, <3>2 DEF RuntimeUncertain
      <4> QED
        BY <1>0, <3>2, <4>1 DEF SameBut, Active
    <3> QED
      BY <3>1, <3>2
  <2>3. runtimeOperations' \in [Actions -> ActionRow]
    <3> DEFINE F(a) == IF Active(runtimeOperations[a])
                       THEN [runtimeOperations[a] EXCEPT !.status = "UNKNOWN"]
                       ELSE runtimeOperations[a]
    <3>1. runtimeOperations' = [a \in Actions |-> F(a)]
      BY <1>2 DEF RuntimeUncertain
    <3> HIDE DEF F
    <3> QED
      BY <2>2, <3>1
  <2>4. runtimeQueue' \subseteq Actions /\ UNCHANGED sessions
    BY <1>0, <1>2 DEF RuntimeUncertain
  <2> QED
    BY <1>e, <2>2, <2>3, <2>4, StatusStep
<1> QED
  BY <1>1, <1>2 DEF OutsideRuntime

\* An operation that is marked unknown.
LEMMA MarkedStep ==
    ASSUME RuntimeInv, NEW a \in Actions, Active(runtimeOperations[a]), MarkUnknown(a),
           UNCHANGED sessions, \A x \in Actions : ~At("executing", x)'
    PROVE  RuntimeInv'
<1>0. RuntimeTypeOK /\ runtimeOperations \in [Actions -> ActionRow] /\ runtimeQueue \subseteq Actions
  BY RuntimeFields DEF RuntimeInv
<1>1. "UNKNOWN" \in RuntimeStatus
  BY DEF RuntimeStatus
<1>2. /\ runtimeOperations' \in [Actions -> ActionRow]
      /\ runtimeOperations'[a] = [runtimeOperations[a] EXCEPT !.status = "UNKNOWN"]
      /\ \A b \in Actions \ {a} : runtimeOperations'[b] = runtimeOperations[b]
  BY <1>0, <1>1, StatusSet, ZenonT(20) DEF MarkUnknown
<1>3. SameBut(a) /\ runtimeOperations'[a].status = "UNKNOWN"
  BY <1>0, <1>1, <1>2, StatusRow DEF SameBut
<1>4. \A b \in Actions : SameBut(b)
  BY <1>2, <1>3, ZenonT(20) DEF SameBut
<1>5. runtimeQueue' = runtimeQueue \ {a}
  BY DEF MarkUnknown
<1> QED
  BY <1>0, <1>2, <1>3, <1>4, <1>5, StatusStep, ZenonT(20)

\* A new session disturbs no operation.
LEMMA SessionStep ==
    ASSUME RuntimeInv, NEW s \in Sessions, NEW row \in SessionRow,
           UNCHANGED <<runtimeOperations, runtimeQueue>>,
           sessions' = [sessions EXCEPT ![s] = row],
           \/ sessions[s].state = "ABSENT"
           \/ /\ row.state # "ABSENT"
              /\ row.instance = sessions[s].instance /\ row.generation = sessions[s].generation,
           \A x \in Actions : ~At("executing", x)'
    PROVE  RuntimeInv'
<1>i. /\ RuntimeTypeOK /\ OneUnresolvedPerInstance /\ OneEffectPerGeneration /\ AdmittedIsDrainable /\ RowsHaveSessions
      /\ ActiveIsCurrent /\ ProvedIsDone /\ ExecutingIsMarked
  BY DEF RuntimeInv
<1>0. /\ RuntimeTypeOK /\ sessions \in [Sessions -> SessionRow]
      /\ runtimeOperations \in [Actions -> ActionRow]
  BY <1>i, RuntimeFields
<1>1. /\ sessions' \in [Sessions -> SessionRow] /\ sessions'[s] = row
      /\ \A x \in Sessions \ {s} : sessions'[x] = sessions[x]
  BY <1>0
<1>2. RuntimeTypeOK'
  BY <1>i, <1>1 DEF RuntimeTypeOK, SessionRow
<1>3. \A a \in Actions : runtimeOperations[a].status # "ABSENT" =>
         LET x == runtimeOperations[a].session
         IN  /\ x \in Sessions /\ sessions'[x].state # "ABSENT"
             /\ sessions'[x].instance = sessions[x].instance
             /\ sessions'[x].generation = sessions[x].generation
  BY <1>i, <1>1 DEF RowsHaveSessions
<1>4. \A a \in Actions : runtimeOperations[a].proved \/ Active(runtimeOperations[a])
         => runtimeOperations[a].status # "ABSENT"
  BY <1>i DEF ProvedIsDone, Active
<1>5. OneEffectPerGeneration'
  BY <1>i, <1>3, <1>4, Zenon DEF OneEffectPerGeneration
<1>6. AdmittedIsDrainable'
  BY <1>i, <1>3 DEF AdmittedIsDrainable
<1>7. OneUnresolvedPerInstance' /\ ProvedIsDone'
  BY <1>i DEF OneUnresolvedPerInstance, ProvedIsDone
<1>8. RowsHaveSessions'
  BY <1>i, <1>3 DEF RowsHaveSessions
<1>9. ActiveIsCurrent'
  BY <1>i, <1>3, <1>4 DEF ActiveIsCurrent
<1>10. ExecutingIsMarked'
  BY DEF ExecutingIsMarked
<1> QED
  BY <1>2, <1>5, <1>6, <1>7, <1>8, <1>9, <1>10 DEF RuntimeInv

\* An admission, in a session that is there or that is made for it.
LEMMA AdmitStep ==
    ASSUME RuntimeInv, NEW a \in Actions, NEW s \in Sessions, NEW i \in Instances,
           NEW e \in 1 .. MaxEpoch, NEW g \in 0 .. MaxGeneration, AdmitAction(a, s, i, e, g),
           \A x \in Actions : ~At("executing", x)'
    PROVE  RuntimeInv'
<1>i. /\ RuntimeTypeOK /\ OneUnresolvedPerInstance /\ OneEffectPerGeneration /\ AdmittedIsDrainable /\ RowsHaveSessions
      /\ ActiveIsCurrent /\ ProvedIsDone /\ ExecutingIsMarked
  BY DEF RuntimeInv
<1>0. /\ RuntimeTypeOK /\ sessions \in [Sessions -> SessionRow]
      /\ runtimeOperations \in [Actions -> ActionRow] /\ runtimeQueue \subseteq Actions
  BY <1>i, RuntimeFields
<1> DEFINE session == IF MayOpen(s, i, e) THEN NewSession(i, e, g) ELSE sessions[s]
           row == [status |-> "ADMITTED", instance |-> i, session |-> s, epoch |-> e,
                   pre |-> session.generation, proved |-> FALSE]
<1>1. /\ session.state = "ACTIVE" /\ session.instance = i /\ session.epoch = e
      /\ runtimeOperations[a].status = "ABSENT" /\ ~InstanceUnresolved(i)
      /\ sessions' = [sessions EXCEPT ![s] = session]
      /\ runtimeOperations' = [runtimeOperations EXCEPT ![a] = row]
      /\ runtimeQueue' = runtimeQueue \cup {a}
  BY Zenon DEF AdmitAction
<1>2. NewSession(i, e, g) \in SessionRow
  <2>1. e \in 0 .. MaxEpoch
    BY HostLeaseAssumption
  <2> QED
    BY <2>1 DEF NewSession, SessionRow
<1>3. /\ session \in SessionRow
      /\ sessions[s].state = "ABSENT" \/ session = sessions[s]
      /\ session.generation \in 0 .. MaxGeneration
  <2>1. CASE MayOpen(s, i, e)
    BY <1>2, <2>1, Zenon DEF MayOpen, SessionRow
  <2>2. CASE ~MayOpen(s, i, e)
    BY <1>0, <2>2 DEF SessionRow
  <2> QED
    BY <2>1, <2>2, Zenon
<1> HIDE DEF session
<1>4. row \in ActionRow
  <2>1. e \in 0 .. MaxEpoch /\ "ADMITTED" \in RuntimeStatus
    BY HostLeaseAssumption DEF RuntimeStatus
  <2> QED
    BY <1>3, <2>1, ZenonT(60) DEF ActionRow
<1>5. /\ row.status = "ADMITTED" /\ row.instance = i /\ row.session = s
      /\ row.pre = session.generation
  BY Zenon
<1>6. ~row.proved
  BY Zenon
<1> HIDE DEF row
<1>7. /\ runtimeOperations' \in [Actions -> ActionRow] /\ runtimeOperations'[a] = row
      /\ \A b \in Actions \ {a} : runtimeOperations'[b] = runtimeOperations[b]
      /\ sessions' \in [Sessions -> SessionRow] /\ sessions'[s] = session
      /\ \A x \in Sessions \ {s} : sessions'[x] = sessions[x]
  BY <1>0, <1>1, <1>3, <1>4
<1>8. RuntimeTypeOK'
  BY <1>0, <1>1, <1>7 DEF RuntimeTypeOK, SessionRow, ActionRow
<1>9. \A b \in Actions : runtimeOperations[b].status # "ABSENT" =>
         /\ b # a /\ runtimeOperations'[b] = runtimeOperations[b]
         /\ runtimeOperations[b].session \in Sessions
         /\ sessions'[runtimeOperations[b].session] = sessions[runtimeOperations[b].session]
  <2> SUFFICES ASSUME NEW b \in Actions, runtimeOperations[b].status # "ABSENT"
               PROVE  /\ b # a /\ runtimeOperations'[b] = runtimeOperations[b]
                      /\ runtimeOperations[b].session \in Sessions
                      /\ sessions'[runtimeOperations[b].session]
                            = sessions[runtimeOperations[b].session]
    BY Zenon
  <2>1. b # a /\ runtimeOperations'[b] = runtimeOperations[b]
    BY <1>1, <1>7
  <2>2. /\ runtimeOperations[b].session \in Sessions
        /\ sessions[runtimeOperations[b].session].state # "ABSENT"
    BY <1>i, Zenon DEF RowsHaveSessions
  <2>3. sessions'[runtimeOperations[b].session] = sessions[runtimeOperations[b].session]
    BY <1>3, <1>7, <2>2, Zenon
  <2> QED
    BY <2>1, <2>2, <2>3, Zenon
<1>10. \A b \in Actions :
          \/ b = a
          \/ /\ runtimeOperations'[b] = runtimeOperations[b]
             /\ runtimeOperations[b].proved \/ Active(runtimeOperations[b])
                   => runtimeOperations[b].status # "ABSENT"
  BY <1>i, <1>7 DEF ProvedIsDone, Active
<1>11. OneUnresolvedPerInstance'
  BY <1>i, <1>1, <1>5, <1>7 DEF OneUnresolvedPerInstance, InstanceUnresolved
<1>12. OneEffectPerGeneration'
  BY <1>i, <1>6, <1>7, <1>9, <1>10 DEF OneEffectPerGeneration
<1>13. AdmittedIsDrainable'
  <2> SUFFICES ASSUME NEW b \in Actions, runtimeOperations'[b].status = "ADMITTED"
               PROVE  /\ b \in runtimeQueue'
                      /\ runtimeOperations'[b].pre
                            = sessions'[runtimeOperations'[b].session].generation
    BY Zenon DEF AdmittedIsDrainable
  <2>1. CASE b = a
    BY <1>1, <1>5, <1>7, <2>1
  <2>2. CASE b # a
    <3>1. runtimeOperations'[b] = runtimeOperations[b] /\ runtimeOperations[b].status = "ADMITTED"
      BY <1>7, <2>2, Zenon
    <3> QED
      BY <1>i, <1>1, <1>9, <3>1, Zenon DEF AdmittedIsDrainable
  <2> QED
    BY <2>1, <2>2, Zenon
<1>14. RowsHaveSessions'
  <2> SUFFICES ASSUME NEW b \in Actions, runtimeOperations'[b].status # "ABSENT"
               PROVE  /\ runtimeOperations'[b].session \in Sessions
                      /\ sessions'[runtimeOperations'[b].session].state # "ABSENT"
                      /\ sessions'[runtimeOperations'[b].session].instance
                            = runtimeOperations'[b].instance
    BY DEF RowsHaveSessions
  <2>1. CASE b = a
    BY <1>1, <1>5, <1>7, <2>1
  <2>2. CASE b # a
    <3>1. runtimeOperations'[b] = runtimeOperations[b] /\ runtimeOperations[b].status # "ABSENT"
      BY <1>7, <2>2
    <3> QED
      BY <1>i, <1>9, <3>1 DEF RowsHaveSessions
  <2> QED
    BY <2>1, <2>2
<1>15. ActiveIsCurrent'
  <2> SUFFICES ASSUME NEW b \in Actions, Active(runtimeOperations'[b])
               PROVE  runtimeOperations'[b].pre
                         = sessions'[runtimeOperations'[b].session].generation
    BY DEF ActiveIsCurrent
  <2>1. CASE b = a
    BY <1>5, <1>7, <2>1
  <2>2. CASE b # a
    <3>1. runtimeOperations'[b] = runtimeOperations[b] /\ runtimeOperations[b].status # "ABSENT"
      BY <1>7, <2>2 DEF Active
    <3> QED
      BY <1>i, <1>9, <3>1 DEF ActiveIsCurrent
  <2> QED
    BY <2>1, <2>2
<1>16. ProvedIsDone'
  BY <1>i, <1>6, <1>7 DEF ProvedIsDone
<1>17. ExecutingIsMarked'
  BY DEF ExecutingIsMarked
<1> QED
  BY <1>8, <1>11, <1>12, <1>13, <1>14, <1>15, <1>16, <1>17 DEF RuntimeInv

\* A drain that settles.
LEMMA SettleStep ==
    ASSUME RuntimeInv, NEW a \in Actions, At("executing", a), SettleAction(a),
           \A x \in Actions : ~At("executing", x)'
    PROVE  RuntimeInv'
<1>i. /\ RuntimeTypeOK /\ OneUnresolvedPerInstance /\ OneEffectPerGeneration /\ AdmittedIsDrainable /\ RowsHaveSessions
      /\ ActiveIsCurrent /\ ProvedIsDone /\ ExecutingIsMarked
  BY DEF RuntimeInv
<1>0. /\ RuntimeTypeOK /\ sessions \in [Sessions -> SessionRow]
      /\ runtimeOperations \in [Actions -> ActionRow] /\ runtimeQueue \subseteq Actions
      /\ \A x \in Sessions : sessions[x].generation \in 0 .. MaxGeneration
      /\ \A b \in Actions : runtimeOperations[b].pre \in 0 .. MaxGeneration
  BY <1>i, RuntimeFields
<1> DEFINE s == runtimeOperations[a].session
           g == sessions[s].generation
           session == [sessions[s] EXCEPT !.generation = g + 1]
<1>1. /\ runtimeOperations[a].status = "EXECUTING" /\ s \in Sessions
      /\ Active(runtimeOperations[a]) /\ runtimeOperations[a].pre = g
      /\ sessions[s].instance = runtimeOperations[a].instance /\ sessions[s].state # "ABSENT"
  BY <1>i, Zenon DEF ExecutingIsMarked, RowsHaveSessions, ActiveIsCurrent, Active
<1>2. g \in 0 .. MaxGeneration /\ g < MaxGeneration /\ MaxGeneration \in Nat
  BY <1>0, <1>1, HostRuntimeAssumption DEF SettleAction
<1>3. sessions' = [sessions EXCEPT ![s] = session] /\ runtimeQueue' = runtimeQueue \ {a}
  BY Zenon DEF SettleAction
<1>4. /\ session \in SessionRow /\ session.generation = g + 1
      /\ session.instance = sessions[s].instance /\ session.state = sessions[s].state
  <2>1. sessions[s] \in SessionRow /\ g + 1 \in 0 .. MaxGeneration
    BY <1>0, <1>1, <1>2
  <2> HIDE DEF g, s
  <2> QED
    BY <2>1 DEF SessionRow
<1>5. PICK row : row = [runtimeOperations[a] EXCEPT !.status = "SETTLED", !.proved = TRUE]
  BY Zenon
<1>6. runtimeOperations' = [runtimeOperations EXCEPT ![a] = row]
  BY <1>5, Zenon DEF SettleAction
<1>7. /\ row \in ActionRow /\ row.status = "SETTLED"
      /\ row.instance = runtimeOperations[a].instance /\ row.session = s
      /\ row.pre = runtimeOperations[a].pre
  <2>1. runtimeOperations[a] \in ActionRow /\ "SETTLED" \in RuntimeStatus
    BY <1>0 DEF RuntimeStatus
  <2> QED
    BY <1>5, <2>1, ZenonT(20) DEF ActionRow
<1> HIDE DEF session
<1>8. /\ runtimeOperations' \in [Actions -> ActionRow] /\ runtimeOperations'[a] = row
      /\ \A b \in Actions \ {a} : runtimeOperations'[b] = runtimeOperations[b]
      /\ sessions' \in [Sessions -> SessionRow] /\ sessions'[s] = session
      /\ \A x \in Sessions \ {s} : sessions'[x] = sessions[x]
  BY <1>0, <1>1, <1>3, <1>4, <1>6, <1>7, Zenon
<1>9. RuntimeTypeOK'
  BY <1>0, <1>3, <1>8 DEF RuntimeTypeOK, SessionRow, ActionRow
<1>10. \A b \in Actions \ {a} : Unresolved(runtimeOperations[b]) => runtimeOperations[b].session # s
  <2> SUFFICES ASSUME NEW b \in Actions \ {a}, Unresolved(runtimeOperations[b]),
                      runtimeOperations[b].session = s
               PROVE  FALSE
    OBVIOUS
  <2>1. runtimeOperations[b].status # "ABSENT" /\ Unresolved(runtimeOperations[a])
    BY <1>1 DEF Unresolved
  <2>2. runtimeOperations[b].instance = runtimeOperations[a].instance
    BY <1>i, <1>1, <2>1, Zenon DEF RowsHaveSessions
  <2> QED
    BY <1>i, <2>1, <2>2, Zenon DEF OneUnresolvedPerInstance
<1>11. \A b \in Actions : runtimeOperations[b].proved =>
          /\ b # a /\ runtimeOperations[b].status # "ABSENT"
          /\ runtimeOperations[b].session \in Sessions
          /\ runtimeOperations[b].pre < sessions[runtimeOperations[b].session].generation
  BY <1>i, <1>1, Zenon DEF ProvedIsDone, RowsHaveSessions, OneEffectPerGeneration
<1>12. \A x \in Sessions : sessions[x].generation <= sessions'[x].generation
  BY <1>0, <1>2, <1>4, <1>8
<1>13. OneUnresolvedPerInstance'
  <2>1. \A b \in Actions : Unresolved(runtimeOperations'[b])
           => b # a /\ runtimeOperations'[b] = runtimeOperations[b]
    BY <1>7, <1>8, Zenon DEF Unresolved
  <2> QED
    BY <1>i, <2>1, Zenon DEF OneUnresolvedPerInstance
<1>14. AdmittedIsDrainable'
  <2> SUFFICES ASSUME NEW b \in Actions, runtimeOperations'[b].status = "ADMITTED"
               PROVE  /\ b \in runtimeQueue'
                      /\ runtimeOperations'[b].pre
                            = sessions'[runtimeOperations'[b].session].generation
    BY DEF AdmittedIsDrainable
  <2>1. b # a /\ runtimeOperations'[b] = runtimeOperations[b]
    BY <1>7, <1>8
  <2>2. runtimeOperations[b].session \in Sessions /\ runtimeOperations[b].session # s
    BY <1>i, <1>10, <2>1 DEF RowsHaveSessions, Unresolved
  <2>3. sessions'[runtimeOperations[b].session] = sessions[runtimeOperations[b].session]
    BY <1>8, <2>2
  <2> QED
    BY <1>i, <1>3, <2>1, <2>3 DEF AdmittedIsDrainable
<1>15. OneEffectPerGeneration'
  <2> SUFFICES ASSUME NEW b \in Actions, runtimeOperations'[b].proved
               PROVE  /\ runtimeOperations'[b].pre
                            < sessions'[runtimeOperations'[b].session].generation
                      /\ \A c \in Actions \ {b} :
                            /\ runtimeOperations'[c].proved
                            /\ runtimeOperations'[c].session = runtimeOperations'[b].session
                            => runtimeOperations'[c].pre # runtimeOperations'[b].pre
    BY Zenon DEF OneEffectPerGeneration
  <2>1. CASE b = a
    <3>1. runtimeOperations'[b].pre = g /\ runtimeOperations'[b].session = s
      BY <1>1, <1>7, <1>8, <2>1, ZenonT(20)
    <3>2. g < sessions'[s].generation
      BY <1>2, <1>4, <1>8
    <3>3. \A c \in Actions \ {b} : runtimeOperations[c].proved /\ runtimeOperations[c].session = s
             => runtimeOperations[c].pre # g
      BY <1>0, <1>2, <1>11
    <3> QED
      BY <1>8, <2>1, <3>1, <3>2, <3>3, ZenonT(20)
  <2>2. CASE b # a
    <3>1. /\ runtimeOperations'[b] = runtimeOperations[b] /\ runtimeOperations[b].proved
      BY <1>8, <2>2
    <3>2. runtimeOperations[b].pre < sessions'[runtimeOperations[b].session].generation
      <4>1. sessions'[runtimeOperations[b].session].generation \in 0 .. MaxGeneration
        BY <1>8, <1>11, <3>1, Zenon DEF SessionRow
      <4> QED
        BY <1>0, <1>11, <1>12, <3>1, <4>1
    <3>3. \A c \in Actions \ {a, b} : runtimeOperations'[c].proved
             /\ runtimeOperations'[c].session = runtimeOperations'[b].session
             => runtimeOperations'[c].pre # runtimeOperations'[b].pre
      BY <1>i, <1>8, <3>1 DEF OneEffectPerGeneration
    <3>4. runtimeOperations'[a].session = runtimeOperations[b].session
             => runtimeOperations'[a].pre # runtimeOperations[b].pre
      <4> SUFFICES ASSUME runtimeOperations[b].session = s
                   PROVE  g # runtimeOperations[b].pre
        BY <1>1, <1>7, <1>8, ZenonT(20)
      <4>1. runtimeOperations[b].pre < g
        BY <1>11, <3>1
      <4> QED
        BY <1>0, <1>2, <4>1
    <3> QED
      BY <3>1, <3>2, <3>3, <3>4
  <2> QED
    BY <2>1, <2>2
<1>16. RowsHaveSessions'
  <2> SUFFICES ASSUME NEW b \in Actions, runtimeOperations'[b].status # "ABSENT"
               PROVE  /\ runtimeOperations'[b].session \in Sessions
                      /\ sessions'[runtimeOperations'[b].session].state # "ABSENT"
                      /\ sessions'[runtimeOperations'[b].session].instance
                            = runtimeOperations'[b].instance
    BY DEF RowsHaveSessions
  <2>1. /\ runtimeOperations[b].status # "ABSENT"
        /\ runtimeOperations'[b].session = runtimeOperations[b].session
        /\ runtimeOperations'[b].instance = runtimeOperations[b].instance
    BY <1>1, <1>7, <1>8, Zenon
  <2>2. /\ runtimeOperations[b].session \in Sessions
        /\ sessions[runtimeOperations[b].session].state # "ABSENT"
        /\ sessions[runtimeOperations[b].session].instance = runtimeOperations[b].instance
    BY <1>i, <2>1, Zenon DEF RowsHaveSessions
  <2>3. \A x \in Sessions : /\ sessions'[x].state = sessions[x].state
                            /\ sessions'[x].instance = sessions[x].instance
    BY <1>1, <1>4, <1>8, Zenon
  <2> QED
    BY <2>1, <2>2, <2>3
<1>17. ActiveIsCurrent'
  <2> SUFFICES ASSUME NEW b \in Actions, Active(runtimeOperations'[b])
               PROVE  runtimeOperations'[b].pre
                         = sessions'[runtimeOperations'[b].session].generation
    BY DEF ActiveIsCurrent
  <2>1. b # a /\ runtimeOperations'[b] = runtimeOperations[b]
    BY <1>7, <1>8 DEF Active
  <2>2. runtimeOperations[b].session \in Sessions /\ runtimeOperations[b].session # s
    BY <1>i, <1>10, <2>1 DEF RowsHaveSessions, Unresolved, Active
  <2>3. sessions'[runtimeOperations[b].session] = sessions[runtimeOperations[b].session]
    BY <1>8, <2>2, Zenon
  <2> QED
    BY <1>i, <2>1, <2>3 DEF ActiveIsCurrent
<1>18. ProvedIsDone'
  BY <1>i, <1>7, <1>8, Zenon DEF ProvedIsDone
<1>19. ExecutingIsMarked'
  BY DEF ExecutingIsMarked
<1> QED
  BY <1>9, <1>13, <1>14, <1>15, <1>16, <1>17, <1>18, <1>19 DEF RuntimeInv

\* A step of the runtime adapter on its own tables.
InsideRuntime ==
    \/ RuntimeOpen \/ RuntimeDispatch \/ RuntimeStale \/ RuntimeWait \/ RuntimeSettle
    \/ RuntimeReconcile \/ RuntimeStopOn

LEMMA RuntimeInsideStep ==
    ASSUME RuntimeInv, InsideRuntime
    PROVE  RuntimeInv'
<1>0. /\ RuntimeTypeOK /\ sessions \in [Sessions -> SessionRow]
      /\ runtimeOperations \in [Actions -> ActionRow] /\ runtimeQueue \subseteq Actions
  BY RuntimeFields, Zenon DEF RuntimeInv
<1>e. /\ Rest => \A x \in Actions : ~At("executing", x)'
      /\ Finish => \A x \in Actions : ~At("executing", x)'
      /\ \A y : Goto("marked", y) \/ Goto("unqueued", y) => \A x \in Actions : ~At("executing", x)'
  BY DEF Rest, Finish, Goto, At, Idle
<1>s. "UNKNOWN" \in RuntimeStatus /\ "EXECUTING" \in RuntimeStatus
  BY DEF RuntimeStatus
<1>1. ASSUME RuntimeOpen
      PROVE  RuntimeInv'
  <2>1. PICK x \in Sessions, i \in Instances, e \in 1 .. MaxEpoch, g \in 0 .. MaxGeneration :
           Rest /\ OpenSession(x, i, e, g)
    BY <1>1 DEF RuntimeOpen
  <2>2. NewSession(i, e, g) \in SessionRow
    <3>1. e \in 0 .. MaxEpoch
      BY HostLeaseAssumption
    <3> QED
      BY <3>1 DEF NewSession, SessionRow
  <2> QED
    BY <1>e, <2>1, <2>2, SessionStep, ZenonT(20) DEF OpenSession, MayOpen
<1>2. ASSUME RuntimeDispatch
      PROVE  RuntimeInv'
  BY <1>2, <1>e, AdmitStep DEF RuntimeDispatch
<1>3. ASSUME RuntimeStale
      PROVE  RuntimeInv'
  BY <1>3, <1>e, MarkedStep, ZenonT(20) DEF RuntimeStale, MarkStale
<1>4. ASSUME RuntimeWait
      PROVE  RuntimeInv'
  <2>1. PICK a \in Actions, x \in Sessions, i \in Instances, e \in 1 .. MaxEpoch :
           /\ DrainAction(a, x, i, e)
           /\ IF Drainable(a, x) THEN Goto("executing", a) ELSE Finish
    BY <1>4 DEF RuntimeWait
  <2>2. runtimeOperations[a].status = "ADMITTED" /\ UNCHANGED sessions
    BY <2>1 DEF DrainAction
  <2>3. CASE Drainable(a, x)
    <3>1. /\ runtimeOperations' = [runtimeOperations EXCEPT ![a].status = "EXECUTING"]
          /\ runtimeQueue' = runtimeQueue /\ Goto("executing", a)
      BY <2>1, <2>3 DEF DrainAction
    <3>2. /\ runtimeOperations' \in [Actions -> ActionRow]
          /\ runtimeOperations'[a] = [runtimeOperations[a] EXCEPT !.status = "EXECUTING"]
          /\ \A b \in Actions \ {a} : runtimeOperations'[b] = runtimeOperations[b]
      BY <1>0, <1>s, <3>1, StatusSet, ZenonT(20)
    <3>3. SameBut(a) /\ runtimeOperations'[a].status = "EXECUTING"
      BY <1>0, <1>s, <2>2, <3>2, StatusRow DEF SameBut, Active
    <3>4. \A b \in Actions : SameBut(b)
      BY <3>2, <3>3, ZenonT(20) DEF SameBut
    <3>5. \A b \in Actions : At("executing", b)' => b = a
      BY <3>1 DEF At, Goto
    <3> QED
      BY <1>0, <2>2, <3>1, <3>2, <3>3, <3>4, <3>5, StatusStep
  <2>4. CASE ~Drainable(a, x)
    BY <1>e, <2>1, <2>2, <2>4, MarkedStep DEF DrainAction, Active
  <2> QED
    BY <2>3, <2>4
<1>5. ASSUME RuntimeSettle
      PROVE  RuntimeInv'
  BY <1>5, <1>e, SettleStep DEF RuntimeSettle
<1>6. ASSUME RuntimeReconcile
      PROVE  RuntimeInv'
  <2>1. PICK a \in Actions, x \in Sessions, i \in Instances, e \in 1 .. MaxEpoch :
           Rest /\ ReconcileAction(a, x, i, e)
    BY <1>6 DEF RuntimeReconcile
  <2>2. ~(runtimeOperations[a].status = "UNKNOWN" /\ runtimeOperations[a].proved)
    BY DEF RuntimeInv, ProvedIsDone
  <2>3. UNCHANGED runtimeVars
    BY <2>1, <2>2 DEF ReconcileAction, runtimeVars
  <2> QED
    BY <1>e, <2>1, <2>3, RuntimeOutsideStep DEF OutsideRuntime
<1>7. ASSUME RuntimeStopOn
      PROVE  RuntimeInv'
  <2>1. PICK x \in Sessions :
           \/ StopMark(x) /\ Goto("marked", x)
           \/ StopUnqueue(x) /\ Goto("unqueued", x)
           \/ StopPersist(x) /\ Finish
    BY <1>7 DEF RuntimeStopOn
  <2>e. \A y \in Actions : ~At("executing", y)'
    BY <1>e, <2>1
  <2>2. CASE StopMark(x)
    <3>1. \A a \in Actions : runtimeOperations'[a] \in ActionRow /\ SameBut(a)
      <4> TAKE a \in Actions
      <4>1. CASE Active(runtimeOperations[a]) /\ runtimeOperations[a].session = x
        <5>1. runtimeOperations'[a] = [runtimeOperations[a] EXCEPT !.status = "UNKNOWN"]
          BY <2>2, <4>1 DEF StopMark
        <5> QED
          BY <1>0, <1>s, <4>1, <5>1, StatusRow DEF SameBut
      <4>2. CASE ~(Active(runtimeOperations[a]) /\ runtimeOperations[a].session = x)
        <5>1. runtimeOperations'[a] = runtimeOperations[a]
          BY <2>2, <4>2 DEF StopMark
        <5> QED
          BY <1>0, <5>1 DEF SameBut
      <4> QED
        BY <4>1, <4>2
    <3>2. runtimeOperations' \in [Actions -> ActionRow]
      <4> DEFINE F(a) == IF Active(runtimeOperations[a]) /\ runtimeOperations[a].session = x
                         THEN [runtimeOperations[a] EXCEPT !.status = "UNKNOWN"]
                         ELSE runtimeOperations[a]
      <4>1. runtimeOperations' = [a \in Actions |-> F(a)]
        BY <2>2 DEF StopMark
      <4> HIDE DEF F
      <4> QED
        BY <3>1, <4>1
    <3>3. UNCHANGED <<sessions, runtimeQueue>>
      BY <2>2 DEF StopMark
    <3> QED
      BY <1>0, <2>e, <3>1, <3>2, <3>3, StatusStep
  <2>3. CASE StopUnqueue(x)
    <3>1. UNCHANGED <<sessions, runtimeOperations>> /\ runtimeQueue' \subseteq Actions
      BY <1>0, <2>3 DEF StopUnqueue
    <3>2. \A a \in Actions : runtimeOperations'[a].status = "ADMITTED" /\ a \in runtimeQueue
             => a \in runtimeQueue'
      BY <2>3, <3>1 DEF StopUnqueue
    <3> QED
      BY <1>0, <2>e, <3>1, <3>2, StatusStep DEF SameBut
  <2>4. CASE StopPersist(x)
    <3> DEFINE row == [sessions[x] EXCEPT !.state = "STOPPED"]
    <3>1. sessions' = [sessions EXCEPT ![x] = row] /\ UNCHANGED <<runtimeOperations, runtimeQueue>>
      BY <2>4, Zenon DEF StopPersist
    <3>2. /\ row \in SessionRow /\ row.state = "STOPPED"
          /\ row.instance = sessions[x].instance /\ row.generation = sessions[x].generation
      BY <1>0 DEF SessionRow
    <3> HIDE DEF row
    <3> QED
      BY <2>e, <3>1, <3>2, SessionStep, ZenonT(20)
  <2> QED
    BY <2>1, <2>2, <2>3, <2>4
<1> QED
  BY <1>1, <1>2, <1>3, <1>4, <1>5, <1>6, <1>7 DEF InsideRuntime

-----------------------------------------------------------------------------
(* The whole host. *)

HostInv == LeaseInv /\ JournalInv /\ RuntimeInv

\* Epochs only grow.
LEMMA EpochGrows ==
    ASSUME LeaseInv, LeaseNext
    PROVE  lease.epoch <= lease'.epoch
<1>0. /\ LeaseTypeOK /\ lease.epoch \in Nat /\ fence.counter \in Nat /\ lease.epoch <= fence.counter
      /\ lease \in [epoch : 0 .. MaxEpoch, generation : 0 .. MaxAuthority,
                    instance : Instances \cup {None}, expires : Nat, sequence : Nat,
                    revoked : BOOLEAN]
  BY HostLeaseAssumption, LeaseFields DEF LeaseInv, LeaseTypeOK
<1>1. ASSUME NEW g, IssueLease(g) PROVE lease.epoch <= lease'.epoch
  <2>1. lease'.epoch = fence.counter + 1
    BY <1>1, CounterIsNewest DEF IssueLease
  <2> QED
    BY <1>0, <2>1
<1>2. ASSUME NEW d, NEW n, RenewLease(d, n) PROVE lease'.epoch = lease.epoch
  <2>1. lease' = [lease EXCEPT !.expires = clock' + Ttl, !.sequence = n]
    BY <1>2 DEF RenewLease
  <2> QED
    BY <1>0, <2>1
<1>3. ASSUME lease' = [lease EXCEPT !.revoked = TRUE] \/ lease' = lease PROVE lease'.epoch = lease.epoch
  BY <1>0, <1>3
<1>4. \A i \in Instances : RotateFence(i) => lease'.epoch = lease.epoch
  BY <1>3 DEF RotateFence
<1>5. \A g : AcceptFence(g) => lease'.epoch = lease.epoch
  BY <1>3 DEF AcceptFence
<1>6. \A e : RevokeLease(e) => lease'.epoch = lease.epoch
  BY <1>3 DEF RevokeLease
<1>7. RestartLease => lease'.epoch = lease.epoch
  BY <1>3 DEF RestartLease
<1>8. UNCHANGED leaseVars => lease'.epoch = lease.epoch
  BY DEF leaseVars
<1> QED
  BY <1>0, <1>1, <1>2, <1>4, <1>5, <1>6, <1>7, <1>8 DEF LeaseNext

\* After a request that is not cut short nothing is in hand.
LEMMA HandlerPlaces ==
    /\ Rest \/ Finish => \A place \in JournalPlace \cup {"executing"} : \A x : ~At(place, x)'
    /\ \A place, y : Goto(place, y) => \A other, x : At(other, x)' => other = place
BY DEF Rest, Finish, Goto, At, Idle, JournalPlace

\* The parts of the invariant are kept by the parts of every step.
LEMMA HostStep ==
    ASSUME HostInv, [HostNext]_hostVars
    PROVE  HostInv'
<1>0. LeaseInv /\ JournalInv /\ RuntimeInv
  BY DEF HostInv
<1>p. "executing" \notin JournalPlace
  BY DEF JournalPlace
<1>1. ASSUME LeaseNext, Rest \/ Finish, JournalUncertain \/ UNCHANGED journalVars,
             RuntimeUncertain \/ UNCHANGED runtimeVars
      PROVE  HostInv'
  <2>1. LeaseInv' /\ lease.epoch <= lease'.epoch
    BY <1>0, <1>1, LeaseStep, EpochGrows
  <2>2. OutsideJournal /\ OutsideRuntime
    BY <1>1, <2>1, HandlerPlaces DEF OutsideJournal, OutsideRuntime
  <2> QED
    BY <1>0, <2>1, <2>2, JournalOutsideStep, RuntimeOutsideStep DEF HostInv
<1>2. ASSUME InsideJournal, UNCHANGED runtimeVars, \A a \in Actions : ~At("executing", a)'
      PROVE  HostInv'
  <2>1. LeaseInv'
    BY <1>0, <1>2, LeaseStep DEF LeaseNext, InsideJournal
  <2>2. OutsideRuntime
    BY <1>2 DEF OutsideRuntime
  <2> QED
    BY <1>0, <1>2, <2>1, <2>2, JournalInsideStep, RuntimeOutsideStep DEF HostInv
<1>3. ASSUME InsideRuntime, UNCHANGED leaseVars, UNCHANGED journalVars,
             \A o \in Operations : \A place \in JournalPlace : ~At(place, o)'
      PROVE  HostInv'
  <2>1. LeaseInv' /\ lease.epoch <= lease'.epoch
    BY <1>0, <1>3, LeaseStep, EpochGrows DEF LeaseNext
  <2>2. OutsideJournal
    BY <1>3, <2>1 DEF OutsideJournal
  <2> QED
    BY <1>0, <1>3, <2>1, <2>2, JournalOutsideStep, RuntimeInsideStep DEF HostInv
<1>4. CASE Bootstrap \/ HostFence \/ LeaseAcquire \/ LeaseRenew \/ Reopen
  BY <1>1, <1>4 DEF Bootstrap, HostFence, LeaseAcquire, LeaseRenew, Reopen, LeaseNext
<1>5. CASE LeaseRevoke
  <2>1. PICK d \in Document : Rest /\ RevokeLease(d.epoch) /\ UNCHANGED <<journalVars, runtimeVars>>
    BY <1>5 DEF LeaseRevoke
  <2>2. d.epoch \in 1 .. MaxEpoch
    BY DEF Document
  <2> QED
    BY <1>1, <2>1, <2>2 DEF LeaseNext
<1>6. CASE Intent \/ Dispatch \/ Reconcile \/ TickRefused
  BY <1>2, <1>6, HandlerPlaces DEF Intent, Dispatch, Reconcile, TickRefused, InsideJournal
<1>7. CASE Tick \/ TickOn
  <2>1. /\ InsideJournal /\ UNCHANGED runtimeVars
        /\ Finish \/ \E place \in JournalPlace, o \in Operations : Goto(place, o)
    BY <1>7 DEF Tick, TickOn, InsideJournal, JournalPlace
  <2>2. \A a \in Actions : ~At("executing", a)'
    BY <1>p, <2>1, HandlerPlaces
  <2> QED
    BY <1>2, <2>1, <2>2
<1>8. CASE RuntimeOpen \/ RuntimeDispatch \/ RuntimeStale \/ RuntimeSettle \/ RuntimeReconcile
  BY <1>3, <1>8, HandlerPlaces
  DEF RuntimeOpen, RuntimeDispatch, RuntimeStale, RuntimeSettle, RuntimeReconcile, InsideRuntime
<1>9. CASE RuntimeWait \/ RuntimeStopOn
  <2>1. /\ InsideRuntime /\ UNCHANGED leaseVars /\ UNCHANGED journalVars
        /\ Finish \/ \E place \in {"executing", "marked", "unqueued"} : \E x : Goto(place, x)
    BY <1>9 DEF RuntimeWait, RuntimeStopOn, InsideRuntime
  <2>2. \A o \in Operations : \A place \in JournalPlace : ~At(place, o)'
    <3>1. {"executing", "marked", "unqueued"} \cap JournalPlace = {}
      BY DEF JournalPlace
    <3> QED
      BY <2>1, <3>1, HandlerPlaces
  <2> QED
    BY <1>3, <2>1, <2>2
<1>10. CASE RuntimeStop
  <2>1. /\ LeaseNext /\ UNCHANGED journalVars /\ UNCHANGED runtimeVars
        /\ \E x : Goto("stopping", x)
    BY <1>10 DEF RuntimeStop, LeaseNext
  <2>2. LeaseInv' /\ lease.epoch <= lease'.epoch
    BY <1>0, <2>1, LeaseStep, EpochGrows
  <2>3. "stopping" \notin JournalPlace \cup {"executing"}
    BY DEF JournalPlace
  <2>4. OutsideJournal /\ OutsideRuntime
    BY <2>1, <2>2, <2>3, HandlerPlaces DEF OutsideJournal, OutsideRuntime
  <2> QED
    BY <1>0, <2>2, <2>4, JournalOutsideStep, RuntimeOutsideStep DEF HostInv
<1>11. CASE RuntimeFails
  BY <1>1, <1>11 DEF RuntimeFails, LeaseNext
<1>12. CASE UNCHANGED hostVars
  <2>1. LeaseInv'
    BY <1>0, <1>12, Zenon DEF hostVars, LeaseInv, LeaseTypeOK, OneLiveLease
  <2>2. JournalInv'
    BY <1>0, <1>12, ZenonT(20) DEF hostVars, JournalInv, JournalTypeOK, ClaimsAreBacked, DispatchedIsQueued,
       EffectsFollowEpochs, InState, HasEffect, At
  <2>3. RuntimeInv'
    BY <1>0, <1>12, Zenon DEF hostVars, RuntimeInv, RuntimeTypeOK, OneUnresolvedPerInstance,
       OneEffectPerGeneration, AdmittedIsDrainable, RowsHaveSessions, ActiveIsCurrent,
       ProvedIsDone, ExecutingIsMarked, At
  <2> QED
    BY <2>1, <2>2, <2>3 DEF HostInv
<1> QED
  BY <1>4, <1>5, <1>6, <1>7, <1>8, <1>9, <1>10, <1>11, <1>12 DEF HostNext

LEMMA HostInitially ==
    ASSUME HostInit
    PROVE  HostInv
BY LeaseInitially, JournalInitially, RuntimeInitially DEF HostInit, HostInv

LEMMA HostInvariant == HostSpec => []HostInv
<1>1. HostInit => HostInv
  BY HostInitially
<1>2. HostInv /\ [HostNext]_hostVars => HostInv'
  BY HostStep
<1> QED
  BY <1>1, <1>2, PTL DEF HostSpec

\* One lease is live and it is the lease row's; witnesses, receipts and settled
\* states of the recovery journal are backed by effects; dispatched operations
\* are queued; an instance has at most one unresolved runtime operation, and a
\* session at most one effect in a generation.
THEOREM HostCorrect ==
    HostSpec => [](/\ OneLiveLease /\ ClaimsAreBacked /\ DispatchedIsQueued /\ EffectsFollowEpochs
                   /\ OneUnresolvedPerInstance /\ OneEffectPerGeneration /\ AdmittedIsDrainable)
<1>1. HostInv => /\ OneLiveLease /\ ClaimsAreBacked /\ DispatchedIsQueued /\ EffectsFollowEpochs
                 /\ OneUnresolvedPerInstance /\ OneEffectPerGeneration /\ AdmittedIsDrainable
  BY Zenon DEF HostInv, LeaseInv, JournalInv, RuntimeInv
<1> QED
  BY <1>1, HostInvariant, PTL

\* Every step but a tick leaves the effects alone.
LEMMA OnlyTicksAct ==
    ASSUME HostNext
    PROVE  effects' = effects \/ Tick
<1>1. CASE Bootstrap \/ LeaseAcquire \/ Reopen
  BY <1>1 DEF Bootstrap, LeaseAcquire, Reopen, JournalUncertain
<1>2. CASE HostFence \/ LeaseRenew \/ LeaseRevoke
  BY <1>2 DEF HostFence, LeaseRenew, LeaseRevoke, journalVars
<1>3. CASE Intent \/ Dispatch \/ Reconcile
  BY <1>3, ZenonT(20) DEF Intent, Dispatch, Reconcile, RecordIntent, DispatchOperation, ReconcileOperation
<1>4. CASE TickRefused \/ TickOn
  BY <1>4 DEF TickRefused, TickOn, TickLeftover, TickQuarantine, TickReceipt, TickSettle, TickUnqueue
<1>5. CASE RuntimeOpen \/ RuntimeDispatch \/ RuntimeStale \/ RuntimeWait \/ RuntimeSettle
  BY <1>5 DEF RuntimeOpen, RuntimeDispatch, RuntimeStale, RuntimeWait, RuntimeSettle, journalVars
<1>6. CASE RuntimeReconcile \/ RuntimeStop \/ RuntimeStopOn \/ RuntimeFails
  BY <1>6 DEF RuntimeReconcile, RuntimeStop, RuntimeStopOn, RuntimeFails, journalVars
<1> QED
  BY <1>1, <1>2, <1>3, <1>4, <1>5, <1>6 DEF HostNext

\* No effect under a lease that was revoked or has expired, and none twice.
THEOREM EffectsFenced == HostSpec => EffectsAreFenced
<1> DEFINE Fenced ==
       \A o \in Operations :
          effects' = Append(effects, o) =>
              LET epoch == operations[o].ticket.epoch
              IN  /\ ~HasEffect(o)
                  /\ epoch \in DOMAIN history /\ ~history[epoch].revoked
                  /\ clock < history[epoch].expires
<1>1. ASSUME HostInv, [HostNext]_hostVars
      PROVE  [Fenced]_effects
  <2> SUFFICES ASSUME effects' # effects
               PROVE  Fenced
    OBVIOUS
  <2>1. Tick
    BY <1>1, OnlyTicksAct DEF hostVars
  <2>2. PICK o \in Operations : TickMutate(o)
    BY <2>1 DEF Tick
  <2>3. effects \in Seq(Operations)
    BY <1>1 DEF HostInv, JournalInv, JournalTypeOK
  <2>4. \A x \in Operations : effects' = Append(effects, x) => x = o
    <3> TAKE x \in Operations
    <3> HAVE effects' = Append(effects, x)
    <3>1. Append(effects, x)[Len(effects) + 1] = x /\ Append(effects, o)[Len(effects) + 1] = o
      BY <2>3
    <3> QED
      BY <2>2, <3>1 DEF TickMutate
  <2>5. ~HasEffect(o)
    BY <1>1, <2>2 DEF HostInv, JournalInv, ClaimsAreBacked, TickMutate, Runnable
  <2>6. /\ lease.epoch = operations[o].ticket.epoch /\ ~lease.revoked /\ clock < lease.expires
    BY <2>2 DEF TickMutate, TicketAuthority
  <2>7. /\ lease.epoch \in DOMAIN history /\ ~history[lease.epoch].revoked
        /\ history[lease.epoch].expires = lease.expires
    BY <1>1, <2>6 DEF HostInv, LeaseInv, OneLiveLease
  <2> QED
    BY <2>4, <2>5, <2>6, <2>7, Zenon
<1> QED
  BY <1>1, HostInvariant, PTL DEF HostSpec, EffectsAreFenced

\* An operation reported uncertain without a witness stays as it is.
THEOREM UncertainForGood == HostSpec => NoLateEffect
<1> DEFINE Stays ==
       \A o \in Operations :
          operations[o].state = "UNKNOWN" /\ ~operations[o].witness => operations'[o] = operations[o]
<1>1. ASSUME HostInv, [HostNext]_hostVars
      PROVE  Stays
  <2> SUFFICES ASSUME NEW o \in Operations,
                      operations[o].state = "UNKNOWN", ~operations[o].witness
               PROVE  operations'[o] = operations[o]
    OBVIOUS
  <2>0. operations \in [Operations -> OperationRow] /\ JournalInv
    BY <1>1, Zenon DEF HostInv, JournalInv, JournalTypeOK, OperationRow, Ticket
  <2>1. CASE JournalUncertain
    BY <2>1 DEF JournalUncertain, Uncertain
  <2>2. CASE UNCHANGED journalVars
    BY <2>2 DEF journalVars
  <2>3. CASE Intent \/ Dispatch \/ Reconcile
    BY <2>0, <2>3, ZenonT(20) DEF Intent, Dispatch, Reconcile, RecordIntent, DispatchOperation, ReconcileOperation
  <2>4. CASE TickRefused \/ Tick
    BY <2>0, <2>4, ZenonT(20)
    DEF TickRefused, Tick, TickLeftover, TickQuarantine, TickMutate, Runnable
  <2>5. CASE TickOn
    <3>1. PICK x \in Operations :
             \/ UNCHANGED operations
             \/ At("receipted", x) /\ operations' = [operations EXCEPT ![x].state = "SETTLED"]
      BY <2>5 DEF TickOn, TickReceipt, TickSettle, TickUnqueue
    <3>2. At("receipted", x) => operations[x].witness
      BY <2>0, Zenon DEF JournalInv
    <3> QED
      BY <2>0, <3>1, <3>2
  <2>6. CASE Bootstrap \/ LeaseAcquire \/ Reopen
    BY <2>1, <2>6 DEF Bootstrap, LeaseAcquire, Reopen
  <2>7. CASE HostFence \/ LeaseRenew \/ LeaseRevoke
    BY <2>2, <2>7 DEF HostFence, LeaseRenew, LeaseRevoke
  <2>8. CASE RuntimeOpen \/ RuntimeDispatch \/ RuntimeStale \/ RuntimeWait \/ RuntimeSettle
    BY <2>2, <2>8, ZenonT(20) DEF RuntimeOpen, RuntimeDispatch, RuntimeStale, RuntimeWait, RuntimeSettle
  <2>9. CASE RuntimeReconcile \/ RuntimeStop \/ RuntimeStopOn \/ RuntimeFails
    BY <2>2, <2>9, Zenon DEF RuntimeReconcile, RuntimeStop, RuntimeStopOn, RuntimeFails
  <2>10. CASE UNCHANGED hostVars
    BY <2>10, Zenon DEF hostVars
  <2> QED
    BY <1>1, <2>3, <2>4, <2>5, <2>6, <2>7, <2>8, <2>9, <2>10, Zenon DEF HostNext
<1> QED
  BY <1>1, HostInvariant, PTL DEF HostSpec, NoLateEffect

\* No caller with a stale lease takes an admitted operation of the current one
\* away: a wait under the current lease finds it drainable.
THEOREM StaleHarmless == HostSpec => StaleCallersAreHarmless
<1> DEFINE Harmless ==
       \A a \in Actions :
          /\ runtimeOperations[a].status = "ADMITTED"
          /\ AuthorityCurrent(runtimeOperations[a].instance, runtimeOperations[a].epoch)
          /\ runtimeOperations'[a].status = "UNKNOWN"
          => \/ At("stopping", runtimeOperations[a].session)
             \/ fence'.state = "RESTART_REQUIRED" \/ fence'.generation # fence.generation
             \/ lease'.epoch # lease.epoch
<1>1. ASSUME HostInv, [HostNext]_hostVars
      PROVE  Harmless
  <2> SUFFICES ASSUME NEW a \in Actions, runtimeOperations[a].status = "ADMITTED",
                      AuthorityCurrent(runtimeOperations[a].instance, runtimeOperations[a].epoch),
                      runtimeOperations'[a].status = "UNKNOWN"
               PROVE  \/ At("stopping", runtimeOperations[a].session)
                      \/ fence'.state = "RESTART_REQUIRED" \/ fence'.generation # fence.generation
                      \/ lease'.epoch # lease.epoch
    BY Zenon
  <2>0. /\ RuntimeInv /\ LeaseInv /\ runtimeOperations \in [Actions -> ActionRow]
        /\ fence.generation \in Nat /\ lease.epoch \in Nat /\ fence.counter \in Nat
        /\ lease.epoch <= fence.counter
    <3>1. RuntimeInv /\ LeaseInv
      BY <1>1 DEF HostInv
    <3>2. runtimeOperations \in [Actions -> ActionRow]
      BY <3>1, RuntimeFields, Zenon DEF RuntimeInv
    <3>3. /\ fence.generation \in Nat /\ lease.epoch \in Nat /\ fence.counter \in Nat
          /\ lease.epoch <= fence.counter
      BY <3>1, LeaseNumbers, Zenon
    <3> QED
      BY <3>1, <3>2, <3>3, Zenon
  <2>1. ~UNCHANGED runtimeVars
    BY DEF runtimeVars
  <2>2. CASE Bootstrap
    <3>1. fence'.generation = fence.generation + 1
      BY <2>2 DEF Bootstrap, RotateFence
    <3>2. fence.generation + 1 # fence.generation
      BY <2>0, GrowsMeansChanges, Zenon
    <3> QED
      BY <3>1, <3>2, Zenon
  <2>3. CASE LeaseAcquire
    <3>1. lease'.epoch = fence.counter + 1
      BY <2>0, <2>3, CounterIsNewest DEF LeaseAcquire, IssueLease
    <3>2. fence.counter + 1 # lease.epoch
      BY <2>0, GrowsMeansChanges, Zenon
    <3> QED
      BY <3>1, <3>2, Zenon
  <2>4. CASE Reopen
    <3>1. fence.state = "READY"
      BY Zenon DEF AuthorityCurrent
    <3>2. fence' = [fence EXCEPT !.state = "RESTART_REQUIRED", !.counter = EpochCounter]
      BY <2>4, <3>1 DEF Reopen, RestartLease
    <3>3. fence \in [state : AuthorityState, generation : 0 .. MaxAuthority,
                     counter : 0 .. MaxEpoch, instance : Instances \cup {None}]
      BY <2>0 DEF LeaseInv, LeaseTypeOK
    <3> QED
      BY <3>2, <3>3
  <2>5. ~(RuntimeOpen \/ RuntimeSettle \/ RuntimeReconcile)
    <3>1. CASE RuntimeOpen
      BY <3>1, Zenon DEF RuntimeOpen, OpenSession
    <3>2. CASE RuntimeSettle
      <4>1. PICK b \in Actions : At("executing", b) /\ SettleAction(b)
        BY <3>2, Zenon DEF RuntimeSettle
      <4>2. b # a
        BY <2>0, <4>1, Zenon DEF RuntimeInv, ExecutingIsMarked
      <4> QED
        BY <2>0, <4>1, <4>2 DEF SettleAction
    <3>3. CASE RuntimeReconcile
      <4>1. PICK b \in Actions, s \in Sessions, i \in Instances, e \in 1 .. MaxEpoch :
               ReconcileAction(b, s, i, e)
        BY <3>3 DEF RuntimeReconcile
      <4> QED
        BY <2>0, <4>1 DEF ReconcileAction
    <3> QED
      BY <3>1, <3>2, <3>3
  <2>6. ~RuntimeDispatch
    <3>1. SUFFICES ASSUME NEW b \in Actions, NEW s \in Sessions, NEW i \in Instances,
                          NEW e \in 1 .. MaxEpoch, NEW g \in 0 .. MaxGeneration,
                          AdmitAction(b, s, i, e, g)
                   PROVE  FALSE
      BY DEF RuntimeDispatch
    <3>2. b # a /\ \E row : runtimeOperations' = [runtimeOperations EXCEPT ![b] = row]
      BY <3>1, ZenonT(20) DEF AdmitAction
    <3> QED
      BY <2>0, <3>2
  <2>7. ~RuntimeStale
    <3>1. SUFFICES ASSUME NEW b \in Actions, NEW s \in Sessions, NEW i \in Instances,
                          NEW e \in 1 .. MaxEpoch, MarkStale(b, s, i, e)
                   PROVE  FALSE
      BY ZenonT(20) DEF RuntimeStale
    <3>2. b # a
      BY <3>1 DEF MarkStale
    <3> QED
      BY <2>0, <3>1, <3>2 DEF MarkStale, MarkUnknown
  <2>8. ~RuntimeWait
    <3>1. SUFFICES ASSUME NEW b \in Actions, NEW s \in Sessions, NEW i \in Instances,
                          NEW e \in 1 .. MaxEpoch, DrainAction(b, s, i, e)
                   PROVE  FALSE
      BY Zenon DEF RuntimeWait
    <3>2. CASE b = a
      <4>1. Drainable(a, s)
        BY <2>0, <3>1, <3>2 DEF DrainAction, Drainable, Belongs, RuntimeInv, AdmittedIsDrainable
      <4>2. runtimeOperations' = [runtimeOperations EXCEPT ![a].status = "EXECUTING"]
        BY <3>1, <3>2, <4>1 DEF DrainAction
      <4>3. "EXECUTING" \in RuntimeStatus /\ RuntimeTypeOK
        BY <2>0 DEF RuntimeStatus, RuntimeInv
      <4>4. runtimeOperations'[a].status = "EXECUTING"
        BY <2>0, <4>2, <4>3, StatusSet, StatusRow
      <4> QED
        BY <4>4
    <3>3. CASE b # a
      BY <2>0, <3>1, <3>3 DEF DrainAction, MarkUnknown
    <3> QED
      BY <3>2, <3>3
  <2>9. CASE RuntimeStopOn
    BY <2>0, <2>9 DEF RuntimeStopOn, StopMark, StopUnqueue, StopPersist
  <2>10. ~(HostFence \/ LeaseRenew \/ LeaseRevoke \/ RuntimeStop \/ RuntimeFails)
    BY <2>1, Zenon DEF HostFence, LeaseRenew, LeaseRevoke, RuntimeStop, RuntimeFails
  <2>11. ~(Intent \/ Dispatch \/ Reconcile \/ TickRefused \/ Tick \/ TickOn)
    BY <2>1, ZenonT(20) DEF Intent, Dispatch, Reconcile, TickRefused, Tick, TickOn
  <2>12. ~UNCHANGED hostVars
    BY DEF hostVars
  <2> QED
    BY <1>1, <2>2, <2>3, <2>4, <2>5, <2>6, <2>7, <2>8, <2>9, <2>10, <2>11, <2>12, Zenon DEF HostNext
<1> QED
  BY <1>1, HostInvariant, PTL DEF HostSpec, StaleCallersAreHarmless
===============================================================================
