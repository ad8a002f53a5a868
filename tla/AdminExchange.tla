---------------------------- MODULE AdminExchange ----------------------------
(***************************************************************************)
(* The local admin exchange: transport workers (admin/server.rs), the      *)
(* bounded queue and the idempotency cache (admin/queue.rs) and the owning *)
(* loop that drains the queue and dispatches into the operator ledger      *)
(* (service.rs, runtime_admin.rs).                                         *)
(*                                                                         *)
(* A worker serves one connection at a time.  The queue, the cache and the *)
(* connections live in memory and are lost when the process dies; the      *)
(* ledger is not.  The clocks of the caller's deadline and of the worker's *)
(* wait are not modelled: either may find it passed or not.                *)
(***************************************************************************)
EXTENDS OperatorLedger, FiniteSets

CONSTANTS
    Workers,        \* transport workers
    Offered,        \* the requests callers send, without their request id
    NoWorker,       \* a dropped reply channel, or a free gate
    QueueCapacity,  \* the capacity of the admin queue
    CacheCapacity,  \* idempotency_capacity
    BatchLimit,     \* MAX_DRAIN_BATCH
    MaxSends,       \* bound on the requests sent
    MaxCrashes      \* bound on the process deaths

ASSUME ExchangeAssumption ==
    /\ QueueCapacity \in Nat \ {0} /\ CacheCapacity \in Nat \ {0}
    /\ BatchLimit \in Nat \ {0} /\ MaxCrashes \in Nat
    /\ MaxSends \in Nat /\ Ids = 1 .. MaxSends
    /\ NoWorker \notin Workers
    /\ Offered \subseteq [key : Keys, name : Mutation, args : Args]

VARIABLES
    conn,     \* conn[w]: what worker w is doing, for which request, and its reply channel
    records,  \* CacheState::records
    order,    \* CacheState::order
    queue,    \* the channel of the admin queue
    depth,    \* QueueInner::depth
    gate,     \* the holder of QueueInner::gate across a step, or NoWorker
    loop,     \* the owning loop: its phase, what is left of the batch, its item
    acked,    \* ghost: commands some caller was told were accepted
    sent,     \* ghost: requests sent so far
    crashes   \* ghost: process deaths so far

memory == <<conn, records, order, queue, depth, gate, loop>>
vars == <<ledgerVars, memory, acked, sent, crashes>>

\* The command a request stands for: what its fingerprint covers.
Command(r) == [key |-> r.key, name |-> r.name, args |-> r.args]

NoItem   == [none |-> TRUE]
NoRecord == [state |-> "none"]
Idle     == [phase |-> "idle"]
LoopRest == [phase |-> "reconcile", left |-> 0, item |-> NoItem, reply |-> "error"]

MemoryInit ==
    /\ conn = [w \in Workers |-> Idle]
    /\ records = [k \in Keys |-> NoRecord]
    /\ order = <<>>
    /\ queue = <<>>
    /\ depth = 0
    /\ gate = NoWorker
    /\ loop = LoopRest

\* The mode plays no part in the exchange: a new deployment starts stopped.
Init ==
    /\ LedgerInit /\ desiredMode = "Stopped"
    /\ MemoryInit
    /\ acked = {}
    /\ sent = 0
    /\ crashes = 0

Known(k) == records[k].state # "none"
Stored == {k \in Keys : Known(k)}

\* What the caller learns from a reply.
Tell(r, status) == acked' = IF status = "ok" THEN acked \cup {Command(r)} ELSE acked

-----------------------------------------------------------------------------
(* A transport worker: handle_connection. *)

\* A caller connects with one of the offered commands and a fresh request id.
Receives(w, r) ==
    /\ conn[w].phase = "idle"
    /\ sent < MaxSends
    /\ r.id = sent + 1
    /\ sent' = sent + 1

\* IdempotencyCache::begin, for a key the cache knows: the retained response
\* of the same command, IN_PROGRESS for a pending one, CONFLICT for another.
BeginKnown(w, r) ==
    /\ Receives(w, r)
    /\ Known(r.key)
    /\ LET record == records[r.key]
       IN  Tell(r, IF record.state = "complete" /\ record.command = Command(r)
                   THEN record.reply ELSE "error")
    /\ UNCHANGED <<ledgerVars, memory, crashes>>

Remember(r) ==
    records' = [records EXCEPT ![r.key] = [state |-> "pending", command |-> Command(r)]]

\* Mutant: the oldest record is evicted whether or not it is pending.
BeginNewEvictingAny(w, r) ==
    /\ Receives(w, r)
    /\ ~Known(r.key)
    /\ \/ /\ Cardinality(Stored) < CacheCapacity
          /\ Remember(r)
          /\ order' = Append(order, r.key)
       \/ /\ Cardinality(Stored) >= CacheCapacity
          /\ records' = [records EXCEPT ![Head(order)] = NoRecord,
                                        ![r.key] = [state |-> "pending", command |-> Command(r)]]
          /\ order' = Append(Tail(order), r.key)
    /\ conn' = [conn EXCEPT ![w] = [phase |-> "begun", request |-> r]]
    /\ UNCHANGED <<ledgerVars, queue, depth, gate, loop, acked, crashes>>

\* begin, for a new key that gets a slot: a free one, or that of the oldest
\* record when that one is complete.
BeginNew(w, r) ==
    /\ Receives(w, r)
    /\ ~Known(r.key)
    /\ \/ /\ Cardinality(Stored) < CacheCapacity
          /\ Remember(r)
          /\ order' = Append(order, r.key)
       \/ /\ Cardinality(Stored) >= CacheCapacity
          /\ records[Head(order)].state = "complete"
          /\ records' = [records EXCEPT ![Head(order)] = NoRecord,
                                        ![r.key] = [state |-> "pending", command |-> Command(r)]]
          /\ order' = Append(Tail(order), r.key)
    /\ conn' = [conn EXCEPT ![w] = [phase |-> "begun", request |-> r]]
    /\ UNCHANGED <<ledgerVars, queue, depth, gate, loop, acked, crashes>>

\* begin, when the oldest record is pending: it goes to the back of the order
\* and the request is refused with CONFLICT.
BeginNoSlot(w, r) ==
    /\ Receives(w, r)
    /\ ~Known(r.key)
    /\ Cardinality(Stored) >= CacheCapacity
    /\ records[Head(order)].state = "pending"
    /\ order' = Append(Tail(order), Head(order))
    /\ UNCHANGED <<ledgerVars, conn, records, queue, depth, gate, loop, acked, crashes>>

\* AdminQueue::enqueue under the gate: try_send, then the count.
EnqueueSend(w) ==
    /\ conn[w].phase = "begun"
    /\ gate = NoWorker
    /\ Len(queue) < QueueCapacity
    /\ queue' = Append(queue, [request |-> conn[w].request, to |-> w])
    /\ gate' = w
    /\ conn' = [conn EXCEPT ![w].phase = "sent"]
    /\ UNCHANGED <<ledgerVars, records, order, depth, loop, acked, sent, crashes>>

EnqueueCount(w) ==
    /\ conn[w].phase = "sent"
    /\ depth' = depth + 1
    /\ gate' = NoWorker
    /\ conn' = [conn EXCEPT ![w] = [phase |-> "waiting", request |-> conn[w].request,
                                    reply |-> "none"]]
    /\ UNCHANGED <<ledgerVars, records, order, queue, loop, acked, sent, crashes>>

EnqueueFull(w) ==
    /\ conn[w].phase = "begun"
    /\ gate = NoWorker
    /\ Len(queue) >= QueueCapacity
    /\ conn' = [conn EXCEPT ![w].phase = "refused"]
    /\ UNCHANGED <<ledgerVars, records, order, queue, depth, gate, loop, acked, sent, crashes>>

\* IdempotencyCache::abandon, then BUSY.
Abandon(w) ==
    /\ conn[w].phase = "refused"
    /\ LET r == conn[w].request
       IN  IF records[r.key] = [state |-> "pending", command |-> Command(r)]
           THEN /\ records' = [records EXCEPT ![r.key] = NoRecord]
                /\ order' = SelectSeq(order, LAMBDA k : k # r.key)
           ELSE UNCHANGED <<records, order>>
    /\ conn' = [conn EXCEPT ![w] = Idle]
    /\ UNCHANGED <<ledgerVars, queue, depth, gate, loop, acked, sent, crashes>>

\* recv_timeout: the reply, or TIMEOUT while the item stays where it is.
ReceiveReply(w) ==
    /\ conn[w].phase = "waiting"
    /\ conn[w].reply # "none"
    /\ Tell(conn[w].request, conn[w].reply)
    /\ conn' = [conn EXCEPT ![w] = Idle]
    /\ UNCHANGED <<ledgerVars, records, order, queue, depth, gate, loop, sent, crashes>>

DropChannel(item, w) == IF item # NoItem /\ item.to = w THEN [item EXCEPT !.to = NoWorker] ELSE item

GiveUp(w) ==
    /\ conn[w].phase = "waiting"
    /\ conn[w].reply = "none"
    /\ conn' = [conn EXCEPT ![w] = Idle]
    /\ queue' = [i \in DOMAIN queue |-> DropChannel(queue[i], w)]
    /\ loop' = [loop EXCEPT !.item = DropChannel(loop.item, w)]
    /\ UNCHANGED <<ledgerVars, records, order, depth, gate, acked, sent, crashes>>

-----------------------------------------------------------------------------
(* The owning loop: drain_admin and AdminQueue::drain. *)

StartDrain ==
    /\ loop.phase = "reconcile"
    /\ loop' = [loop EXCEPT !.phase = "drain", !.left = BatchLimit]
    /\ UNCHANGED <<ledgerVars, conn, records, order, queue, depth, gate, acked, sent, crashes>>

\* Mutant: an item is taken without the gate.
TakeUngated ==
    /\ loop.phase = "drain" /\ loop.left > 0
    /\ queue # <<>>
    /\ queue' = Tail(queue)
    /\ depth' = depth - 1
    /\ loop' = [loop EXCEPT !.phase = "taken", !.left = @ - 1, !.item = Head(queue)]
    /\ UNCHANGED <<ledgerVars, conn, records, order, gate, acked, sent, crashes>>

Take ==
    /\ loop.phase = "drain" /\ loop.left > 0
    /\ gate = NoWorker
    /\ queue # <<>>
    /\ queue' = Tail(queue)
    /\ depth' = depth - 1
    /\ loop' = [loop EXCEPT !.phase = "taken", !.left = @ - 1, !.item = Head(queue)]
    /\ UNCHANGED <<ledgerVars, conn, records, order, gate, acked, sent, crashes>>

\* Mutant: the drain ends although an item is waiting and nothing was taken.
EndDrainAtOnce ==
    /\ loop.phase = "drain"
    /\ loop' = LoopRest
    /\ UNCHANGED <<ledgerVars, conn, records, order, queue, depth, gate, acked, sent, crashes>>

EndDrain ==
    /\ loop.phase = "drain"
    /\ loop.left = 0 \/ (gate = NoWorker /\ queue = <<>>)
    /\ loop' = LoopRest
    /\ UNCHANGED <<ledgerVars, conn, records, order, queue, depth, gate, acked, sent, crashes>>

Decide(reply) ==
    /\ loop.phase = "taken"
    /\ loop' = [loop EXCEPT !.phase = "decided", !.reply = reply]
    /\ UNCHANGED <<conn, records, order, queue, depth, gate, acked, sent, crashes>>

\* The caller's deadline passed: TIMEOUT without a dispatch.
Expire == Decide("timeout") /\ UNCHANGED ledgerVars

\* Mutant: the reply is decided before the transaction, which then fails.
DispatchAcceptedEarly ==
    Decide("ok") /\ (Admit(loop.item.request) \/ UNCHANGED ledgerVars)

\* A dispatch that admits the command.
DispatchAccepted ==
    Decide("ok") /\ Admit(loop.item.request)

\* A dispatch answered from a retained receipt.
DispatchReplayed ==
    Decide("ok") /\ Replays(loop.item.request) /\ UNCHANGED ledgerVars

\* A dispatch refused by the ledger, or a transaction that failed.
DispatchRefused == Decide("error") /\ UNCHANGED ledgerVars

\* IdempotencyCache::complete.
Complete ==
    /\ loop.phase = "decided"
    /\ LET r == loop.item.request
       IN  records' = IF records[r.key] = [state |-> "pending", command |-> Command(r)]
                      THEN [records EXCEPT ![r.key] =
                              [state |-> "complete", command |-> Command(r), reply |-> loop.reply]]
                      ELSE records
    /\ loop' = [loop EXCEPT !.phase = "completed"]
    /\ UNCHANGED <<ledgerVars, conn, order, queue, depth, gate, acked, sent, crashes>>

\* The response is sent to the worker, unless it dropped its channel.
Respond ==
    /\ loop.phase = "completed"
    /\ LET w == loop.item.to
       IN  IF w = NoWorker THEN UNCHANGED conn
           ELSE conn' = [conn EXCEPT ![w].reply = loop.reply]
    /\ loop' = [loop EXCEPT !.phase = "drain", !.item = NoItem, !.reply = "error"]
    /\ UNCHANGED <<ledgerVars, records, order, queue, depth, gate, acked, sent, crashes>>

-----------------------------------------------------------------------------

\* The process dies and is started again on the same store.
Crash ==
    /\ crashes < MaxCrashes
    /\ crashes' = crashes + 1
    /\ conn' = [w \in Workers |-> Idle]
    /\ records' = [k \in Keys |-> NoRecord]
    /\ order' = <<>> /\ queue' = <<>> /\ depth' = 0
    /\ gate' = NoWorker /\ loop' = LoopRest
    /\ UNCHANGED <<ledgerVars, acked, sent>>

Begin(w, r) == BeginKnown(w, r) \/ BeginNew(w, r) \/ BeginNoSlot(w, r)

Serve(w) ==
    \/ EnqueueSend(w) \/ EnqueueCount(w) \/ EnqueueFull(w)
    \/ Abandon(w) \/ ReceiveReply(w) \/ GiveUp(w)

Loop ==
    \/ StartDrain \/ Take \/ EndDrain
    \/ Expire \/ DispatchAccepted \/ DispatchReplayed \/ DispatchRefused
    \/ Complete \/ Respond

Next ==
    \/ \E w \in Workers, o \in Offered, d \in Ids :
          Begin(w, [key |-> o.key, id |-> d, name |-> o.name, args |-> o.args])
    \/ \E w \in Workers : Serve(w)
    \/ Loop
    \/ Crash

Spec == Init /\ [][Next]_vars

\* The loop and the workers run; callers need not send anything more.
FairSpec == Spec /\ WF_vars(Loop) /\ \A w \in Workers : WF_vars(Serve(w))

-----------------------------------------------------------------------------
(* Properties. *)

\* The queue keeps to its capacity, and its count never wraps below zero and is
\* its length whenever nobody holds the gate.
DepthAgrees ==
    /\ Len(queue) <= QueueCapacity
    /\ depth >= 0 /\ (gate = NoWorker => depth = Len(queue))

\* However workers, evictions, refusals and the loop interleave, the eviction
\* order lists every cached key once and the cache keeps to its capacity; and
\* the diagnostic depth is the length of the queue whenever nobody holds the
\* gate, so it never wraps below zero (admin/queue.rs 96 to 157).
DepthAndOrderAgree ==
    /\ Cardinality(Stored) <= CacheCapacity
    /\ {order[i] : i \in DOMAIN order} = Stored /\ Len(order) = Cardinality(Stored)
    /\ DepthAgrees

\* Who still has to decide the request with key k.
Owners(k) ==
    {<<"worker", w>> : w \in {v \in Workers : /\ conn[v].phase \in {"begun", "refused"}
                                              /\ conn[v].request.key = k}}
    \cup {<<"queue", i>> : i \in {j \in DOMAIN queue : queue[j].request.key = k}}
    \cup {<<"loop", 0>> : i \in {j \in {0} : /\ loop.phase \in {"taken", "decided"}
                                             /\ loop.item.request.key = k}}

\* A key is pending exactly while one actor still owes it a decision: a retry
\* can neither put a second copy of the command in the queue nor be told
\* IN_PROGRESS for a command nobody will decide.
PendingIsOwedOnce ==
    \A k \in Keys :
        IF records[k].state = "pending" THEN \E o \in Owners(k) : Owners(k) = {o}
                                        ELSE Owners(k) = {}

\* A caller that was told a command was accepted, by the loop, by the cache or
\* by a replay after a restart, can rely on its receipt: it is in the ledger.
AcknowledgedIsDurable ==
    \A c \in acked : \E i \in DOMAIN ledger :
        ledger[i].key = c.key /\ ledger[i].name = c.name /\ ledger[i].args = c.args

\* The main loop decides every request it has accepted, also when the caller
\* has given up: no key stays pending (docs/admin-control.md 251 to 255).
PendingIsResolved ==
    \A k \in Keys : (records[k].state = "pending") ~> (records[k].state # "pending")
==============================================================================
