-------------------------- MODULE AdminExchangeProofs --------------------------
(***************************************************************************)
(* The admin exchange, for any workers, keys, capacities and deaths: it    *)
(* implements the operator ledger, what a caller is told is durable, and a *)
(* key is pending while exactly one actor still owes it a decision.        *)
(* OwedInv says who holds a pending command and that nobody else has one   *)
(* of its key; ChannelInv ties the reply channel of an item to the worker  *)
(* that waits for it; AckInv says that every "ok" on its way to a caller   *)
(* has its receipt; DepthInv counts the worker between send and count.     *)
(***************************************************************************)
EXTENDS AdminExchange, TLAPS

CommandRow == [key : Keys, name : Mutation, args : Args]
Item       == [request : Request, to : Workers \cup {NoWorker}]
Answer     == {"ok", "error", "timeout"}
ConnRow    == {Idle} \cup [phase : {"begun", "sent", "refused"}, request : Request]
              \cup [phase : {"waiting"}, request : Request, reply : Answer \cup {"none"}]
RecordRow  == {NoRecord} \cup [state : {"pending"}, command : CommandRow]
              \cup [state : {"complete"}, command : CommandRow, reply : Answer]
HasItem    == {"taken", "decided", "completed"}

\* The loop has an item from the time it took it until it responded.
LoopTypeOK ==
    /\ DOMAIN loop = {"phase", "left", "item", "reply"}
    /\ loop.phase \in {"reconcile", "drain"} \cup HasItem
    /\ loop.reply \in Answer
    /\ loop.phase \in HasItem => loop.item \in Item
    /\ loop.phase \notin HasItem => loop.item = NoItem

ExchangeTypeOK ==
    /\ ledger \in Seq(Receipt) /\ jobs \in Nat
    /\ conn \in [Workers -> ConnRow]
    /\ records \in [Keys -> RecordRow]
    /\ queue \in Seq(Item)
    /\ LoopTypeOK

\* The phases of a connection tell its fields.
LEMMA ConnFacts ==
    ASSUME NEW c \in ConnRow
    PROVE  /\ c.phase \in {"idle", "begun", "sent", "refused", "waiting"}
           /\ c.phase # "idle" => c.request \in Request
           /\ c.phase \in {"begun", "sent", "refused"} =>
                 c \in [phase : {"begun", "sent", "refused"}, request : Request]
           /\ c.phase = "waiting" =>
                 c \in [phase : {"waiting"}, request : Request, reply : Answer \cup {"none"}]
BY DEF ConnRow, Idle

\* The state of a record tells its fields.
LEMMA RecordFacts ==
    ASSUME NEW c \in RecordRow
    PROVE  /\ c.state \in {"none", "pending", "complete"}
           /\ c.state # "none" => c.command \in CommandRow
           /\ c.state = "complete" => c.reply \in Answer
BY DEF RecordRow, NoRecord

\* The loop never takes an item for no item.
LEMMA ItemIsSomething == ASSUME NEW i \in Item PROVE i # NoItem
<1>1. DOMAIN i = {"request", "to"}
  BY DEF Item
<1>2. DOMAIN NoItem = {"none"}
  BY DEF NoItem
<1> QED
  BY <1>1, <1>2

\* A dropped channel leaves the request, and no channel to the worker.
LEMMA DropFacts ==
    ASSUME NEW i \in Item, NEW w \in Workers
    PROVE  /\ DropChannel(i, w) \in Item
           /\ DropChannel(i, w).request = i.request
           /\ DropChannel(i, w).to # w
           /\ DropChannel(i, w).to # NoWorker => DropChannel(i, w).to = i.to
BY ItemIsSomething, ExchangeAssumption DEF DropChannel, Item

\* A request sent by a caller is one of the ledger's requests.
LEMMA OfferedRequest ==
    ASSUME NEW o \in Offered, NEW d \in Ids
    PROVE  [key |-> o.key, id |-> d, name |-> o.name, args |-> o.args] \in Request
BY ExchangeAssumption DEF Request

\* The command of a request.
LEMMA CommandFacts ==
    ASSUME NEW r \in Request
    PROVE  /\ Command(r) \in CommandRow /\ r.key \in Keys /\ Command(r).key = r.key
           /\ [state |-> "pending", command |-> Command(r)] \in RecordRow
           /\ [state |-> "pending", command |-> Command(r)].state = "pending"
           /\ [phase |-> "begun", request |-> r] \in ConnRow
           /\ [phase |-> "waiting", request |-> r, reply |-> "none"] \in ConnRow
           /\ \A a \in Answer :
                 [state |-> "complete", command |-> Command(r), reply |-> a] \in RecordRow
BY DEF Request, Command, CommandRow, RecordRow, ConnRow

-----------------------------------------------------------------------------
(* The ledger under the exchange. *)

\* The ledger has a receipt of the command c.
Receipted(c) ==
    \E i \in DOMAIN ledger : ledger[i].key = c.key /\ ledger[i].name = c.name
                               /\ ledger[i].args = c.args

\* An admission appends the receipt of its command.
LEMMA AdmitFacts ==
    ASSUME NEW r \in Request, ledger \in Seq(Receipt), jobs \in Nat, Admit(r)
    PROVE  /\ ledger' \in Seq(Receipt) /\ jobs' \in Nat
           /\ \A c : Receipted(c) => Receipted(c)'
           /\ Receipted(Command(r))'
<1>1. jobs' \in Nat
  BY DEF Admit, AdmitCommand, AdmitJobSubmission, AdmitDisposition
<1>2. PICK j \in Nat : Record(r, j)
  BY DEF Admit, AdmitCommand, AdmitJobSubmission, AdmitDisposition
<1>a. [key |-> r.key, id |-> r.id, name |-> r.name, args |-> r.args, job |-> j,
       durable |-> FALSE] \in Receipt
  BY DEF Receipt, Request
<1>3. PICK row \in Receipt : /\ ledger' = Append(ledger, row)
                            /\ row.key = r.key /\ row.name = r.name /\ row.args = r.args
  BY <1>a, <1>2 DEF Record
<1>4. ledger' \in Seq(Receipt) /\ Len(ledger') = Len(ledger) + 1
  BY <1>3
<1>5. \A i \in DOMAIN ledger : i \in DOMAIN ledger' /\ ledger'[i] = ledger[i]
  BY <1>3, <1>4
<1>6. Len(ledger') \in DOMAIN ledger' /\ ledger'[Len(ledger')] = row
  BY <1>3, <1>4
<1>7. \A c : Receipted(c) => Receipted(c)'
  BY <1>5 DEF Receipted
<1>8. Receipted(Command(r))'
  BY <1>3, <1>6 DEF Receipted, Command
<1> QED
  BY <1>1, <1>4, <1>7, <1>8

\* A step of the exchange admits the item's command or leaves the ledger alone.
LEMMA LedgerStep ==
    ASSUME Next, ExchangeTypeOK
    PROVE  \/ UNCHANGED ledgerVars
           \/ /\ DispatchAccepted /\ loop.item.request \in Request /\ Admit(loop.item.request)
<1>1. CASE \E w \in Workers, o \in Offered, d \in Ids :
             Begin(w, [key |-> o.key, id |-> d, name |-> o.name, args |-> o.args])
  BY <1>1 DEF Begin, BeginKnown, BeginNew, BeginNoSlot
<1>2. CASE \E w \in Workers : Serve(w)
  BY <1>2 DEF Serve, EnqueueSend, EnqueueCount, EnqueueFull, Abandon, ReceiveReply, GiveUp
<1>3. CASE Loop /\ ~DispatchAccepted
  BY <1>3 DEF Loop, StartDrain, Take, EndDrain, Expire, DispatchReplayed, DispatchRefused,
              Complete, Respond
<1>4. CASE DispatchAccepted
  BY <1>4 DEF DispatchAccepted, Decide, ExchangeTypeOK, LoopTypeOK, HasItem, Item
<1>5. CASE Crash
  BY <1>5 DEF Crash
<1> QED
  BY <1>1, <1>2, <1>3, <1>4, <1>5 DEF Next

\* Receipts are kept by every step, and an accepted dispatch adds its own.
LEMMA ReceiptStep ==
    ASSUME [Next]_vars, ExchangeTypeOK
    PROVE  /\ ledger' \in Seq(Receipt) /\ jobs' \in Nat
           /\ \A c : Receipted(c) => Receipted(c)'
           /\ \A r \in Request : DispatchAccepted /\ r = loop.item.request => Receipted(Command(r))'
<1>1. CASE UNCHANGED ledgerVars /\ ~DispatchAccepted
  BY <1>1 DEF ledgerVars, ExchangeTypeOK, Receipted
<1>2. CASE DispatchAccepted
  <2>1. PICK r \in Request : r = loop.item.request /\ Admit(r)
    BY <1>2 DEF DispatchAccepted, Decide, ExchangeTypeOK, LoopTypeOK, HasItem, Item
  <2> QED
    BY <2>1, AdmitFacts DEF ExchangeTypeOK
<1>3. CASE UNCHANGED vars
  <2>1. UNCHANGED ledgerVars
    BY <1>3 DEF vars
  <2> QED
    BY <1>1, <1>2, <2>1
<1> QED
  BY <1>1, <1>2, <1>3, LedgerStep

-----------------------------------------------------------------------------
(* Types. *)

\* The parts a step of a worker may change keep their types.
LEMMA WorkerTypes ==
    ASSUME ExchangeTypeOK, NEW w \in Workers, Serve(w)
    PROVE  /\ conn' \in [Workers -> ConnRow] /\ records' \in [Keys -> RecordRow]
           /\ queue' \in Seq(Item) /\ LoopTypeOK'
<1> USE DEF ExchangeTypeOK
<1>1. conn[w] \in ConnRow
  OBVIOUS
<1>2. CASE EnqueueSend(w)
  <2>1. conn[w].request \in Request /\ [conn[w] EXCEPT !.phase = "sent"] \in ConnRow
    BY <1>1, <1>2, ConnFacts DEF EnqueueSend, ConnRow
  <2>2. [request |-> conn[w].request, to |-> w] \in Item
    BY <2>1 DEF Item
  <2>3. queue' \in Seq(Item)
    BY <1>2, <2>2 DEF EnqueueSend
  <2> QED
    BY <1>2, <2>1, <2>3 DEF EnqueueSend, LoopTypeOK
<1>3. CASE EnqueueCount(w)
  BY <1>1, <1>3, ConnFacts, CommandFacts, Zenon DEF EnqueueCount, LoopTypeOK
<1>4. CASE EnqueueFull(w)
  <2>1. [conn[w] EXCEPT !.phase = "refused"] \in ConnRow
    BY <1>1, <1>4, ConnFacts DEF EnqueueFull, ConnRow
  <2> QED
    BY <1>4, <2>1 DEF EnqueueFull, LoopTypeOK
<1>5. CASE Abandon(w)
  <2>1. Idle \in ConnRow /\ NoRecord \in RecordRow
    BY DEF ConnRow, RecordRow
  <2> QED
    BY <1>5, <2>1 DEF Abandon, LoopTypeOK
<1>6. CASE ReceiveReply(w)
  BY <1>6 DEF ReceiveReply, LoopTypeOK, ConnRow
<1>7. CASE GiveUp(w)
  <2>1. conn' \in [Workers -> ConnRow] /\ UNCHANGED records
    BY <1>7 DEF GiveUp, ConnRow
  <2>2. queue' \in Seq(Item)
    <3>1. queue' = [i \in 1 .. Len(queue) |-> DropChannel(queue[i], w)] /\ Len(queue) \in Nat
      BY <1>7 DEF GiveUp
    <3>2. \A i \in 1 .. Len(queue) : DropChannel(queue[i], w) \in Item
      BY DropFacts
    <3> QED
      BY <3>1, <3>2
  <2>3. LoopTypeOK'
    <3>1. loop' = [loop EXCEPT !.item = DropChannel(loop.item, w)]
      BY <1>7 DEF GiveUp
    <3>2. loop.item \in Item => DropChannel(loop.item, w) \in Item
      BY DropFacts
    <3>3. loop.item = NoItem => DropChannel(loop.item, w) = NoItem
      BY DEF DropChannel
    <3> QED
      BY <3>1, <3>2, <3>3 DEF LoopTypeOK, HasItem
  <2> QED
    BY <2>1, <2>2, <2>3
<1> QED
  BY <1>2, <1>3, <1>4, <1>5, <1>6, <1>7 DEF Serve

\* So do those of a step of the loop.
LEMMA LoopTypes ==
    ASSUME ExchangeTypeOK, Loop
    PROVE  /\ conn' \in [Workers -> ConnRow] /\ records' \in [Keys -> RecordRow]
           /\ queue' \in Seq(Item) /\ LoopTypeOK'
<1> USE DEF ExchangeTypeOK
<1>1. CASE StartDrain
  BY <1>1 DEF StartDrain, LoopTypeOK, HasItem
<1>2. CASE Take
  <2>1. Head(queue) \in Item /\ Tail(queue) \in Seq(Item)
    BY <1>2 DEF Take
  <2> QED
    BY <1>2, <2>1 DEF Take, LoopTypeOK, HasItem
<1>3. CASE EndDrain
  BY <1>3 DEF EndDrain, LoopTypeOK, LoopRest, HasItem, Answer
<1>4. CASE \E a \in Answer : Decide(a)
  BY <1>4 DEF Decide, LoopTypeOK, HasItem
<1>5. CASE Complete
  <2>1. LoopTypeOK' /\ UNCHANGED <<conn, queue>> /\ loop.item \in Item /\ loop.reply \in Answer
    BY <1>5 DEF Complete, LoopTypeOK, HasItem
  <2>2. loop.item.request \in Request
    BY <2>1 DEF Item
  <2>3. [state |-> "complete", command |-> Command(loop.item.request), reply |-> loop.reply]
        \in RecordRow
    BY <2>1, <2>2, CommandFacts, Zenon
  <2> QED
    BY <1>5, <2>1, <2>3, Zenon DEF Complete
<1>6. CASE Respond
  <2>1. LoopTypeOK' /\ UNCHANGED <<records, queue>> /\ loop.item \in Item /\ loop.reply \in Answer
    BY <1>6 DEF Respond, LoopTypeOK, HasItem, Answer
  <2>2. PICK w \in Workers \cup {NoWorker} : w = loop.item.to
    BY <2>1 DEF Item
  <2>3. w \in Workers => [conn[w] EXCEPT !.reply = loop.reply] \in ConnRow
    BY <2>1, ConnFacts DEF ConnRow, Idle
  <2> QED
    BY <1>6, <2>1, <2>2, <2>3 DEF Respond
<1> QED
  BY <1>1, <1>2, <1>3, <1>4, <1>5, <1>6
  DEF Loop, Expire, DispatchAccepted, DispatchReplayed, DispatchRefused, Answer

\* And those of the admission of a request to the cache.
LEMMA BeginTypes ==
    ASSUME ExchangeTypeOK, NEW w \in Workers, NEW r \in Request, Begin(w, r)
    PROVE  /\ conn' \in [Workers -> ConnRow] /\ records' \in [Keys -> RecordRow]
           /\ queue' \in Seq(Item) /\ LoopTypeOK'
<1> USE DEF ExchangeTypeOK
<1>1. CASE BeginKnown(w, r)
  BY <1>1 DEF BeginKnown, memory, LoopTypeOK
<1>2. CASE BeginNew(w, r)
  <2>1. conn' \in [Workers -> ConnRow] /\ UNCHANGED <<queue, loop>>
    BY <1>2, CommandFacts, Zenon DEF BeginNew
  <2>2. NoRecord \in RecordRow
    BY DEF RecordRow
  <2>3. records' \in [Keys -> RecordRow]
    BY <1>2, <2>2, CommandFacts, Zenon DEF BeginNew, Remember
  <2> QED
    BY <2>1, <2>3 DEF LoopTypeOK
<1>3. CASE BeginNoSlot(w, r)
  BY <1>3 DEF BeginNoSlot, LoopTypeOK
<1> QED
  BY <1>1, <1>2, <1>3 DEF Begin

\* Every step keeps the types.
LEMMA TypeNext == ExchangeTypeOK /\ [Next]_vars => ExchangeTypeOK'
<1> SUFFICES ASSUME ExchangeTypeOK, [Next]_vars
             PROVE  /\ conn' \in [Workers -> ConnRow] /\ records' \in [Keys -> RecordRow]
                    /\ queue' \in Seq(Item) /\ LoopTypeOK'
  BY ReceiptStep DEF ExchangeTypeOK
<1>1. CASE UNCHANGED vars
  BY <1>1 DEF vars, memory, ExchangeTypeOK, LoopTypeOK
<1>2. CASE \E w \in Workers, o \in Offered, d \in Ids :
             Begin(w, [key |-> o.key, id |-> d, name |-> o.name, args |-> o.args])
  BY <1>2, OfferedRequest, BeginTypes
<1>3. CASE \E w \in Workers : Serve(w)
  BY <1>3, WorkerTypes
<1>4. CASE Loop
  BY <1>4, LoopTypes
<1>5. CASE Crash
  <2>1. LoopTypeOK'
    BY <1>5 DEF Crash, LoopTypeOK, LoopRest, HasItem, Answer
  <2> QED
    BY <1>5, <2>1 DEF Crash, ConnRow, RecordRow
<1> QED
  BY <1>1, <1>2, <1>3, <1>4, <1>5 DEF Next

\* The exchange starts well typed.
LEMMA TypeInit == Init => ExchangeTypeOK
<1> SUFFICES ASSUME Init PROVE ExchangeTypeOK
  OBVIOUS
<1>1. LoopTypeOK
  BY DEF Init, MemoryInit, LoopTypeOK, LoopRest, HasItem, Answer
<1>2. ledger \in Seq(Receipt) /\ jobs \in Nat
  BY DEF Init, LedgerInit
<1>3. conn \in [Workers -> ConnRow] /\ records \in [Keys -> RecordRow] /\ queue \in Seq(Item)
  BY DEF Init, MemoryInit, ConnRow, RecordRow
<1> QED
  BY <1>1, <1>2, <1>3 DEF ExchangeTypeOK

\* Whatever the workers, the cache, the queue and deaths do, the ledger sees
\* nothing but admissions: every behaviour of the exchange is one of the
\* ledger, and what is proved of the ledger holds of the exchange.
THEOREM ExchangeImplementsLedger == Spec => LedgerSpec
<1>1. Init => LedgerInit
  BY DEF Init
<1>2. ExchangeTypeOK /\ [Next]_vars => [LedgerNext]_ledgerVars
  <2>1. ASSUME UNCHANGED vars PROVE UNCHANGED ledgerVars
    BY <2>1 DEF vars
  <2> QED
    BY <2>1, LedgerStep DEF LedgerNext
<1> QED
  BY <1>1, <1>2, TypeInit, TypeNext, PTL DEF Spec, LedgerSpec

-----------------------------------------------------------------------------
(* Who owes a decision. *)

\* The cache has r's command as pending.
Pending(r) == records[r.key] = [state |-> "pending", command |-> Command(r)]

WorkerOwes(w) == conn[w].phase \in {"begun", "refused"}
LoopOwes      == loop.phase \in {"taken", "decided"}

\* Those who still have to decide a request have it pending in the cache.
OwnersArePending ==
    /\ \A w \in Workers : WorkerOwes(w) => Pending(conn[w].request)
    /\ \A i \in DOMAIN queue : Pending(queue[i].request)
    /\ LoopOwes => Pending(loop.item.request)

\* No two of them have a request of the same key.
OwnersDiffer ==
    /\ \A v, w \in Workers : WorkerOwes(v) /\ WorkerOwes(w)
                              /\ conn[v].request.key = conn[w].request.key => v = w
    /\ \A i, j \in DOMAIN queue : queue[i].request.key = queue[j].request.key => i = j
    /\ \A w \in Workers, i \in DOMAIN queue :
          WorkerOwes(w) => conn[w].request.key # queue[i].request.key
    /\ LoopOwes =>
          /\ \A w \in Workers : WorkerOwes(w) => conn[w].request.key # loop.item.request.key
          /\ \A i \in DOMAIN queue : queue[i].request.key # loop.item.request.key

\* A pending key has one of them.
PendingHasOwner ==
    \A k \in Keys : records[k].state = "pending" =>
        \/ \E w \in Workers : WorkerOwes(w) /\ conn[w].request.key = k
        \/ \E i \in DOMAIN queue : queue[i].request.key = k
        \/ LoopOwes /\ loop.item.request.key = k

OwedInv == OwnersArePending /\ OwnersDiffer /\ PendingHasOwner

\* A step that changes neither the cache nor who owes what keeps OwedInv.
LEMMA OwedFrame ==
    ASSUME OwedInv, UNCHANGED records, DOMAIN queue' = DOMAIN queue,
           \A w \in Workers : WorkerOwes(w)' <=> WorkerOwes(w),
           \A w \in Workers : WorkerOwes(w) => conn'[w].request = conn[w].request,
           \A i \in DOMAIN queue : queue'[i].request = queue[i].request,
           LoopOwes' <=> LoopOwes, LoopOwes => loop'.item.request = loop.item.request
    PROVE  OwedInv'
<1>1. OwnersArePending'
  BY DEF OwedInv, OwnersArePending, Pending
<1>2. OwnersDiffer'
  BY DEF OwedInv, OwnersDiffer
<1>3. PendingHasOwner'
  BY DEF OwedInv, PendingHasOwner
<1> QED
  BY <1>1, <1>2, <1>3 DEF OwedInv

\* The steps of that kind.
LEMMA OwedKept ==
    ASSUME ExchangeTypeOK, OwedInv,
           \/ \E w \in Workers : \/ EnqueueCount(w) \/ EnqueueFull(w)
                                  \/ ReceiveReply(w) \/ GiveUp(w)
           \/ StartDrain \/ EndDrain \/ (\E a \in Answer : Decide(a)) \/ Respond
           \/ \E w \in Workers, r \in Request : BeginKnown(w, r) \/ BeginNoSlot(w, r)
           \/ UNCHANGED vars
    PROVE  OwedInv'
<1> USE DEF ExchangeTypeOK
<1>1. CASE \E w \in Workers : EnqueueCount(w)
  BY <1>1, OwedFrame DEF EnqueueCount, WorkerOwes, LoopOwes
<1>2. ASSUME NEW w \in Workers, EnqueueFull(w) PROVE OwedInv'
  <2>1. conn[w] \in [phase : {"begun", "sent", "refused"}, request : Request]
    BY <1>2, ConnFacts DEF EnqueueFull
  <2>2. conn'[w].phase = "refused" /\ conn'[w].request = conn[w].request /\ conn[w].phase = "begun"
    BY <1>2, <2>1 DEF EnqueueFull
  <2>3. \A v \in Workers : v # w => conn'[v] = conn[v]
    BY <1>2 DEF EnqueueFull
  <2> QED
    BY <1>2, <2>2, <2>3, OwedFrame DEF EnqueueFull, WorkerOwes, LoopOwes
<1>3. CASE \E w \in Workers : ReceiveReply(w)
  BY <1>3, OwedFrame DEF ReceiveReply, WorkerOwes, LoopOwes, Idle
<1>4. ASSUME NEW w \in Workers, GiveUp(w) PROVE OwedInv'
  <2>1. \A v \in Workers : WorkerOwes(v)' <=> WorkerOwes(v)
    BY <1>4 DEF GiveUp, WorkerOwes, Idle
  <2>2. \A v \in Workers : WorkerOwes(v) => conn'[v].request = conn[v].request
    BY <1>4 DEF GiveUp, WorkerOwes, Idle
  <2>3. DOMAIN queue' = DOMAIN queue /\ \A i \in DOMAIN queue : queue'[i].request = queue[i].request
    BY <1>4, DropFacts DEF GiveUp
  <2>4. LoopOwes' <=> LoopOwes
    BY <1>4 DEF GiveUp, LoopOwes, LoopTypeOK
  <2>5. LoopOwes => loop'.item.request = loop.item.request
    BY <1>4, DropFacts DEF GiveUp, LoopOwes, LoopTypeOK, HasItem
  <2> QED
    BY <1>4, <2>1, <2>2, <2>3, <2>4, <2>5, OwedFrame DEF GiveUp
<1>5. CASE StartDrain
  BY <1>5, OwedFrame DEF StartDrain, WorkerOwes, LoopOwes, LoopTypeOK
<1>6. CASE EndDrain
  BY <1>6, OwedFrame DEF EndDrain, WorkerOwes, LoopOwes, LoopRest
<1>7. CASE \E a \in Answer : Decide(a)
  BY <1>7, OwedFrame, Zenon DEF Decide, WorkerOwes, LoopOwes, LoopTypeOK
<1>8. CASE Respond
  <2>1. \A v \in Workers : conn'[v].phase = conn[v].phase
                          /\ (conn[v].phase # "idle" => conn'[v].request = conn[v].request)
    <3>1. SUFFICES ASSUME NEW v \in Workers, loop.item.to = v, v # NoWorker
                   PROVE  conn'[v].phase = conn[v].phase
                          /\ (conn[v].phase # "idle" => conn'[v].request = conn[v].request)
      BY <1>8 DEF Respond
    <3>2. conn'[v] = [conn[v] EXCEPT !.reply = loop.reply]
      BY <1>8, <3>1 DEF Respond
    <3> QED
      BY <3>2, ConnFacts DEF ConnRow, Idle
  <2>2. LoopOwes' <=> LoopOwes
    BY <1>8 DEF Respond, LoopOwes, LoopTypeOK
  <2>3. ~LoopOwes
    BY <1>8 DEF Respond, LoopOwes
  <2> QED
    BY <1>8, <2>1, <2>2, <2>3, OwedFrame DEF Respond, WorkerOwes
<1>9. CASE \E w \in Workers, r \in Request : BeginKnown(w, r) \/ BeginNoSlot(w, r)
  BY <1>9, OwedFrame DEF BeginKnown, BeginNoSlot, memory, WorkerOwes, LoopOwes
<1>10. CASE UNCHANGED vars
  BY <1>10, OwedFrame DEF vars, memory, WorkerOwes, LoopOwes
<1> QED
  BY <1>1, <1>2, <1>3, <1>4, <1>5, <1>6, <1>7, <1>8, <1>9, <1>10

\* The requests of the owners are requests.
LEMMA OwnersHaveRequests ==
    ASSUME ExchangeTypeOK
    PROVE  /\ \A w \in Workers : WorkerOwes(w) => conn[w].request \in Request
           /\ \A i \in DOMAIN queue : queue[i].request \in Request
           /\ LoopOwes => loop.item.request \in Request
<1>1. \A w \in Workers : WorkerOwes(w) => conn[w].request \in Request
  BY ConnFacts DEF ExchangeTypeOK, WorkerOwes
<1>2. \A i \in DOMAIN queue : queue[i] \in Item
  BY DEF ExchangeTypeOK
<1>3. LoopOwes => loop.item \in Item
  BY DEF ExchangeTypeOK, LoopOwes, LoopTypeOK, HasItem
<1> QED
  BY <1>1, <1>2, <1>3 DEF Item

\* A new command becomes pending, owed by the worker that brought it; the record
\* evicted for it was complete.
LEMMA OwedBegin ==
    ASSUME ExchangeTypeOK, OwedInv, NEW w \in Workers, NEW r \in Request, BeginNew(w, r)
    PROVE  OwedInv'
<1>1. /\ UNCHANGED <<queue, loop>> /\ conn'[w] = [phase |-> "begun", request |-> r]
      /\ \A v \in Workers \ {w} : conn'[v] = conn[v]
      /\ conn[w].phase = "idle" /\ records[r.key].state = "none"
  BY DEF BeginNew, Receives, Known, ExchangeTypeOK
<1>2. r.key \in Keys
  BY DEF Request
<1>3. records'[r.key] = [state |-> "pending", command |-> Command(r)]
  BY <1>2 DEF BeginNew, Remember, ExchangeTypeOK
<1>4. \A k \in Keys \ {r.key} :
         \/ records'[k] = records[k]
         \/ records[k].state = "complete" /\ records'[k] = NoRecord
  <2>1. CASE Remember(r)
    BY <1>2, <2>1 DEF Remember, ExchangeTypeOK
  <2>2. CASE /\ records[Head(order)].state = "complete"
             /\ records' = [records EXCEPT ![Head(order)] = NoRecord,
                                           ![r.key] = [state |-> "pending", command |-> Command(r)]]
    <3> SUFFICES ASSUME NEW k \in Keys \ {r.key}
                 PROVE  \/ records'[k] = records[k]
                        \/ records[k].state = "complete" /\ records'[k] = NoRecord
      OBVIOUS
    <3>1. CASE k = Head(order)
      BY <1>2, <2>2, <3>1 DEF ExchangeTypeOK
    <3>2. CASE k # Head(order)
      BY <1>2, <2>2, <3>2 DEF ExchangeTypeOK
    <3> QED
      BY <3>1, <3>2
  <2> QED
    BY <2>1, <2>2, Zenon DEF BeginNew
<1>5. \A q \in Request : Pending(q) => q.key \in Keys \ {r.key} /\ Pending(q)'
  <2> SUFFICES ASSUME NEW q \in Request, Pending(q)
               PROVE  q.key \in Keys \ {r.key} /\ Pending(q)'
    OBVIOUS
  <2>1. q.key \in Keys /\ records[q.key].state = "pending"
    BY DEF Pending, Request
  <2>2. records'[q.key] = records[q.key]
    BY <1>1, <1>4, <2>1
  <2> QED
    BY <1>1, <2>1, <2>2 DEF Pending
<1>6. /\ WorkerOwes(w)' /\ ~WorkerOwes(w) /\ conn'[w].request = r
      /\ \A v \in Workers \ {w} : WorkerOwes(v)' <=> WorkerOwes(v)
      /\ LoopOwes' <=> LoopOwes
  BY <1>1 DEF WorkerOwes, LoopOwes
<1>7. Pending(r)'
  BY <1>3 DEF Pending
<1>8. OwnersArePending'
  BY <1>1, <1>5, <1>6, <1>7, OwnersHaveRequests DEF OwedInv, OwnersArePending
<1>9. /\ \A v \in Workers : WorkerOwes(v) => conn[v].request.key # r.key
      /\ \A i \in DOMAIN queue : queue[i].request.key # r.key
      /\ LoopOwes => loop.item.request.key # r.key
  BY <1>5, OwnersHaveRequests DEF OwedInv, OwnersArePending
<1>10. OwnersDiffer'
  <2>1. \A v \in Workers \ {w} : WorkerOwes(v)' => WorkerOwes(v) /\ conn'[v] = conn[v]
    BY <1>1, <1>6, Zenon
  <2>2. queue' = queue /\ loop' = loop /\ (LoopOwes' <=> LoopOwes) /\ conn'[w].request = r
    BY <1>1, <1>6, Zenon
  <2>3. OwnersDiffer
    BY DEF OwedInv
  <2> QED
    BY <1>9, <2>1, <2>2, <2>3 DEF OwnersDiffer
<1>11. PendingHasOwner'
  <2> SUFFICES ASSUME NEW k \in Keys, records'[k].state = "pending"
               PROVE  \/ \E v \in Workers : WorkerOwes(v)' /\ conn'[v].request.key = k
                      \/ \E i \in DOMAIN queue' : queue'[i].request.key = k
                      \/ LoopOwes' /\ loop'.item.request.key = k
    BY DEF PendingHasOwner
  <2>1. CASE k = r.key
    BY <1>6, <2>1
  <2>2. CASE k # r.key
    <3>1. records[k].state = "pending"
      BY <1>4, <2>2 DEF NoRecord
    <3> QED
      BY <3>1, <1>1, <1>6 DEF OwedInv, PendingHasOwner
  <2> QED
    BY <2>1, <2>2
<1> QED
  BY <1>8, <1>10, <1>11 DEF OwedInv

\* The decision passes from the worker to the queue.
LEMMA OwedSend ==
    ASSUME ExchangeTypeOK, OwedInv, NEW w \in Workers, EnqueueSend(w)
    PROVE  OwedInv'
<1> DEFINE n == Len(queue) + 1
<1>1. /\ UNCHANGED <<records, loop>> /\ conn[w].phase = "begun"
      /\ \A v \in Workers \ {w} : conn'[v] = conn[v]
      /\ conn'[w].phase = "sent"
  <2>1. conn[w] \in [phase : {"begun", "sent", "refused"}, request : Request]
    BY ConnFacts DEF EnqueueSend, ExchangeTypeOK
  <2> QED
    BY <2>1 DEF EnqueueSend, ExchangeTypeOK
<1>2. /\ DOMAIN queue' = DOMAIN queue \cup {n} /\ n \notin DOMAIN queue
      /\ \A i \in DOMAIN queue : queue'[i] = queue[i]
      /\ queue'[n].request = conn[w].request /\ queue'[n].to = w
  <2>1. queue \in Seq(Item) /\ Len(queue) \in Nat
    BY DEF ExchangeTypeOK
  <2>2. queue' = Append(queue, [request |-> conn[w].request, to |-> w])
    BY DEF EnqueueSend
  <2>3. DOMAIN queue = 1 .. Len(queue) /\ DOMAIN queue' = 1 .. n
    BY <2>1, <2>2
  <2> QED
    BY <2>1, <2>2, <2>3
<1>3. queue'[n].request = conn[w].request
  BY <1>2, Zenon
<1>4. /\ ~WorkerOwes(w)' /\ WorkerOwes(w)
      /\ \A v \in Workers \ {w} : WorkerOwes(v)' <=> WorkerOwes(v)
      /\ LoopOwes' <=> LoopOwes
  BY <1>1 DEF WorkerOwes, LoopOwes
<1> HIDE DEF n
<1>5. OwnersArePending'
  BY <1>1, <1>2, <1>3, <1>4 DEF OwedInv, OwnersArePending, Pending
<1>6. OwnersDiffer'
  <2>1. OwnersDiffer
    BY Zenon DEF OwedInv
  <2>2. \A v \in Workers : WorkerOwes(v)' => v # w /\ WorkerOwes(v) /\ conn'[v] = conn[v]
    BY <1>1, <1>4, Zenon
  <2>3. \A i \in DOMAIN queue' : i = n \/ (i \in DOMAIN queue /\ queue'[i] = queue[i])
    BY <1>2, Zenon
  <2>4. \A i \in DOMAIN queue : queue[i].request.key # queue'[n].request.key
    BY <1>3, <1>4, <2>1, Zenon DEF OwnersDiffer
  <2>5. \A v \in Workers : WorkerOwes(v) /\ v # w => conn[v].request.key # queue'[n].request.key
    BY <1>3, <1>4, <2>1, Zenon DEF OwnersDiffer
  <2>6. \A u, v \in Workers : WorkerOwes(u)' /\ WorkerOwes(v)'
                                /\ conn'[u].request.key = conn'[v].request.key => u = v
    BY <2>1, <2>2, Zenon DEF OwnersDiffer
  <2>7. \A i, j \in DOMAIN queue' : queue'[i].request.key = queue'[j].request.key => i = j
    BY <2>1, <2>3, <2>4, Zenon DEF OwnersDiffer
  <2>8. \A v \in Workers, i \in DOMAIN queue' :
           WorkerOwes(v)' => conn'[v].request.key # queue'[i].request.key
    <3> SUFFICES ASSUME NEW v \in Workers, NEW i \in DOMAIN queue', WorkerOwes(v)'
                 PROVE  conn'[v].request.key # queue'[i].request.key
      BY Zenon
    <3>1. v # w /\ WorkerOwes(v) /\ conn'[v] = conn[v]
      BY <2>2, Zenon
    <3>2. CASE i = n
      BY <2>5, <3>1, <3>2, Zenon
    <3>3. CASE i \in DOMAIN queue /\ queue'[i] = queue[i]
      BY <2>1, <3>1, <3>3, Zenon DEF OwnersDiffer
    <3> QED
      BY <2>3, <3>2, <3>3, Zenon
  <2>9. LoopOwes' =>
           /\ \A v \in Workers : WorkerOwes(v)' => conn'[v].request.key # loop'.item.request.key
           /\ \A i \in DOMAIN queue' : queue'[i].request.key # loop'.item.request.key
    <3>1. loop' = loop /\ (LoopOwes' <=> LoopOwes)
      BY <1>1, <1>4, Zenon
    <3>2. LoopOwes => queue'[n].request.key # loop.item.request.key
      BY <1>3, <1>4, <2>1, Zenon DEF OwnersDiffer
    <3> QED
      BY <2>1, <2>2, <2>3, <3>1, <3>2, Zenon DEF OwnersDiffer
  <2> QED
    BY <2>6, <2>7, <2>8, <2>9, Zenon DEF OwnersDiffer
<1>7. PendingHasOwner'
  <2>0. records' = records
    BY <1>1, Zenon
  <2> SUFFICES ASSUME NEW k \in Keys, records[k].state = "pending"
               PROVE  \/ \E v \in Workers : WorkerOwes(v)' /\ conn'[v].request.key = k
                      \/ \E i \in DOMAIN queue' : queue'[i].request.key = k
                      \/ LoopOwes' /\ loop'.item.request.key = k
    BY <2>0, Zenon DEF PendingHasOwner
  <2>1. CASE \E v \in Workers : WorkerOwes(v) /\ conn[v].request.key = k
    BY <1>1, <1>2, <1>3, <1>4, <2>1
  <2>2. CASE \E i \in DOMAIN queue : queue[i].request.key = k
    BY <1>2, <2>2, Zenon
  <2>3. CASE LoopOwes /\ loop.item.request.key = k
    BY <1>1, <1>4, <2>3
  <2> QED
    BY <2>1, <2>2, <2>3, Zenon DEF OwedInv, PendingHasOwner
<1> QED
  BY <1>5, <1>6, <1>7 DEF OwedInv

\* An abandoned command is owed by nobody and is not pending.
LEMMA OwedAbandon ==
    ASSUME ExchangeTypeOK, OwedInv, NEW w \in Workers, Abandon(w)
    PROVE  OwedInv'
<1>1. PICK r \in Request : r = conn[w].request
  BY OwnersHaveRequests DEF Abandon, WorkerOwes
<1>2. Pending(r) /\ WorkerOwes(w) /\ r.key \in Keys
  BY <1>1 DEF Abandon, WorkerOwes, OwedInv, OwnersArePending, Request
<1>3. /\ UNCHANGED <<queue, loop>> /\ conn'[w] = Idle
      /\ \A v \in Workers \ {w} : conn'[v] = conn[v]
      /\ records' = [records EXCEPT ![r.key] = NoRecord]
  BY <1>1, <1>2 DEF Abandon, Pending, ExchangeTypeOK
<1>4. records'[r.key] = NoRecord /\ \A k \in Keys \ {r.key} : records'[k] = records[k]
  BY <1>2, <1>3 DEF ExchangeTypeOK
<1>5. /\ ~WorkerOwes(w)' /\ (LoopOwes' <=> LoopOwes)
      /\ \A v \in Workers \ {w} : WorkerOwes(v)' <=> WorkerOwes(v)
  BY <1>3 DEF WorkerOwes, LoopOwes, Idle
<1>6. /\ \A v \in Workers \ {w} : WorkerOwes(v) => conn[v].request.key \in Keys \ {r.key}
      /\ \A i \in DOMAIN queue : queue[i].request.key \in Keys \ {r.key}
      /\ LoopOwes => loop.item.request.key \in Keys \ {r.key}
  <2>1. \A q \in Request : q.key \in Keys
    BY DEF Request
  <2> QED
    BY <1>1, <1>2, <2>1, OwnersHaveRequests, Zenon DEF OwedInv, OwnersDiffer
<1>7. OwnersArePending'
  <2>1. OwnersArePending
    BY Zenon DEF OwedInv
  <2>2. \A q : Pending(q) /\ q.key \in Keys \ {r.key} => Pending(q)'
    BY <1>4, Zenon DEF Pending
  <2>3. \A v \in Workers : WorkerOwes(v)' => v # w /\ WorkerOwes(v) /\ conn'[v] = conn[v]
    BY <1>3, <1>5, Zenon
  <2>4. queue' = queue /\ loop' = loop
    BY <1>3, Zenon
  <2>5. \A v \in Workers : WorkerOwes(v)' => Pending(conn[v].request)'
    BY <1>6, <2>1, <2>2, <2>3, Zenon DEF OwnersArePending
  <2>6. \A i \in DOMAIN queue' : Pending(queue[i].request)'
    BY <1>6, <2>1, <2>2, <2>4, Zenon DEF OwnersArePending
  <2>7. LoopOwes' => Pending(loop.item.request)'
    BY <1>5, <1>6, <2>1, <2>2, <2>4, Zenon DEF OwnersArePending
  <2> QED
    BY <2>5, <2>6, <2>7, Zenon DEF OwnersArePending
<1>8. OwnersDiffer'
  <2>1. \A v \in Workers : WorkerOwes(v)' => WorkerOwes(v) /\ conn'[v] = conn[v]
    BY <1>3, <1>5, Zenon
  <2>2. queue' = queue /\ loop' = loop /\ (LoopOwes' <=> LoopOwes)
    BY <1>3, <1>5
  <2>3. OwnersDiffer
    BY DEF OwedInv
  <2>4. \A u, v \in Workers : WorkerOwes(u)' /\ WorkerOwes(v)'
                                /\ conn'[u].request.key = conn'[v].request.key => u = v
    BY <2>1, <2>3, Zenon DEF OwnersDiffer
  <2>5. \A i, j \in DOMAIN queue' : queue'[i].request.key = queue'[j].request.key => i = j
    BY <2>2, <2>3, Zenon DEF OwnersDiffer
  <2>6. \A v \in Workers, i \in DOMAIN queue' :
           WorkerOwes(v)' => conn'[v].request.key # queue'[i].request.key
    <3> SUFFICES ASSUME NEW v \in Workers, NEW i \in DOMAIN queue, WorkerOwes(v)'
                 PROVE  conn'[v].request.key # queue[i].request.key
      BY <2>2, Zenon
    <3>1. WorkerOwes(v) /\ conn'[v] = conn[v]
      BY <2>1, Zenon
    <3> QED
      BY <2>3, <3>1, Zenon DEF OwnersDiffer
  <2>7. LoopOwes' =>
           /\ \A v \in Workers : WorkerOwes(v)' => conn'[v].request.key # loop'.item.request.key
           /\ \A i \in DOMAIN queue' : queue'[i].request.key # loop'.item.request.key
    BY <2>1, <2>2, <2>3, Zenon DEF OwnersDiffer
  <2> QED
    BY <2>4, <2>5, <2>6, <2>7, Zenon DEF OwnersDiffer
<1>9. PendingHasOwner'
  <2> SUFFICES ASSUME NEW k \in Keys, records'[k].state = "pending"
               PROVE  \/ \E v \in Workers : WorkerOwes(v)' /\ conn'[v].request.key = k
                      \/ \E i \in DOMAIN queue' : queue'[i].request.key = k
                      \/ LoopOwes' /\ loop'.item.request.key = k
    BY Zenon DEF PendingHasOwner
  <2>1. k # r.key /\ records[k].state = "pending"
    BY <1>4 DEF NoRecord
  <2> QED
    BY <1>1, <1>3, <1>5, <2>1, Zenon DEF OwedInv, PendingHasOwner
<1> QED
  BY <1>7, <1>8, <1>9 DEF OwedInv

\* The decision passes from the queue to the loop.
LEMMA OwedTake ==
    ASSUME ExchangeTypeOK, OwedInv, Take
    PROVE  OwedInv'
<1>1. /\ UNCHANGED <<records, conn>> /\ loop'.phase = "taken" /\ loop'.item = queue[1]
      /\ loop.phase = "drain"
  BY DEF Take, ExchangeTypeOK, LoopTypeOK
<1>2. /\ \A i \in DOMAIN queue' : i + 1 \in DOMAIN queue /\ queue'[i] = queue[i + 1] /\ i + 1 # 1
      /\ \A i \in DOMAIN queue : i # 1 => i - 1 \in DOMAIN queue' /\ queue'[i - 1] = queue[i]
      /\ 1 \in DOMAIN queue
      /\ \A i, j \in DOMAIN queue' : i + 1 = j + 1 => i = j
  BY DEF Take, ExchangeTypeOK
<1>3. ~LoopOwes /\ LoopOwes' /\ \A v \in Workers : WorkerOwes(v)' <=> WorkerOwes(v)
  BY <1>1 DEF WorkerOwes, LoopOwes
<1>4. OwnersArePending'
  BY <1>1, <1>2, <1>3 DEF OwedInv, OwnersArePending, Pending
<1>5. OwnersDiffer'
  <2>1. \A i, j \in DOMAIN queue' : queue'[i].request.key = queue'[j].request.key => i = j
    <3> SUFFICES ASSUME NEW i \in DOMAIN queue', NEW j \in DOMAIN queue',
                        queue'[i].request.key = queue'[j].request.key
                 PROVE  i = j
      OBVIOUS
    <3>1. i + 1 = j + 1
      BY <1>2 DEF OwedInv, OwnersDiffer
    <3> QED
      BY <1>2, <3>1
  <2>2. \A i \in DOMAIN queue' : queue'[i].request.key # loop'.item.request.key
    BY <1>1, <1>2 DEF OwedInv, OwnersDiffer
  <2>3. \A v \in Workers : WorkerOwes(v) =>
           /\ conn[v].request.key # loop'.item.request.key
           /\ \A i \in DOMAIN queue' : conn[v].request.key # queue'[i].request.key
    BY <1>1, <1>2 DEF OwedInv, OwnersDiffer
  <2> QED
    BY <1>1, <1>3, <2>1, <2>2, <2>3, Zenon DEF OwedInv, OwnersDiffer
<1>6. PendingHasOwner'
  <2> SUFFICES ASSUME NEW k \in Keys, records[k].state = "pending"
               PROVE  \/ \E v \in Workers : WorkerOwes(v)' /\ conn'[v].request.key = k
                      \/ \E i \in DOMAIN queue' : queue'[i].request.key = k
                      \/ LoopOwes' /\ loop'.item.request.key = k
    BY <1>1, Zenon DEF PendingHasOwner
  <2>1. CASE \E v \in Workers : WorkerOwes(v) /\ conn[v].request.key = k
    BY <1>1, <1>3, <2>1
  <2>2. CASE \E i \in DOMAIN queue : queue[i].request.key = k
    <3>1. PICK i \in DOMAIN queue : queue[i].request.key = k
      BY <2>2
    <3>2. CASE i = 1
      BY <1>1, <1>3, <3>1, <3>2
    <3>3. CASE i # 1
      BY <1>2, <3>1, <3>3
    <3> QED
      BY <3>2, <3>3, Zenon
  <2> QED
    BY <1>3, <2>1, <2>2, Zenon DEF OwedInv, PendingHasOwner
<1> QED
  BY <1>4, <1>5, <1>6 DEF OwedInv

\* The decision ends the debt and the pending state together.
LEMMA OwedComplete ==
    ASSUME ExchangeTypeOK, OwedInv, Complete
    PROVE  OwedInv'
<1>1. PICK r \in Request : r = loop.item.request
  BY OwnersHaveRequests DEF Complete, LoopOwes
<1>2. Pending(r) /\ LoopOwes /\ r.key \in Keys
  BY <1>1 DEF Complete, LoopOwes, OwedInv, OwnersArePending, Request
<1>3. /\ UNCHANGED <<queue, conn>> /\ loop'.phase = "completed"
      /\ records' = [records EXCEPT ![r.key] =
                       [state |-> "complete", command |-> Command(r), reply |-> loop.reply]]
  BY <1>1, <1>2 DEF Complete, Pending, ExchangeTypeOK, LoopTypeOK
<1>4. records'[r.key].state = "complete" /\ \A k \in Keys \ {r.key} : records'[k] = records[k]
  BY <1>2, <1>3 DEF ExchangeTypeOK
<1>5. ~LoopOwes' /\ \A v \in Workers : WorkerOwes(v)' <=> WorkerOwes(v)
  BY <1>3, Zenon DEF WorkerOwes, LoopOwes
<1>6. /\ \A v \in Workers : WorkerOwes(v) => conn[v].request.key \in Keys \ {r.key}
      /\ \A i \in DOMAIN queue : queue[i].request.key \in Keys \ {r.key}
  <2>1. \A q \in Request : q.key \in Keys
    BY DEF Request
  <2> QED
    BY <1>1, <1>2, <2>1, OwnersHaveRequests, Zenon DEF OwedInv, OwnersDiffer
<1>7. OwnersArePending'
  <2>1. OwnersArePending
    BY Zenon DEF OwedInv
  <2>2. \A q : Pending(q) /\ q.key \in Keys \ {r.key} => Pending(q)'
    BY <1>4, Zenon DEF Pending
  <2>3. queue' = queue /\ conn' = conn
    BY <1>3, Zenon
  <2>4. \A v \in Workers : WorkerOwes(v)' => Pending(conn[v].request)'
    BY <1>5, <1>6, <2>1, <2>2, <2>3, Zenon DEF OwnersArePending
  <2>5. \A i \in DOMAIN queue' : Pending(queue[i].request)'
    BY <1>6, <2>1, <2>2, <2>3, Zenon DEF OwnersArePending
  <2> QED
    BY <1>5, <2>4, <2>5, Zenon DEF OwnersArePending
<1>8. OwnersDiffer'
  BY <1>3, <1>5, Zenon DEF OwedInv, OwnersDiffer
<1>9. PendingHasOwner'
  <2> SUFFICES ASSUME NEW k \in Keys, records'[k].state = "pending"
               PROVE  \/ \E v \in Workers : WorkerOwes(v)' /\ conn'[v].request.key = k
                      \/ \E i \in DOMAIN queue' : queue'[i].request.key = k
    BY Zenon DEF PendingHasOwner
  <2>1. k # r.key /\ records[k].state = "pending"
    BY <1>4
  <2> QED
    BY <1>1, <1>3, <1>5, <2>1, Zenon DEF OwedInv, PendingHasOwner
<1> QED
  BY <1>7, <1>8, <1>9 DEF OwedInv

\* With empty memory nothing is pending and nobody owes a decision.
LEMMA OwedMemory == MemoryInit => OwedInv
<1> SUFFICES ASSUME MemoryInit PROVE OwedInv
  OBVIOUS
<1>1. /\ ~LoopOwes /\ DOMAIN queue = {}
      /\ \A w \in Workers : ~WorkerOwes(w)
      /\ \A k \in Keys : records[k].state = "none"
  BY DEF MemoryInit, LoopOwes, LoopRest, WorkerOwes, Idle, NoRecord
<1> QED
  BY <1>1, Zenon DEF OwedInv, OwnersArePending, OwnersDiffer, PendingHasOwner

\* Every step keeps OwedInv.
LEMMA OwedNext == ExchangeTypeOK /\ OwedInv /\ [Next]_vars => OwedInv'
<1> SUFFICES ASSUME ExchangeTypeOK, OwedInv, [Next]_vars PROVE OwedInv'
  OBVIOUS
<1>1. CASE UNCHANGED vars
  BY <1>1, OwedKept
<1>2. CASE \E w \in Workers, o \in Offered, d \in Ids :
             Begin(w, [key |-> o.key, id |-> d, name |-> o.name, args |-> o.args])
  BY <1>2, OfferedRequest, OwedKept, OwedBegin DEF Begin
<1>3. CASE \E w \in Workers : Serve(w)
  BY <1>3, OwedKept, OwedSend, OwedAbandon DEF Serve
<1>4. CASE Loop
  <2>1. CASE \E a \in Answer : Decide(a)
    BY <2>1, OwedKept
  <2> QED
    BY <1>4, <2>1, OwedKept, OwedTake, OwedComplete
    DEF Loop, Expire, DispatchAccepted, DispatchReplayed, DispatchRefused, Answer
<1>5. CASE Crash
  <2>1. MemoryInit'
    BY <1>5 DEF Crash, MemoryInit
  <2>2. MemoryInit' => OwedInv'
    BY OwedMemory, PTL
  <2> QED
    BY <2>1, <2>2
<1> QED
  BY <1>1, <1>2, <1>3, <1>4, <1>5 DEF Next

\* The owners as a set: none, or the only one.
LEMMA OwnersCounted == ExchangeTypeOK /\ OwedInv => PendingIsOwedOnce
<1> SUFFICES ASSUME ExchangeTypeOK, OwedInv, NEW k \in Keys
             PROVE  IF records[k].state = "pending" THEN \E o \in Owners(k) : Owners(k) = {o}
                                                    ELSE Owners(k) = {}
  BY Zenon DEF PendingIsOwedOnce
<1> DEFINE W == {v \in Workers : WorkerOwes(v) /\ conn[v].request.key = k}
           Q == {j \in DOMAIN queue : queue[j].request.key = k}
           L == {j \in {0} : LoopOwes /\ loop.item.request.key = k}
<1>1. Owners(k) = {<<"worker", w>> : w \in W} \cup {<<"queue", i>> : i \in Q}
                  \cup {<<"loop", 0>> : i \in L}
  BY DEF Owners, WorkerOwes, LoopOwes
<1>2. CASE records[k].state # "pending"
  <2>a. \A r : Pending(r) => r.key # k
    BY <1>2 DEF Pending
  <2>1. W = {} /\ Q = {} /\ L = {}
    BY <2>a DEF OwedInv, OwnersArePending
  <2>2. Owners(k) = {}
    BY <1>1, <2>1
  <2> QED
    BY <1>2, <2>2
<1>3. CASE records[k].state = "pending"
  <2>1. CASE \E w \in Workers : WorkerOwes(w) /\ conn[w].request.key = k
    <3>1. PICK w \in Workers : W = {w} /\ Q = {} /\ L = {}
      BY <2>1 DEF OwedInv, OwnersDiffer
    <3>2. Owners(k) = {<<"worker", w>>}
      BY <1>1, <3>1
    <3> QED
      BY <1>3, <3>2
  <2>2. CASE \E i \in DOMAIN queue : queue[i].request.key = k
    <3>1. PICK i \in DOMAIN queue : W = {} /\ Q = {i} /\ L = {}
      BY <2>2 DEF OwedInv, OwnersDiffer
    <3>2. Owners(k) = {<<"queue", i>>}
      BY <1>1, <3>1, Zenon
    <3> QED
      BY <1>3, <3>2
  <2>3. CASE LoopOwes /\ loop.item.request.key = k
    <3>1. W = {} /\ Q = {} /\ L = {0}
      BY <2>3, Zenon DEF OwedInv, OwnersDiffer
    <3>2. Owners(k) = {<<"loop", 0>>}
      BY <1>1, <3>1, Zenon
    <3> QED
      BY <1>3, <3>2, Zenon
  <2> QED
    BY <1>3, <2>1, <2>2, <2>3 DEF OwedInv, PendingHasOwner
<1> QED
  BY <1>2, <1>3

\* For any workers, keys, capacities and deaths: a key is pending exactly while
\* one worker, one place of the queue or the loop still owes it a decision.
THEOREM PendingOwedOnce == Spec => []PendingIsOwedOnce
<1>1. Init => ExchangeTypeOK /\ OwedInv
  BY TypeInit, OwedMemory DEF Init
<1> QED
  BY <1>1, TypeNext, OwedNext, OwnersCounted, PTL DEF Spec

-----------------------------------------------------------------------------
(* Reply channels. *)

\* Worker w has sent its request and no reply has come.
Open(w) == conn[w].phase = "sent" \/ (conn[w].phase = "waiting" /\ conn[w].reply = "none")

\* A channel that was not dropped leads to the worker that awaits the answer to
\* that very request, and no worker has two.  The gate covers the time between
\* the send and the wait, so the loop holds no item of a worker before its wait.
ChannelInv ==
    /\ \A w \in Workers : conn[w].phase = "sent" => gate = w
    /\ \A w \in Workers, i \in DOMAIN queue :
          queue[i].to = w => Open(w) /\ conn[w].request = queue[i].request
    /\ \A w \in Workers, i, j \in DOMAIN queue : queue[i].to = w /\ queue[j].to = w => i = j
    /\ \A w \in Workers : loop.phase \in HasItem /\ loop.item.to = w =>
          /\ Open(w) /\ conn[w].phase = "waiting" /\ conn[w].request = loop.item.request
          /\ \A i \in DOMAIN queue : queue[i].to # w

\* Steps that leave the channels and those who wait alone.
LEMMA ChannelFrame ==
    ASSUME ChannelInv, UNCHANGED <<queue, gate>>,
           loop'.phase \in HasItem => loop.phase \in HasItem /\ loop'.item = loop.item,
           \A v \in Workers : Open(v) => conn'[v] = conn[v],
           \A v \in Workers : conn'[v].phase = "sent" => conn[v].phase = "sent"
    PROVE  ChannelInv'
<1>1. \A v \in Workers : Open(v) => Open(v)' /\ conn'[v] = conn[v]
  BY Zenon DEF Open
<1> QED
  BY <1>1 DEF ChannelInv

\* The steps of that kind.
LEMMA ChannelKept ==
    ASSUME ExchangeTypeOK, ChannelInv,
           \/ \E w \in Workers : EnqueueFull(w) \/ Abandon(w) \/ ReceiveReply(w)
           \/ StartDrain \/ EndDrain \/ (\E a \in Answer : Decide(a)) \/ Complete
           \/ \E w \in Workers, r \in Request : Begin(w, r)
           \/ UNCHANGED vars
    PROVE  ChannelInv'
<1> USE DEF ExchangeTypeOK
<1>1. ASSUME NEW w \in Workers, EnqueueFull(w) \/ Abandon(w) \/ ReceiveReply(w)
      PROVE  ChannelInv'
  <2>1. /\ ~Open(w) /\ conn'[w].phase # "sent" /\ UNCHANGED <<queue, gate, loop>>
        /\ \A v \in Workers \ {w} : conn'[v] = conn[v]
    <3>1. CASE EnqueueFull(w)
      <4>1. conn[w] \in [phase : {"begun", "sent", "refused"}, request : Request]
        BY <3>1, ConnFacts DEF EnqueueFull
      <4> QED
        BY <3>1, <4>1 DEF EnqueueFull, Open
    <3>2. CASE Abandon(w)
      BY <3>2, Zenon DEF Abandon, Open, Idle
    <3>3. CASE ReceiveReply(w)
      BY <3>3, Zenon DEF ReceiveReply, Open, Idle
    <3> QED
      BY <1>1, <3>1, <3>2, <3>3, Zenon
  <2> QED
    BY <2>1, ChannelFrame, Zenon
<1>2. CASE StartDrain \/ EndDrain \/ (\E a \in Answer : Decide(a)) \/ Complete
  <2>1. UNCHANGED <<conn, queue, gate>>
    BY <1>2, Zenon DEF StartDrain, EndDrain, Decide, Complete
  <2>2. loop'.phase \in HasItem => loop.phase \in HasItem /\ loop'.item = loop.item
    <3>1. CASE StartDrain \/ EndDrain
      <4>1. StartDrain => loop'.phase = "drain"
        BY DEF StartDrain, LoopTypeOK
      <4>2. EndDrain => loop'.phase = "reconcile"
        BY DEF EndDrain, LoopRest
      <4> QED
        BY <3>1, <4>1, <4>2, Zenon DEF HasItem
    <3>2. CASE \E a \in Answer : Decide(a)
      BY <3>2, Zenon DEF Decide, LoopTypeOK, HasItem
    <3>3. CASE Complete
      BY <3>3 DEF Complete, LoopTypeOK, HasItem
    <3> QED
      BY <1>2, <3>1, <3>2, <3>3, Zenon
  <2> QED
    BY <2>1, <2>2, ChannelFrame, Zenon
<1>3. ASSUME NEW w \in Workers, NEW r \in Request, Begin(w, r)
      PROVE  ChannelInv'
  <2>1. UNCHANGED <<queue, gate, loop>> /\ conn[w].phase = "idle"
    BY <1>3, Zenon DEF Begin, BeginKnown, BeginNew, BeginNoSlot, Receives, memory
  <2>2. UNCHANGED conn \/ conn' = [conn EXCEPT ![w] = [phase |-> "begun", request |-> r]]
    BY <1>3, Zenon DEF Begin, BeginKnown, BeginNew, BeginNoSlot, memory
  <2>3. conn'[w].phase # "sent" /\ \A v \in Workers \ {w} : conn'[v] = conn[v]
    BY <2>1, <2>2 DEF ExchangeTypeOK
  <2> QED
    BY <2>1, <2>3, ChannelFrame, Zenon DEF Open
<1>4. CASE UNCHANGED vars
  BY <1>4, ChannelFrame DEF vars, memory
<1> QED
  BY <1>1, <1>2, <1>3, <1>4

\* A send opens the channel of its worker, which had none.
LEMMA ChannelSend ==
    ASSUME ExchangeTypeOK, ChannelInv, NEW w \in Workers, EnqueueSend(w)
    PROVE  ChannelInv'
<1> DEFINE n == Len(queue) + 1
<1>1. /\ UNCHANGED loop /\ conn[w].phase = "begun" /\ gate = NoWorker /\ gate' = w
      /\ \A v \in Workers \ {w} : conn'[v] = conn[v]
      /\ conn'[w].phase = "sent" /\ conn'[w].request = conn[w].request
  <2>1. conn[w] \in [phase : {"begun", "sent", "refused"}, request : Request]
    BY ConnFacts DEF EnqueueSend, ExchangeTypeOK
  <2> QED
    BY <2>1 DEF EnqueueSend, ExchangeTypeOK
<1>2. /\ DOMAIN queue' = DOMAIN queue \cup {n} /\ n \notin DOMAIN queue
      /\ \A i \in DOMAIN queue : queue'[i] = queue[i]
      /\ queue'[n].request = conn[w].request /\ queue'[n].to = w
  <2>1. queue \in Seq(Item) /\ Len(queue) \in Nat
    BY DEF ExchangeTypeOK
  <2>2. queue' = Append(queue, [request |-> conn[w].request, to |-> w])
    BY DEF EnqueueSend
  <2>3. DOMAIN queue = 1 .. Len(queue) /\ DOMAIN queue' = 1 .. n
    BY <2>1, <2>2
  <2> QED
    BY <2>1, <2>2, <2>3
<1> HIDE DEF n
<1>3. queue'[n].request = conn[w].request /\ queue'[n].to = w
  BY <1>2, Zenon
<1>4. ~Open(w) /\ Open(w)' /\ \A v \in Workers \ {w} : Open(v) => Open(v)'
  BY <1>1 DEF Open
<1>5. /\ \A i \in DOMAIN queue : queue[i].to # w
      /\ loop.phase \in HasItem => loop.item.to # w
  BY <1>4 DEF ChannelInv
<1>6. \A v \in Workers : conn'[v].phase = "sent" => gate' = v
  BY <1>1, ExchangeAssumption, Zenon DEF ChannelInv
<1>7. \A v \in Workers, i \in DOMAIN queue' :
         queue'[i].to = v => Open(v)' /\ conn'[v].request = queue'[i].request
  <2>1. ASSUME NEW v \in Workers, NEW i \in DOMAIN queue, queue[i].to = v
        PROVE  Open(v)' /\ conn'[v].request = queue[i].request
    <3>1. v # w
      BY <1>5, <2>1, Zenon
    <3>2. Open(v) /\ conn[v].request = queue[i].request
      BY <2>1, Zenon DEF ChannelInv
    <3> QED
      BY <1>1, <1>4, <3>1, <3>2, Zenon
  <2> SUFFICES ASSUME NEW v \in Workers, NEW i \in DOMAIN queue', queue'[i].to = v
               PROVE  Open(v)' /\ conn'[v].request = queue'[i].request
    OBVIOUS
  <2>2. CASE i = n
    BY <1>1, <1>3, <1>4, <2>2, Zenon
  <2>3. CASE i \in DOMAIN queue
    <3>1. queue'[i] = queue[i]
      BY <1>2, <2>3, Zenon
    <3> QED
      BY <2>1, <2>3, <3>1, Zenon
  <2> QED
    BY <1>2, <2>2, <2>3, Zenon
<1>8. \A v \in Workers, i, j \in DOMAIN queue' : queue'[i].to = v /\ queue'[j].to = v => i = j
  <2>1. \A v \in Workers, i, j \in DOMAIN queue : queue[i].to = v /\ queue[j].to = v => i = j
    BY Zenon DEF ChannelInv
  <2> SUFFICES ASSUME NEW v \in Workers, NEW i \in DOMAIN queue', NEW j \in DOMAIN queue',
                      queue'[i].to = v, queue'[j].to = v
               PROVE  i = j
    BY Zenon
  <2>2. /\ i = n \/ (i \in DOMAIN queue /\ queue'[i] = queue[i])
        /\ j = n \/ (j \in DOMAIN queue /\ queue'[j] = queue[j])
    BY <1>2, Zenon
  <2> QED
    BY <1>3, <1>5, <2>1, <2>2, Zenon
<1>9. \A v \in Workers : loop.phase \in HasItem /\ loop.item.to = v =>
          /\ Open(v)' /\ conn'[v].phase = "waiting" /\ conn'[v].request = loop.item.request
          /\ \A i \in DOMAIN queue' : queue'[i].to # v
  <2> SUFFICES ASSUME NEW v \in Workers, loop.phase \in HasItem, loop.item.to = v
               PROVE  /\ Open(v)' /\ conn'[v].phase = "waiting"
                      /\ conn'[v].request = loop.item.request
                      /\ \A i \in DOMAIN queue' : queue'[i].to # v
    BY Zenon
  <2>1. /\ Open(v) /\ conn[v].phase = "waiting" /\ conn[v].request = loop.item.request
        /\ \A i \in DOMAIN queue : queue[i].to # v
    BY Zenon DEF ChannelInv
  <2>2. v # w
    BY <1>5, Zenon
  <2>3. conn'[v] = conn[v] /\ Open(v)'
    BY <1>1, <1>4, <2>1, <2>2, Zenon
  <2>4. \A i \in DOMAIN queue' : queue'[i].to # v
    BY <1>2, <1>3, <2>1, <2>2, Zenon
  <2> QED
    BY <2>1, <2>3, <2>4, Zenon
<1> QED
  BY <1>1, <1>6, <1>7, <1>8, <1>9, Zenon DEF ChannelInv

\* The wait begins: the gate is free again and nobody else is between the two.
LEMMA ChannelCount ==
    ASSUME ExchangeTypeOK, ChannelInv, NEW w \in Workers, EnqueueCount(w)
    PROVE  ChannelInv'
<1>1. /\ UNCHANGED <<queue, loop>> /\ conn[w].phase = "sent"
      /\ conn'[w] = [phase |-> "waiting", request |-> conn[w].request, reply |-> "none"]
      /\ \A v \in Workers \ {w} : conn'[v] = conn[v]
  BY DEF EnqueueCount, ExchangeTypeOK
<1>2. \A v \in Workers : conn'[v].phase # "sent"
  BY <1>1 DEF ChannelInv
<1>3. \A v \in Workers : /\ Open(v) => Open(v)'
                         /\ conn'[v].request = conn[v].request
                         /\ conn[v].phase = "waiting" => conn'[v].phase = "waiting"
  BY <1>1 DEF Open
<1>4. queue' = queue /\ loop' = loop
  BY <1>1, Zenon
<1>5. \A v \in Workers, i \in DOMAIN queue' :
         queue'[i].to = v => Open(v)' /\ conn'[v].request = queue'[i].request
  BY <1>3, <1>4, Zenon DEF ChannelInv
<1>6. \A v \in Workers : loop'.phase \in HasItem /\ loop'.item.to = v =>
          /\ Open(v)' /\ conn'[v].phase = "waiting" /\ conn'[v].request = loop'.item.request
          /\ \A i \in DOMAIN queue' : queue'[i].to # v
  BY <1>3, <1>4, Zenon DEF ChannelInv
<1> QED
  BY <1>2, <1>4, <1>5, <1>6, Zenon DEF ChannelInv

\* A worker that gives up drops its channel wherever the item is.
LEMMA ChannelGiveUp ==
    ASSUME ExchangeTypeOK, ChannelInv, NEW w \in Workers, GiveUp(w)
    PROVE  ChannelInv'
<1>1. /\ UNCHANGED gate /\ conn'[w] = Idle /\ \A v \in Workers \ {w} : conn'[v] = conn[v]
      /\ loop'.phase = loop.phase /\ loop'.item = DropChannel(loop.item, w)
  BY DEF GiveUp, ExchangeTypeOK, LoopTypeOK
<1>2. /\ DOMAIN queue' = DOMAIN queue
      /\ \A i \in DOMAIN queue : /\ queue'[i].request = queue[i].request
                                 /\ queue'[i].to \in Workers => queue'[i].to = queue[i].to
                                 /\ queue'[i].to # w
  <2>1. DOMAIN queue' = DOMAIN queue
        /\ \A i \in DOMAIN queue : queue'[i] = DropChannel(queue[i], w) /\ queue[i] \in Item
    BY DEF GiveUp, ExchangeTypeOK
  <2>2. NoWorker \notin Workers
    BY ExchangeAssumption, Zenon
  <2>3. ASSUME NEW i \in DOMAIN queue
        PROVE  /\ queue'[i].request = queue[i].request /\ queue'[i].to # w
               /\ queue'[i].to \in Workers => queue'[i].to = queue[i].to
    <3>1. queue[i] \in Item /\ queue'[i] = DropChannel(queue[i], w)
      BY <2>1, Zenon
    <3>2. /\ queue'[i].request = queue[i].request /\ queue'[i].to # w
          /\ queue'[i].to # NoWorker => queue'[i].to = queue[i].to
      BY <3>1, DropFacts
    <3> QED
      BY <2>2, <3>2, Zenon
  <2> QED
    BY <2>1, <2>3, Zenon
<1>3. loop.phase \in HasItem =>
         /\ loop'.item.request = loop.item.request /\ loop'.item.to # w
         /\ loop'.item.to \in Workers => loop'.item.to = loop.item.to
  <2>1. loop.phase \in HasItem => loop.item \in Item
    BY DEF ExchangeTypeOK, LoopTypeOK
  <2>2. NoWorker \notin Workers
    BY ExchangeAssumption, Zenon
  <2>3. ASSUME loop.item \in Item
        PROVE  /\ loop'.item.request = loop.item.request /\ loop'.item.to # w
               /\ loop'.item.to # NoWorker => loop'.item.to = loop.item.to
    BY <1>1, <2>3, DropFacts
  <2> QED
    BY <2>1, <2>2, <2>3, Zenon
<1>4. \A v \in Workers \ {w} : Open(v) => Open(v)'
  BY <1>1, Zenon DEF Open
<1>5. \A v \in Workers : conn'[v].phase = "sent" => gate' = v
  <2>1. conn'[w].phase # "sent"
    BY <1>1 DEF Idle
  <2>2. \A v \in Workers : conn[v].phase = "sent" => gate = v
    BY Zenon DEF ChannelInv
  <2> QED
    BY <1>1, <2>1, <2>2, Zenon
<1>6. \A v \in Workers, i \in DOMAIN queue' :
         queue'[i].to = v => Open(v)' /\ conn'[v].request = queue'[i].request
  <2> SUFFICES ASSUME NEW v \in Workers, NEW i \in DOMAIN queue, queue'[i].to = v
               PROVE  Open(v)' /\ conn'[v].request = queue'[i].request
    BY <1>2, Zenon
  <2>1. v # w /\ queue[i].to = v /\ queue'[i].request = queue[i].request
    BY <1>2, Zenon
  <2>2. Open(v) /\ conn[v].request = queue[i].request
    BY <2>1, Zenon DEF ChannelInv
  <2> QED
    BY <1>1, <1>4, <2>1, <2>2, Zenon
<1>7. \A v \in Workers, i, j \in DOMAIN queue' : queue'[i].to = v /\ queue'[j].to = v => i = j
  <2>1. \A v \in Workers, i \in DOMAIN queue : queue'[i].to = v => queue[i].to = v
    BY <1>2, Zenon
  <2>2. \A v \in Workers, i, j \in DOMAIN queue : queue[i].to = v /\ queue[j].to = v => i = j
    BY Zenon DEF ChannelInv
  <2>3. DOMAIN queue' = DOMAIN queue
    BY <1>2, Zenon
  <2> QED
    BY <2>1, <2>2, <2>3, Zenon
<1>8. \A v \in Workers : loop'.phase \in HasItem /\ loop'.item.to = v =>
          /\ Open(v)' /\ conn'[v].phase = "waiting" /\ conn'[v].request = loop'.item.request
          /\ \A i \in DOMAIN queue' : queue'[i].to # v
  <2> SUFFICES ASSUME NEW v \in Workers, loop'.phase \in HasItem, loop'.item.to = v
               PROVE  /\ Open(v)' /\ conn'[v].phase = "waiting"
                      /\ conn'[v].request = loop'.item.request
                      /\ \A i \in DOMAIN queue' : queue'[i].to # v
    BY Zenon
  <2>1. /\ loop.phase \in HasItem /\ v # w /\ loop.item.to = v
        /\ loop'.item.request = loop.item.request
    BY <1>1, <1>3, Zenon
  <2>2. /\ Open(v) /\ conn[v].phase = "waiting" /\ conn[v].request = loop.item.request
        /\ \A i \in DOMAIN queue : queue[i].to # v
    BY <2>1, Zenon DEF ChannelInv
  <2>3. conn'[v] = conn[v] /\ Open(v)'
    BY <1>1, <1>4, <2>1, <2>2, Zenon
  <2>4. \A i \in DOMAIN queue' : queue'[i].to # v
    BY <1>2, <2>2, Zenon
  <2> QED
    BY <2>1, <2>2, <2>3, <2>4, Zenon
<1> QED
  BY <1>5, <1>6, <1>7, <1>8, Zenon DEF ChannelInv

\* The loop takes an item while no worker is between its send and its wait.
LEMMA ChannelTake ==
    ASSUME ExchangeTypeOK, ChannelInv, Take
    PROVE  ChannelInv'
<1>1. /\ UNCHANGED <<conn, gate>> /\ gate = NoWorker /\ loop'.item = queue[1]
  BY DEF Take, ExchangeTypeOK, LoopTypeOK
<1>2. /\ \A i \in DOMAIN queue' : i + 1 \in DOMAIN queue /\ queue'[i] = queue[i + 1] /\ i + 1 # 1
      /\ 1 \in DOMAIN queue
      /\ \A i, j \in DOMAIN queue' : i + 1 = j + 1 => i = j
  BY DEF Take, ExchangeTypeOK
<1>3. \A v \in Workers : conn[v].phase # "sent" /\ (Open(v)' <=> Open(v))
  BY <1>1, ExchangeAssumption DEF ChannelInv, Open
<1>4. \A v \in Workers, i \in DOMAIN queue' :
         queue'[i].to = v => Open(v)' /\ conn'[v].request = queue'[i].request
  BY <1>1, <1>2, <1>3 DEF ChannelInv
<1>5. \A v \in Workers, i, j \in DOMAIN queue' : queue'[i].to = v /\ queue'[j].to = v => i = j
  BY <1>2 DEF ChannelInv
<1>6. \A v \in Workers : loop'.item.to = v =>
          /\ Open(v)' /\ conn'[v].phase = "waiting" /\ conn'[v].request = loop'.item.request
          /\ \A i \in DOMAIN queue' : queue'[i].to # v
  <2> SUFFICES ASSUME NEW v \in Workers, queue[1].to = v
               PROVE  /\ Open(v)' /\ conn'[v].phase = "waiting" /\ conn'[v].request = queue[1].request
                      /\ \A i \in DOMAIN queue' : queue'[i].to # v
    BY <1>1
  <2>1. Open(v) /\ conn[v].request = queue[1].request
    BY <1>2 DEF ChannelInv
  <2>2. conn[v].phase = "waiting"
    BY <1>3, <2>1 DEF Open
  <2>3. \A i \in DOMAIN queue' : queue'[i].to # v
    BY <1>2 DEF ChannelInv
  <2> QED
    BY <1>1, <1>3, <2>1, <2>2, <2>3
<1> QED
  BY <1>1, <1>3, <1>4, <1>5, <1>6, Zenon DEF ChannelInv

\* The response fills the channel of the item, which no other item has.
LEMMA ChannelRespond ==
    ASSUME ExchangeTypeOK, ChannelInv, Respond
    PROVE  ChannelInv'
<1>1. UNCHANGED <<queue, gate>> /\ loop'.phase = "drain" /\ loop.phase \in HasItem
  BY DEF Respond, ExchangeTypeOK, LoopTypeOK, HasItem
<1>2. \A v \in Workers : loop.item.to # v => conn'[v] = conn[v]
  BY DEF Respond, ExchangeTypeOK
<1>3. \A v \in Workers : loop.item.to = v =>
         conn'[v].phase = "waiting" /\ \A i \in DOMAIN queue : queue[i].to # v
  <2> SUFFICES ASSUME NEW v \in Workers, loop.item.to = v
               PROVE  conn'[v].phase = "waiting" /\ \A i \in DOMAIN queue : queue[i].to # v
    OBVIOUS
  <2>1. conn[v].phase = "waiting" /\ \A i \in DOMAIN queue : queue[i].to # v
    BY <1>1, Zenon DEF ChannelInv
  <2>2. conn'[v] = [conn[v] EXCEPT !.reply = loop.reply]
    BY ExchangeAssumption DEF Respond, ExchangeTypeOK
  <2> QED
    BY <2>1, <2>2, ConnFacts DEF ExchangeTypeOK
<1>4. \A v \in Workers : loop.item.to # v => (Open(v)' <=> Open(v))
  BY <1>2 DEF Open
<1> QED
  BY <1>1, <1>2, <1>3, <1>4 DEF ChannelInv, HasItem

\* With empty memory there are no channels.
LEMMA ChannelMemory == MemoryInit => ChannelInv
<1> SUFFICES ASSUME MemoryInit PROVE ChannelInv
  OBVIOUS
<1>1. /\ loop.phase \notin HasItem /\ DOMAIN queue = {}
      /\ \A w \in Workers : conn[w].phase # "sent"
  BY DEF MemoryInit, LoopRest, HasItem, Idle
<1> QED
  BY <1>1 DEF ChannelInv

\* Every step keeps ChannelInv.
LEMMA ChannelNext == ExchangeTypeOK /\ ChannelInv /\ [Next]_vars => ChannelInv'
<1> SUFFICES ASSUME ExchangeTypeOK, ChannelInv, [Next]_vars PROVE ChannelInv'
  OBVIOUS
<1>1. CASE UNCHANGED vars
  BY <1>1, ChannelKept
<1>2. CASE \E w \in Workers, o \in Offered, d \in Ids :
             Begin(w, [key |-> o.key, id |-> d, name |-> o.name, args |-> o.args])
  BY <1>2, OfferedRequest, ChannelKept
<1>3. CASE \E w \in Workers : Serve(w)
  BY <1>3, ChannelKept, ChannelSend, ChannelCount, ChannelGiveUp DEF Serve
<1>4. CASE Loop
  <2>1. CASE \E a \in Answer : Decide(a)
    BY <2>1, ChannelKept
  <2> QED
    BY <1>4, <2>1, ChannelKept, ChannelTake, ChannelRespond
    DEF Loop, Expire, DispatchAccepted, DispatchReplayed, DispatchRefused, Answer
<1>5. CASE Crash
  <2>1. MemoryInit'
    BY <1>5 DEF Crash, MemoryInit
  <2>2. MemoryInit' => ChannelInv'
    BY ChannelMemory, PTL
  <2> QED
    BY <2>1, <2>2
<1> QED
  BY <1>1, <1>2, <1>3, <1>4, <1>5 DEF Next

-----------------------------------------------------------------------------
(* Acknowledgements. *)

\* An "ok" for the command c is with a caller, in the cache, in the loop's hand
\* or in a channel.
Told(c) ==
    \/ c \in acked
    \/ \E k \in Keys : /\ records[k].state = "complete" /\ records[k].reply = "ok"
                       /\ records[k].command = c
    \/ /\ loop.phase \in {"decided", "completed"} /\ loop.reply = "ok"
       /\ Command(loop.item.request) = c
    \/ \E w \in Workers : /\ conn[w].phase = "waiting" /\ conn[w].reply = "ok"
                          /\ Command(conn[w].request) = c

AckInv == \A c : Told(c) => Receipted(c)

\* Only an admission or a replay brings a new "ok": elsewhere it is passed on.
LEMMA ToldByWorker ==
    ASSUME ExchangeTypeOK, NEW w \in Workers, Serve(w), NEW c, Told(c)'
    PROVE  Told(c)
<1> USE DEF ExchangeTypeOK
<1>1. CASE EnqueueSend(w) \/ EnqueueFull(w)
  <2>1. conn[w] \in [phase : {"begun", "sent", "refused"}, request : Request]
    BY <1>1, ConnFacts DEF EnqueueSend, EnqueueFull
  <2>2. conn'[w].phase # "waiting" /\ \A v \in Workers \ {w} : conn'[v] = conn[v]
    BY <1>1, <2>1 DEF EnqueueSend, EnqueueFull
  <2>3. UNCHANGED <<records, loop, acked>>
    BY <1>1 DEF EnqueueSend, EnqueueFull
  <2> QED
    BY <2>2, <2>3, Zenon DEF Told
<1>2. CASE EnqueueCount(w)
  <2>1. conn'[w].reply = "none" /\ \A v \in Workers \ {w} : conn'[v] = conn[v]
    BY <1>2 DEF EnqueueCount
  <2>2. UNCHANGED <<records, loop, acked>>
    BY <1>2 DEF EnqueueCount
  <2> QED
    BY <2>1, <2>2, Zenon DEF Told
<1>3. CASE Abandon(w)
  <2>1. conn'[w].phase = "idle" /\ \A v \in Workers \ {w} : conn'[v] = conn[v]
    BY <1>3, Zenon DEF Abandon, Idle
  <2>2. \A k \in Keys : records'[k] = records[k] \/ records'[k].state = "none"
    <3>1. UNCHANGED records \/ \E j : records' = [records EXCEPT ![j] = NoRecord]
      BY <1>3, Zenon DEF Abandon
    <3> QED
      BY <3>1 DEF NoRecord
  <2>3. UNCHANGED <<loop, acked>>
    BY <1>3 DEF Abandon
  <2> QED
    BY <2>1, <2>2, <2>3, Zenon DEF Told
<1>4. CASE ReceiveReply(w)
  <2>1. conn'[w].phase = "idle" /\ \A v \in Workers \ {w} : conn'[v] = conn[v]
    BY <1>4 DEF ReceiveReply, Idle
  <2>2. UNCHANGED <<records, loop>> /\ conn[w].phase = "waiting"
    BY <1>4 DEF ReceiveReply
  <2>3. c \in acked' => \/ c \in acked
                        \/ conn[w].reply = "ok" /\ c = Command(conn[w].request)
    BY <1>4 DEF ReceiveReply, Tell
  <2> QED
    BY Zenon, <2>1, <2>2, <2>3 DEF Told
<1>5. CASE GiveUp(w)
  <2>1. conn'[w].phase = "idle" /\ \A v \in Workers \ {w} : conn'[v] = conn[v]
    BY <1>5 DEF GiveUp, Idle
  <2>2. UNCHANGED <<records, acked>> /\ loop'.phase = loop.phase /\ loop'.reply = loop.reply
        /\ loop'.item = DropChannel(loop.item, w)
    BY <1>5 DEF GiveUp, LoopTypeOK
  <2>3. loop.phase \in {"decided", "completed"} => loop'.item.request = loop.item.request
    BY <2>2, DropFacts DEF LoopTypeOK, HasItem
  <2> QED
    BY <2>1, <2>2, <2>3, Zenon DEF Told
<1> QED
  BY <1>1, <1>2, <1>3, <1>4, <1>5 DEF Serve

\* The cache answers "ok" only where it has one for the same command.
LEMMA ToldByCache ==
    ASSUME ExchangeTypeOK, NEW w \in Workers, NEW r \in Request, Begin(w, r), NEW c, Told(c)'
    PROVE  Told(c)
<1> USE DEF ExchangeTypeOK
<1>0. r.key \in Keys
  BY DEF Request
<1>1. CASE BeginKnown(w, r)
  <2>1. UNCHANGED <<conn, records, loop>>
    BY <1>1 DEF BeginKnown, memory
  <2>2. c \in acked' =>
           \/ c \in acked
           \/ /\ records[r.key].state = "complete" /\ records[r.key].reply = "ok"
              /\ records[r.key].command = c
    BY <1>1 DEF BeginKnown, Tell
  <2> QED
    BY <1>0, <2>1, <2>2, Zenon DEF Told
<1>2. CASE BeginNew(w, r)
  <2>1. UNCHANGED <<acked, loop>> /\ conn'[w].phase = "begun"
        /\ \A v \in Workers \ {w} : conn'[v] = conn[v]
    BY <1>2 DEF BeginNew
  <2>2. \A k \in Keys : records'[k] = records[k] \/ records'[k].state \in {"none", "pending"}
    <3>1. CASE Remember(r)
      BY <1>0, <3>1 DEF Remember
    <3>2. CASE records' = [records EXCEPT ![Head(order)] = NoRecord,
                                    ![r.key] = [state |-> "pending", command |-> Command(r)]]
      BY <1>0, <3>2, Zenon DEF NoRecord
    <3> QED
      BY <1>2, <3>1, <3>2, Zenon DEF BeginNew
  <2> QED
    BY <2>1, <2>2, Zenon DEF Told
<1>3. CASE BeginNoSlot(w, r)
  BY <1>3, Zenon DEF BeginNoSlot, Told
<1> QED
  BY <1>1, <1>2, <1>3 DEF Begin

\* The loop: a decision brings the "ok", the completion writes it to the cache
\* and the response passes it to the worker that sent this request.
LEMMA ToldByLoop ==
    ASSUME ExchangeTypeOK, ChannelInv, Loop, NEW c, Told(c)'
    PROVE  \/ Told(c)
           \/ (DispatchAccepted \/ DispatchReplayed) /\ c = Command(loop.item.request)
<1> USE DEF ExchangeTypeOK
<1>1. CASE StartDrain
  <2>1. UNCHANGED <<conn, records, acked>> /\ loop'.phase = "drain"
    BY <1>1 DEF StartDrain, LoopTypeOK
  <2> QED
    BY <2>1, Zenon DEF Told
<1>2. CASE Take
  <2>1. UNCHANGED <<conn, records, acked>> /\ loop'.phase = "taken"
    BY <1>2 DEF Take, LoopTypeOK
  <2> QED
    BY <2>1, Zenon DEF Told
<1>3. CASE EndDrain
  <2>1. UNCHANGED <<conn, records, acked>> /\ loop'.phase = "reconcile"
    BY <1>3 DEF EndDrain, LoopRest
  <2> QED
    BY <2>1, Zenon DEF Told
<1>4. ASSUME NEW a \in Answer, Decide(a)
      PROVE  Told(c) \/ (a = "ok" /\ c = Command(loop.item.request))
  <2>1. UNCHANGED <<conn, records, acked>> /\ loop'.reply = a /\ loop'.item = loop.item
    BY <1>4 DEF Decide, LoopTypeOK
  <2> QED
    BY <2>1, Zenon DEF Told
<1>5. CASE Complete
  <2>1. UNCHANGED <<conn, acked>> /\ loop'.item = loop.item /\ loop'.reply = loop.reply
        /\ loop.phase = "decided"
    BY <1>5 DEF Complete, LoopTypeOK
  <2>2. PICK r \in Request : r = loop.item.request
    BY <1>5, OwnersHaveRequests DEF Complete, LoopOwes
  <2>3. \A k \in Keys :
           \/ records'[k] = records[k]
           \/ records'[k] = [state |-> "complete", command |-> Command(r), reply |-> loop.reply]
    BY <1>5, <2>2 DEF Complete
  <2>4. \A k \in Keys :
           \/ records'[k] = records[k]
           \/ records'[k].command = Command(r) /\ records'[k].reply = loop.reply
    BY <2>3
  <2> QED
    BY <2>1, <2>2, <2>4, Zenon DEF Told
<1>6. CASE Respond
  <2>1. UNCHANGED <<records, acked>> /\ loop'.phase = "drain" /\ loop.phase = "completed"
    BY <1>6 DEF Respond, LoopTypeOK
  <2>2. \A v \in Workers : loop.item.to # v => conn'[v] = conn[v]
    BY <1>6 DEF Respond
  <2>3. \A v \in Workers : loop.item.to = v =>
           conn'[v].reply = loop.reply /\ conn'[v].request = loop.item.request
    <3> SUFFICES ASSUME NEW v \in Workers, loop.item.to = v
                 PROVE  conn'[v].reply = loop.reply /\ conn'[v].request = loop.item.request
      OBVIOUS
    <3>1. conn[v].phase = "waiting" /\ conn[v].request = loop.item.request
      BY <2>1 DEF ChannelInv, HasItem
    <3>2. conn'[v] = [conn[v] EXCEPT !.reply = loop.reply]
      BY <1>6, ExchangeAssumption, Zenon DEF Respond
    <3> QED
      BY <3>1, <3>2, ConnFacts
  <2> QED
    BY <2>1, <2>2, <2>3, Zenon DEF Told
<1> QED
  BY <1>1, <1>2, <1>3, <1>4, <1>5, <1>6
  DEF Loop, Expire, DispatchAccepted, DispatchReplayed, DispatchRefused, Answer

\* Every step keeps AckInv: receipts stay, and a new "ok" has one.
LEMMA AckNext == ExchangeTypeOK /\ ChannelInv /\ AckInv /\ [Next]_vars => AckInv'
<1> SUFFICES ASSUME ExchangeTypeOK, ChannelInv, AckInv, [Next]_vars, NEW c, Told(c)'
             PROVE  Receipted(c)'
  BY DEF AckInv
<1>1. Told(c) => Receipted(c)'
  BY ReceiptStep DEF AckInv
<1>2. CASE UNCHANGED vars
  <2>1. Told(c)
    BY <1>2, Zenon DEF Told, vars, memory
  <2> QED
    BY <1>1, <2>1
<1>3. CASE \E w \in Workers, o \in Offered, d \in Ids :
             Begin(w, [key |-> o.key, id |-> d, name |-> o.name, args |-> o.args])
  BY <1>1, <1>3, OfferedRequest, ToldByCache
<1>4. CASE \E w \in Workers : Serve(w)
  BY <1>1, <1>4, ToldByWorker
<1>5. CASE Loop
  <2>1. CASE DispatchAccepted /\ c = Command(loop.item.request)
    <3>1. PICK r \in Request : r = loop.item.request
      BY <2>1 DEF DispatchAccepted, Decide, ExchangeTypeOK, LoopTypeOK, HasItem, Item
    <3> QED
      BY <2>1, <3>1, ReceiptStep
  <2>2. CASE DispatchReplayed /\ c = Command(loop.item.request)
    BY <2>2, Zenon DEF DispatchReplayed, Replays, Receipted, Command, ledgerVars
  <2> QED
    BY <1>1, <1>5, <2>1, <2>2, ToldByLoop
<1>6. CASE Crash
  <2>1. Told(c)
    BY <1>6, Zenon DEF Crash, Told, Idle, NoRecord, LoopRest
  <2> QED
    BY <1>1, <2>1
<1> QED
  BY <1>2, <1>3, <1>4, <1>5, <1>6, Zenon DEF Next

\* For any workers, keys, capacities and deaths: a command some caller was told
\* was accepted has its receipt in the ledger.
THEOREM AcknowledgedDurable == Spec => []AcknowledgedIsDurable
<1>1. Init => ExchangeTypeOK /\ ChannelInv
  BY TypeInit, ChannelMemory DEF Init
<1>2. Init => AckInv
  <2> SUFFICES ASSUME Init, NEW c, Told(c) PROVE FALSE
    BY DEF AckInv
  <2>1. \A w \in Workers : conn[w].phase = "idle"
    BY DEF Init, MemoryInit, Idle
  <2>2. \A k \in Keys : records[k].state = "none"
    BY DEF Init, MemoryInit, NoRecord
  <2>3. loop.phase \notin {"decided", "completed"} /\ acked = {}
    BY Zenon DEF Init, MemoryInit, LoopRest
  <2> QED
    BY <2>1, <2>2, <2>3, Zenon DEF Told
<1>3. AckInv => AcknowledgedIsDurable
  BY Zenon DEF AckInv, Told, Receipted, AcknowledgedIsDurable
<1> QED
  BY <1>1, <1>2, <1>3, TypeNext, ChannelNext, AckNext, PTL DEF Spec

-----------------------------------------------------------------------------
(* The count of the queue. *)

\* While a worker holds the gate the count is one behind the queue.
DepthInv ==
    /\ depth \in Nat /\ Len(queue) <= QueueCapacity
    /\ gate = NoWorker => depth = Len(queue)
    /\ gate # NoWorker => depth + 1 = Len(queue)

\* Every step keeps DepthInv.
LEMMA DepthNext == ExchangeTypeOK /\ ChannelInv /\ DepthInv /\ [Next]_vars => DepthInv'
<1> SUFFICES ASSUME ExchangeTypeOK, ChannelInv, DepthInv, [Next]_vars PROVE DepthInv'
  OBVIOUS
<1>0. queue \in Seq(Item) /\ Len(queue) \in Nat /\ QueueCapacity \in Nat
  BY ExchangeAssumption DEF ExchangeTypeOK
<1>1. CASE UNCHANGED <<queue, depth, gate>>
  BY <1>1 DEF DepthInv
<1>2. ASSUME NEW w \in Workers, EnqueueSend(w) PROVE DepthInv'
  <2>1. Len(queue') = Len(queue) + 1
    BY <1>0, <1>2 DEF EnqueueSend
  <2> QED
    BY <1>0, <1>2, <2>1, ExchangeAssumption DEF EnqueueSend, DepthInv
<1>3. ASSUME NEW w \in Workers, EnqueueCount(w) PROVE DepthInv'
  <2>1. gate # NoWorker
    BY <1>3, ExchangeAssumption, Zenon DEF EnqueueCount, ChannelInv
  <2> QED
    BY <1>0, <1>3, <2>1, Zenon DEF EnqueueCount, DepthInv
<1>4. ASSUME NEW w \in Workers, GiveUp(w) PROVE DepthInv'
  <2>1. queue' \in Seq(Item) /\ DOMAIN queue' = DOMAIN queue /\ UNCHANGED <<depth, gate>>
    BY <1>4, WorkerTypes, Zenon DEF GiveUp, Serve
  <2>2. Len(queue') = Len(queue)
    BY <1>0, <2>1
  <2> QED
    BY <2>1, <2>2, Zenon DEF DepthInv
<1>5. CASE Take
  <2>1. Len(queue') = Len(queue) - 1 /\ Len(queue) > 0
    BY <1>0, <1>5 DEF Take
  <2> QED
    BY <1>0, <1>5, <2>1 DEF Take, DepthInv
<1>6. CASE Crash
  BY <1>0, <1>6 DEF Crash, DepthInv
<1>7. CASE UNCHANGED vars
  BY <1>1, <1>7 DEF vars, memory
<1>8. CASE \E w \in Workers, o \in Offered, d \in Ids :
             Begin(w, [key |-> o.key, id |-> d, name |-> o.name, args |-> o.args])
  <2>1. PICK w \in Workers, o \in Offered, d \in Ids :
             Begin(w, [key |-> o.key, id |-> d, name |-> o.name, args |-> o.args])
    BY <1>8
  <2> DEFINE r == [key |-> o.key, id |-> d, name |-> o.name, args |-> o.args]
  <2>2. Begin(w, r)
    BY <2>1
  <2> HIDE DEF r
  <2>3. UNCHANGED <<queue, depth, gate>>
    <3>1. CASE BeginKnown(w, r)
      BY <3>1, Zenon DEF BeginKnown, memory
    <3>2. CASE BeginNew(w, r)
      BY <3>2, Zenon DEF BeginNew
    <3>3. CASE BeginNoSlot(w, r)
      BY <3>3, Zenon DEF BeginNoSlot
    <3> QED
      BY <2>2, <3>1, <3>2, <3>3 DEF Begin
  <2> QED
    BY <1>1, <2>3
<1>9. CASE \E w \in Workers : Serve(w)
  BY <1>1, <1>2, <1>3, <1>4, <1>9 DEF Serve, EnqueueFull, Abandon, ReceiveReply
<1>10. CASE Loop
  BY <1>1, <1>5, <1>10
  DEF Loop, StartDrain, EndDrain, Expire, DispatchAccepted, DispatchReplayed, DispatchRefused,
      Decide, Complete, Respond
<1> QED
  BY <1>6, <1>7, <1>8, <1>9, <1>10 DEF Next

\* For any capacity, workers and deaths: the queue keeps to its capacity, and the
\* count that is shown as its depth never wraps and is right whenever the gate
\* is free.
THEOREM DepthsAgree == Spec => []DepthAgrees
<1>1. Init => ExchangeTypeOK /\ ChannelInv
  BY TypeInit, ChannelMemory DEF Init
<1>2. Init => DepthInv
  BY ExchangeAssumption DEF Init, MemoryInit, DepthInv
<1>3. DepthInv => DepthAgrees
  BY DEF DepthInv, DepthAgrees
<1> QED
  BY <1>1, <1>2, <1>3, TypeNext, ChannelNext, DepthNext, PTL DEF Spec
================================================================================
