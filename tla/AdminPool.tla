------------------------------- MODULE AdminPool -------------------------------
(***************************************************************************)
(* The threads of the admin server (admin/server): one accepts             *)
(* connections and hands them round the workers, each of which has a       *)
(* channel of one place; a worker reads the request, queues it for the     *)
(* main loop and waits for the answer until the request's deadline.  The   *)
(* main loop answers between reconciliations, and when it ends it stops    *)
(* the server and joins its threads.  What an exchange does with a request *)
(* is AdminExchange's; here a connection is who holds it.                  *)
(***************************************************************************)
EXTENDS Naturals

CONSTANTS
    PoolWorkers,   \* worker_count
    PoolClients,   \* max_clients
    MaxStreams     \* bound on the connections of a behaviour

ASSUME PoolAssumption ==
    /\ PoolWorkers \in Nat \ {0} /\ PoolClients \in Nat /\ MaxStreams \in Nat
    /\ PoolWorkers <= PoolClients

VARIABLES
    stream,     \* where each connection is
    acceptor,   \* the accept thread
    slot,       \* each worker's channel: the connection that waits in it
    worker,     \* the worker threads
    clients,    \* client_count
    serving     \* the main loop, and its stop flag

poolVars == <<stream, acceptor, slot, worker, clients, serving>>

Stream == 1..MaxStreams
Worker == 0..(PoolWorkers - 1)

\* AdminServer::start.
PoolInit ==
    /\ stream = [s \in Stream |-> "new"]
    /\ acceptor = [pc |-> "accept", s |-> {}, next |-> 0]
    /\ slot = [w \in Worker |-> {}]
    /\ worker = [w \in Worker |-> [pc |-> "poll", s |-> {}, reply |-> FALSE]]
    /\ clients = 0
    /\ serving = [pc |-> "loop", stop |-> FALSE]

PlaceStream(S, where) == stream' = [s \in Stream |-> IF s \in S THEN where ELSE stream[s]]
StepWorker(w, pc, S, reply) == worker' = [worker EXCEPT ![w] = [pc |-> pc, s |-> S, reply |-> reply]]

-----------------------------------------------------------------------------
(* The clients and the accept thread. *)

ConnectStream(s) ==
    /\ stream[s] = "new" /\ acceptor.pc # "exited"
    /\ PlaceStream({s}, "backlog")
    /\ UNCHANGED <<acceptor, slot, worker, clients, serving>>

\* reserve_client.
CanReserve == clients < PoolClients

AcceptStream(s) ==
    /\ acceptor.pc = "accept" /\ ~serving.stop /\ stream[s] = "backlog"
    /\ IF CanReserve
       THEN /\ clients' = clients + 1
            /\ acceptor' = [acceptor EXCEPT !.pc = "send", !.s = {s}]
            /\ PlaceStream({s}, "open")
       ELSE PlaceStream({s}, "busy") /\ UNCHANGED <<clients, acceptor>>
    /\ UNCHANGED <<slot, worker, serving>>

\* try_send to the next worker: refused when its channel holds a connection or
\* the worker has gone, and then the reservation is given back.
SendStream ==
    LET w == acceptor.next % PoolWorkers
    IN  /\ acceptor.pc = "send"
        /\ acceptor' = [pc |-> "accept", s |-> {}, next |-> (acceptor.next + 1) % PoolWorkers]
        /\ IF slot[w] = {} /\ worker[w].pc # "exited"
           THEN slot' = [slot EXCEPT ![w] = acceptor.s] /\ UNCHANGED <<clients, stream>>
           ELSE PlaceStream(acceptor.s, "busy") /\ clients' = clients - 1 /\ UNCHANGED slot
        /\ UNCHANGED <<worker, serving>>

\* The stop flag, or an error of accept that is neither WouldBlock nor
\* Interrupted; the listener is closed.
AcceptorExits ==
    /\ acceptor.pc = "accept"
    /\ acceptor' = [acceptor EXCEPT !.pc = "exited"]
    /\ PlaceStream({s \in Stream : stream[s] = "backlog"}, "dropped")
    /\ UNCHANGED <<slot, worker, clients, serving>>

-----------------------------------------------------------------------------
(* The workers. *)

WorkerReceives(w) ==
    /\ worker[w].pc = "poll" /\ ~serving.stop /\ slot[w] # {}
    /\ StepWorker(w, "read", slot[w], FALSE)
    /\ slot' = [slot EXCEPT ![w] = {}]
    /\ UNCHANGED <<stream, acceptor, clients, serving>>

\* What waits in the channel is dropped with it.
WorkerExits(w) ==
    /\ worker[w].pc = "poll" /\ serving.stop
    /\ StepWorker(w, "exited", {}, FALSE)
    /\ PlaceStream(slot[w], "dropped")
    /\ slot' = [slot EXCEPT ![w] = {}]
    /\ UNCHANGED <<acceptor, clients, serving>>

\* read_frame within the I/O timeout: a request for the main loop is queued; any
\* other frame, and a request the cache answers, is answered at once.
WorkerReads(w) ==
    /\ worker[w].pc = "read"
    /\ \/ StepWorker(w, "wait", worker[w].s, FALSE) /\ UNCHANGED stream
       \/ StepWorker(w, "release", {}, FALSE) /\ PlaceStream(worker[w].s, "answered")
       \/ StepWorker(w, "release", {}, FALSE) /\ PlaceStream(worker[w].s, "dropped")
    /\ UNCHANGED <<acceptor, slot, clients, serving>>

WorkerReplies(w) ==
    /\ worker[w].pc = "wait" /\ worker[w].reply
    /\ StepWorker(w, "release", {}, FALSE) /\ PlaceStream(worker[w].s, "answered")
    /\ UNCHANGED <<acceptor, slot, clients, serving>>

\* Mutant: the worker waits for as long as the main loop takes.
WorkerWaitsOn(w) == FALSE /\ UNCHANGED poolVars

\* recv_timeout: the deadline of the request passes.
WorkerGivesUp(w) ==
    /\ worker[w].pc = "wait"
    /\ StepWorker(w, "release", {}, FALSE) /\ PlaceStream(worker[w].s, "answered")
    /\ UNCHANGED <<acceptor, slot, clients, serving>>

WorkerReleases(w) ==
    /\ worker[w].pc = "release"
    /\ StepWorker(w, "poll", {}, FALSE)
    /\ clients' = clients - 1
    /\ UNCHANGED <<stream, acceptor, slot, serving>>

-----------------------------------------------------------------------------
(* The main loop. *)

\* drain_admin.
MainAnswers(w) ==
    /\ serving.pc = "loop" /\ worker[w].pc = "wait" /\ ~worker[w].reply
    /\ worker' = [worker EXCEPT ![w].reply = TRUE]
    /\ UNCHANGED <<stream, acceptor, slot, clients, serving>>

\* The loop returns or fails; AdminServer::drop.
MainStops ==
    /\ serving.pc = "loop" /\ serving' = [pc |-> "acceptor", stop |-> TRUE]
    /\ UNCHANGED <<stream, acceptor, slot, worker, clients>>

JoinAcceptor ==
    /\ serving.pc = "acceptor" /\ acceptor.pc = "exited"
    /\ serving' = [serving EXCEPT !.pc = "workers"]
    /\ UNCHANGED <<stream, acceptor, slot, worker, clients>>

\* Then the endpoint is removed.
JoinWorkers ==
    /\ serving.pc = "workers" /\ \A w \in Worker : worker[w].pc = "exited"
    /\ serving' = [serving EXCEPT !.pc = "closed"]
    /\ UNCHANGED <<stream, acceptor, slot, worker, clients>>

WorkerStep(w) ==
    \/ WorkerReceives(w) \/ WorkerExits(w) \/ WorkerReads(w) \/ WorkerReplies(w)
    \/ WorkerGivesUp(w) \/ WorkerReleases(w)

JoinStep == JoinAcceptor \/ JoinWorkers

AcceptorStep == (\E s \in Stream : AcceptStream(s)) \/ SendStream \/ AcceptorExits

PoolNext ==
    \/ \E s \in Stream : ConnectStream(s)
    \/ AcceptorStep
    \/ \E w \in Worker : WorkerStep(w) \/ MainAnswers(w)
    \/ MainStops \/ JoinStep

\* Threads are scheduled, reads and waits time out.
PoolFairness ==
    /\ WF_poolVars(SendStream) /\ WF_poolVars(serving.stop /\ AcceptorExits)
    /\ \A w \in Worker : WF_poolVars(WorkerStep(w))
    /\ WF_poolVars(JoinStep)

-----------------------------------------------------------------------------
(* Properties. *)

\* The main loop that stops the server gets all of its threads back, although
\* it no longer answers the requests that workers wait on: no thread waits on
\* the main loop while the main loop waits on it.
ShutdownEnds == serving.stop ~> serving.pc = "closed"
================================================================================
