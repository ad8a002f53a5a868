--------------------------- MODULE MCAdminExchange ---------------------------
(* A small instance of the admin exchange: two workers, three keys, a cache  *)
(* with room for two and a queue with room for one, so that records are      *)
(* evicted, rotated and abandoned and requests are refused.  Beside it, the  *)
(* ledger by itself, with every operation of the store that writes to it or  *)
(* to the audit log, and the threads of the server.  A behaviour is of one   *)
(* of the three.                                                             *)
EXTENDS AdminExchange, AdminPool

CONSTANTS k1, k2, k3, a1

VARIABLE scenario

\* k1 is used for two different commands, the others for the same one.
MCOffered == {[key |-> k1, name |-> "pause", args |-> a1],
              [key |-> k1, name |-> "job_submit", args |-> a1],
              [key |-> k2, name |-> "stop", args |-> a1],
              [key |-> k3, name |-> "stop", args |-> a1]}

MCIds == 1 .. MaxSends

mcVars == <<scenario, vars, poolVars>>

MCInit ==
    /\ scenario \in {"exchange", "ledger", "pool"}
    /\ LedgerInit /\ MemoryInit /\ PoolInit
    /\ acked = {} /\ sent = 0 /\ crashes = 0
    /\ scenario # "ledger" => desiredMode = "Stopped"

\* Request ids are only compared: a receipt takes the next one.
IdsInOrder == Len(ledger') > Len(ledger) => ledger'[Len(ledger')].id = Len(ledger')

\* Idle workers are alike: the first of them takes the next request.
FirstIdleTakes ==
    \A v, w \in Workers :
        v < w /\ conn[v] = Idle /\ conn[w] = Idle => conn'[w] = Idle

\* k2 and k3 are alike until one of them leaves a trace: k2 is the first.
Traced(k) ==
    \/ Known(k) \/ KeyUsed(k)
    \/ \E c \in acked : c.key = k
    \/ \E w \in Workers : conn[w] # Idle /\ conn[w].request.key = k
    \/ \E i \in DOMAIN queue : queue[i].request.key = k
    \/ loop.item # NoItem /\ loop.item.request.key = k

SecondKeyFirst == ~(Known(k3)' /\ ~Traced(k2) /\ ~Traced(k3))

MCNext ==
    /\ UNCHANGED scenario
    /\ \/ /\ scenario = "exchange" /\ Next /\ FirstIdleTakes /\ SecondKeyFirst
          /\ UNCHANGED poolVars
       \/ /\ scenario = "ledger" /\ LedgerNext /\ IdsInOrder
          /\ UNCHANGED <<memory, acked, sent, crashes, poolVars>>
       \/ scenario = "pool" /\ PoolNext /\ UNCHANGED vars

On(name, A) == scenario = name /\ A

\* The fairness of FairSpec and PoolFairness, each of its part.
MCFairness ==
    /\ WF_vars(On("exchange", Loop))
    /\ \A w \in Workers : WF_vars(On("exchange", Serve(w)))
    /\ WF_poolVars(On("pool", SendStream))
    /\ WF_poolVars(On("pool", serving.stop /\ AcceptorExits))
    /\ \A w \in Worker : WF_poolVars(On("pool", WorkerStep(w)))
    /\ WF_poolVars(On("pool", JoinStep))

MCSpec == MCInit /\ [][MCNext]_mcVars /\ MCFairness
==============================================================================
