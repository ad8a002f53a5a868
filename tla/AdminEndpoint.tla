----------------------------- MODULE AdminEndpoint -----------------------------
(***************************************************************************)
(* Who owns the deployment and its admin socket (storage_ownership,        *)
(* admin/endpoint).  A controller takes the lock of its database, binds    *)
(* the socket, serves, and at the end removes the socket and gives the     *)
(* lock back; a crash leaves the socket behind.  A controller that finds   *)
(* the path in use probes the socket: a refused connection means that      *)
(* nobody listens, and the socket is removed.                              *)
(*                                                                         *)
(* Every call to the system is a step of its own: bind creates the file    *)
(* before listen makes it connectable, and the checks by path come before  *)
(* the removal by path.  Controllers share a database or have their own;   *)
(* the endpoint is the same.                                               *)
(***************************************************************************)
EXTENDS FiniteSets, Naturals

CONSTANTS
    Controllers,   \* controller processes
    MaxProbes,     \* RECLAIM_PROBE_ATTEMPTS
    MaxKills     \* bound on the crashes of a behaviour

ASSUME EndpointAssumption ==
    MaxProbes \in Nat \ {0} /\ MaxKills \in Nat

VARIABLES
    path,         \* the socket at the endpoint's path, or {}
    listens,      \* the sockets that accept connections
    controller,   \* each process
    database,     \* how each controller's configuration names its database
    kills

endpointVars == <<path, listens, controller, database, kills>>

\* SocketInode numbers, which the system uses again once nothing refers to one.
SocketInode == 1..(Cardinality(Controllers) + 1)

Off == [pc |-> "off", own |-> {}, guard |-> {}, seen |-> {}, probes |-> 0]

EndpointInit ==
    /\ path = {} /\ listens = {} /\ kills = 0
    /\ database \in [Controllers -> {"absolute", "relative", "other"}]
    /\ controller = [c \in Controllers |-> Off]

Ctl(c, new) == controller' = [controller EXCEPT ![c] = new]
AtPc(c, pc) == Ctl(c, [controller[c] EXCEPT !.pc = pc])

\* canonical_owner_path: two names of one database are one path.
OwnerPath(c) == IF database[c] = "other" THEN "other" ELSE "absolute"

\* Mutant: the lock is given back before the socket is removed.
HoldsToServe(c) == controller[c].pc \notin {"off", "compare", "unlink", "unlock"}

\* SingletonLock: held from acquire until the supervisor is dropped.
HoldsLock(c) == controller[c].pc # "off"
LockFree(c) == \A d \in Controllers \ {c} : OwnerPath(d) = OwnerPath(c) => ~HoldsLock(d)

-----------------------------------------------------------------------------
(* bind_endpoint. *)

\* Supervisor::open: the lock, without waiting for it.
AcquireLock(c) ==
    /\ controller[c].pc = "off" /\ LockFree(c)
    /\ AtPc(c, "bind") /\ UNCHANGED <<path, listens, kills, database>>

\* The start fails: Busy, or an error.  The listener, if any, closes.
StartFails(c) ==
    /\ Ctl(c, Off) /\ listens' = listens \ controller[c].own
    /\ UNCHANGED <<kills, database>>

\* validate_unix_path, or the credentials, do not pass.
RefuseStart(c) == controller[c].pc = "bind" /\ StartFails(c) /\ UNCHANGED path

FreeInode(i) == i \notin path /\ \A c \in Controllers : i \notin controller[c].own

\* bind: the file is created, or the path is in use.
BindSocket(c) ==
    /\ controller[c].pc \in {"bind", "rebind"}
    /\ \/ /\ path = {}
          /\ \E i \in SocketInode : /\ FreeInode(i)
                              /\ path' = {i}
                              /\ Ctl(c, [Off EXCEPT !.pc = "listen", !.own = {i}])
          /\ UNCHANGED <<listens, kills, database>>
       \/ path # {} /\ controller[c].pc = "bind" /\ AtPc(c, "stat")
            /\ UNCHANGED <<path, listens, kills, database>>
       \/ path # {} /\ controller[c].pc = "rebind" /\ StartFails(c) /\ UNCHANGED path

Listen(c) ==
    /\ controller[c].pc = "listen"
    /\ listens' = listens \cup controller[c].own
    /\ AtPc(c, "identify") /\ UNCHANGED <<path, kills, database>>

\* set_permissions and EndpointIdentity::read, both by path; after a failure
\* whatever is at the path is removed.
Identify(c) ==
    /\ controller[c].pc = "identify"
    /\ \/ /\ path # {}
          /\ Ctl(c, [controller[c] EXCEPT !.pc = "serve", !.guard = path])
          /\ UNCHANGED <<path, listens, kills, database>>
       \/ StartFails(c) /\ path' = {}

-----------------------------------------------------------------------------
(* reclaim_stale_socket. *)

StatSocket(c) ==
    /\ controller[c].pc = "stat"
    /\ \/ /\ path # {}
          /\ Ctl(c, [controller[c] EXCEPT !.pc = "probe", !.seen = path, !.probes = 0])
          /\ UNCHANGED <<path, listens, kills, database>>
       \/ path = {} /\ StartFails(c) /\ UNCHANGED path

\* connect: accepted, refused, or unclear - and then tried again.
ProbeSocket(c) ==
    /\ controller[c].pc = "probe"
    /\ \/ path # {} /\ path \subseteq listens /\ StartFails(c)
       \/ /\ path # {} /\ ~(path \subseteq listens)
          /\ AtPc(c, "recheck") /\ UNCHANGED <<listens, kills, database>>
       \/ /\ controller[c].probes + 1 < MaxProbes
          /\ Ctl(c, [controller[c] EXCEPT !.probes = @ + 1]) /\ UNCHANGED <<listens, kills, database>>
       \/ controller[c].probes + 1 = MaxProbes /\ StartFails(c)
    /\ UNCHANGED path

RecheckSocket(c) ==
    /\ controller[c].pc = "recheck"
    /\ \/ path = controller[c].seen /\ AtPc(c, "remove") /\ UNCHANGED <<listens, kills, database>>
       \/ path # controller[c].seen /\ StartFails(c)
    /\ UNCHANGED path

RemoveSocket(c) ==
    /\ controller[c].pc = "remove"
    /\ \/ path # {} /\ path' = {} /\ AtPc(c, "rebind") /\ UNCHANGED <<listens, kills, database>>
       \/ path = {} /\ StartFails(c) /\ UNCHANGED path

-----------------------------------------------------------------------------
(* The end of a controller. *)

\* The accept thread ends and closes the listener.
CloseListener(c) ==
    /\ controller[c].pc = "serve"
    /\ listens' = listens \ controller[c].own
    /\ AtPc(c, "compare") /\ UNCHANGED <<path, kills, database>>

\* EndpointGuard::cleanup: what is at the path is compared, then removed.
CompareIdentity(c) ==
    /\ controller[c].pc = "compare"
    /\ IF path = controller[c].guard THEN AtPc(c, "unlink") ELSE AtPc(c, "unlock")
    /\ UNCHANGED <<path, listens, kills, database>>

Unlink(c) ==
    /\ controller[c].pc = "unlink"
    /\ path' = {} /\ AtPc(c, "unlock") /\ UNCHANGED <<listens, kills, database>>

\* The supervisor, and with it the lock, is dropped last.
ReleaseLock(c) ==
    /\ controller[c].pc = "unlock" /\ Ctl(c, Off) /\ UNCHANGED <<path, listens, kills, database>>

\* The system closes the listener and releases the lock; the socket stays.
ControllerCrashes(c) ==
    /\ controller[c].pc # "off" /\ kills < MaxKills
    /\ kills' = kills + 1
    /\ Ctl(c, Off) /\ listens' = listens \ controller[c].own
    /\ UNCHANGED <<path, database>>

EndpointNext ==
    \E c \in Controllers :
       \/ AcquireLock(c) \/ RefuseStart(c) \/ BindSocket(c) \/ Listen(c) \/ Identify(c)
       \/ StatSocket(c) \/ ProbeSocket(c) \/ RecheckSocket(c) \/ RemoveSocket(c)
       \/ CloseListener(c) \/ CompareIdentity(c) \/ Unlink(c) \/ ReleaseLock(c)
       \/ ControllerCrashes(c)

EndpointSpec == EndpointInit /\ [][EndpointNext]_endpointVars

-----------------------------------------------------------------------------
(* Properties. *)

\* A live incumbent is never displaced: the socket that a serving controller
\* listens on stays at the endpoint's path until that controller ends.
IncumbentIsKept ==
    \A c \in Controllers : controller[c].pc = "serve" => path = controller[c].own

\* Controllers of one database do keep it so: the lock outlives the socket, and
\* whatever others start, probe, end or crash meanwhile, the controller that
\* serves is the one that is reached.
OwnerIsReached == (\A c, d \in Controllers : OwnerPath(c) = OwnerPath(d)) => IncumbentIsKept
================================================================================
