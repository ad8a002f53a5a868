---------------------------- MODULE LinuxBroker ----------------------------
(***************************************************************************)
(* The root-owned launch broker of platform/linux_broker: its append-only  *)
(* ledger, the launch and stop handlers, the cgroup directories it holds   *)
(* (retained containment) and keeps in the descriptor store of PID 1, and  *)
(* its death and restart at any point.                                     *)
(*                                                                         *)
(* serve() hands one connection at a time to the broker, so one handler    *)
(* runs at a time; step is where it stands.  PID 1 and the supervised      *)
(* processes move between any two steps.                                   *)
(*                                                                         *)
(* A request is its four identity fields; unit_name is injective on them,  *)
(* so a request also stands for its unit.  A nonce is started at most once *)
(* (OneStartPerLaunch), so the process binding of a receipt is a function of the *)
(* request and is left out.  Authentication, policy and bootstrap frames   *)
(* only refuse a request before it has an effect and are left out.         *)
(***************************************************************************)
EXTENDS Integers, FiniteSets

CONSTANTS
    Request,                \* launch identities the clients use
    NoRequest,              \* no handler is running
    MaxLedgerRequests,      \* MAX_LEDGER_REQUESTS, distinct requests
    MaxLedgerTransitions,   \* MAX_LEDGER_TRANSITIONS, lines a reopen accepts
    MaxActiveProcesses,     \* MAX_ACTIVE_PROCESSES, unresolved launches
    LineBytes,              \* size of the lines this deployment writes
    MaxLineBytes            \* MAX_FRAME_BYTES + 1

ASSUME BrokerConstants ==
    /\ IsFiniteSet(Request) /\ NoRequest \notin Request
    /\ MaxLedgerRequests \in Nat /\ MaxLedgerTransitions \in Nat
    /\ MaxActiveProcesses \in Nat
    /\ LineBytes \in Nat \ {0} /\ MaxLineBytes \in Nat
    /\ LineBytes <= MaxLineBytes

VARIABLES
    file,       \* the ledger on disk, as a reader would decode it
    records,    \* BrokerLedger.records, the decoded copy in memory
    poisoned,   \* BrokerLedger.poisoned
    step,       \* the point the running handler has reached
    active,     \* LinuxSystemdBroker.active_units
    held,       \* units with a RetainedContainment
    acked,      \* those of held with manager_stored
    store,      \* units with a directory in the descriptor store of PID 1
    unit,       \* what PID 1 knows of each unit
    group,      \* the control group of each unit
    starts      \* StartTransientUnit calls accepted per unit (history)

ledgerVars == <<file, records, poisoned>>
heldVars == <<active, held, acked, store>>
systemVars == <<unit, group, starts>>
vars == <<file, records, poisoned, step, active, held, acked, store,
          unit, group, starts>>

-----------------------------------------------------------------------------
(* The ledger file.                                                        *)

\* A LedgerRecord; a receipt is there exactly in the last three states.
Record == [state : {"absent", "pending", "committed", "stoppending", "stopped"},
           job : BOOLEAN, cancel : BOOLEAN]

Absent == [state |-> "absent", job |-> FALSE, cancel |-> FALSE]

\* The rows of parse_records' match that accept a line after the ones before.
Follows(old, new) ==
    \/ /\ old.state = "absent" /\ new.state = "pending"
       /\ ~new.cancel
    \/ /\ old.state = "pending" /\ new.state = "pending"
       /\ \/ ~old.job /\ new.job /\ new.cancel = old.cancel
          \/ ~old.cancel /\ new.cancel /\ new.job = old.job
    \/ /\ <<old.state, new.state>> \in
            {<<"pending", "committed">>, <<"committed", "stoppending">>,
             <<"stoppending", "stopped">>, <<"pending", "stoppending">>}
       /\ new.job = old.job /\ new.cancel = old.cancel

Present(rs) == {r \in Request : rs[r].state # "absent"}

\* Every launch that may still own a process.
Unresolved(rs) == {r \in Request : rs[r].state \notin {"absent", "stopped"}}

\* The file is described by what decoding it gives: the last record of every
\* request, the number of lines, whether every record follows its predecessor,
\* whether the last line is ended, and whether some line is not one record
\* (torn: cut short; glued: two records on one line).
File == [records : [Request -> Record], lines : Nat, follows : BOOLEAN,
         ended : BOOLEAN, damage : {"none", "torn", "glued"}]

EmptyFile == [records |-> [r \in Request |-> Absent], lines |-> 0,
              follows |-> TRUE, ended |-> TRUE, damage |-> "none"]

\* BrokerLedger::open on a file that is there and protected.
Opens(f) ==
    /\ f.damage = "none" /\ f.follows
    /\ f.lines <= MaxLedgerTransitions
    /\ Cardinality(Present(f.records)) <= MaxLedgerRequests

\* The file after the bytes of a record, and its newline when ended.
Line(r, rec, ended) ==
    [records |-> [file.records EXCEPT ![r] = rec],
     lines   |-> file.lines + 1,
     follows |-> file.follows /\ Follows(file.records[r], rec),
     ended   |-> ended,
     damage  |-> IF file.damage = "none" /\ ~file.ended
                   THEN "glued" ELSE file.damage]

\* Looks at the size before the append instead of the size after it.
HasRoomBefore == file.lines * LineBytes <= MaxLedgerTransitions * MaxLineBytes

\* The check on the size of the file before an append.
HasRoom == (file.lines + 1) * LineBytes <= MaxLedgerTransitions * MaxLineBytes

\* append, and the insertion into the map that follows it.
Written(r, rec) ==
    /\ HasRoom
    /\ file' = Line(r, rec, TRUE)
    /\ records' = [records EXCEPT ![r] = rec]
    /\ UNCHANGED poisoned

\* A write or the sync fails: part of the line, the line without its newline,
\* or all of it may be in the file; the ledger is poisoned, the map unchanged.
Interrupted(r, rec) ==
    /\ HasRoom
    /\ file' \in {file, [file EXCEPT !.damage = "torn"],
                  Line(r, rec, FALSE), Line(r, rec, TRUE)}
    /\ poisoned' = TRUE
    /\ UNCHANGED records

\* append fails before it writes: no room, or the file cannot be opened.
Refused == UNCHANGED ledgerVars

-----------------------------------------------------------------------------
(* Handlers.                                                               *)

Steps == {"start", "wait", "bind", "bindfailed", "retain", "commit", "cleanup",
          "cleanupstop", "cancel", "stop", "drain", "confirm", "release"}
At(a, r) == [at |-> a, req |-> r]
Idle == At("idle", NoRequest)
Down == At("down", NoRequest)

\* An append after which the handler goes on, or returns its error.
Persist(r, rec, next) ==
    \/ Written(r, rec) /\ step' = next
    \/ Interrupted(r, rec) /\ step' = Idle
    \/ Refused /\ step' = Idle

With(r, state) == [records[r] EXCEPT !.state = state]

Healthy == step = Idle /\ ~poisoned

\* inspect: PID 1 shows the unit active, with the leader the policy names.
Inspect(r) == unit[r] = "active"

\* The cache of live units has a place for the unit.
HasSlot(r) == r \in active \/ Cardinality(active) < MaxActiveProcesses

\* The admission checks of a new launch.
Admits(r) ==
    /\ HasSlot(r) /\ ~Inspect(r)
    /\ Cardinality(Present(records)) < MaxLedgerRequests
    /\ Cardinality(Unresolved(records)) < MaxActiveProcesses

\* A launch of a request that is not in the ledger reserves it first.
Reserve(r) ==
    /\ Healthy
    /\ records[r].state = "absent" /\ Admits(r)
    /\ Persist(r, [Absent EXCEPT !.state = "pending"], At("start", r))
    /\ UNCHANGED <<heldVars, systemVars>>

RequireLocalContainment(r) == r \in held
RequireContainment(r) == r \in held /\ r \in acked

\* A launch of a request that is in the ledger: the duplicate receipt, with a
\* commit when an earlier one was refused.  Every other case is refused.
LaunchAgain(r) ==
    /\ Healthy /\ HasSlot(r)
    /\ records[r].state \in {"pending", "committed"} /\ ~records[r].cancel
    /\ Inspect(r) /\ RequireContainment(r)
    /\ \/ /\ records[r].state = "committed"
          /\ active' = active \cup {r}
          /\ UNCHANGED ledgerVars
       \/ /\ records[r].state = "pending"
          /\ \/ /\ Written(r, With(r, "committed"))
                /\ active' = active \cup {r}
             \/ Interrupted(r, With(r, "committed")) /\ UNCHANGED active
    /\ UNCHANGED <<step, held, acked, store, systemVars>>

\* StartTransientUnit: accepted with its job; accepted but the answer or the
\* job object is lost, so that no job is remembered; or not accepted.
Start(r) ==
    /\ step = At("start", r)
    /\ \/ /\ unit' = [unit EXCEPT ![r] = "queued"]
          /\ starts' = [starts EXCEPT ![r] = @ + 1]
          /\ step' \in {At("wait", r), Idle}
       \/ /\ step' = Idle
          /\ UNCHANGED <<unit, starts>>
    /\ UNCHANGED <<ledgerVars, heldVars, group>>

\* start polls until the unit is active; its deadline or a failing query ends it.
Wait(r) ==
    /\ step = At("wait", r)
    /\ \/ Inspect(r) /\ step' = At("bind", r)
       \/ step' = At("bindfailed", r)
    /\ UNCHANGED <<ledgerVars, heldVars, systemVars>>

\* bind_job; the result of start is looked at afterwards.
Bind(r) ==
    /\ \/ /\ step = At("bind", r)
          /\ Persist(r, [records[r] EXCEPT !.job = TRUE], At("retain", r))
       \/ /\ step = At("bindfailed", r)
          /\ Persist(r, [records[r] EXCEPT !.job = TRUE], Idle)
    /\ UNCHANGED <<heldVars, systemVars>>

\* retain_containment: held and stored; held, with the store unconfirmed; or
\* not held, when the process is gone, and then cleanup has no authority.
Retain(r) ==
    /\ step = At("retain", r)
    /\ \/ /\ unit[r] = "active"
          /\ held' = held \cup {r}
          /\ \/ /\ acked' = acked \cup {r}
                /\ store' = store \cup {r}
                /\ step' = At("commit", r)
             \/ /\ store' \in {store, store \cup {r}}
                /\ step' = At("cleanup", r)
                /\ UNCHANGED acked
       \/ /\ step' = Idle
          /\ UNCHANGED <<held, acked, store>>
    /\ UNCHANGED <<ledgerVars, active, systemVars>>

\* commit of a launch; refused, it is cleaned up, uncertain, it is left alone.
Commit(r) ==
    /\ step = At("commit", r)
    /\ \/ /\ Written(r, With(r, "committed"))
          /\ active' = active \cup {r}
          /\ step' = Idle
       \/ /\ Interrupted(r, With(r, "committed"))
          /\ step' = Idle
          /\ UNCHANGED active
       \/ /\ Refused
          /\ step' = At("cleanup", r)
          /\ UNCHANGED active
    /\ UNCHANGED <<held, acked, store, systemVars>>

\* cleanup_failed_launch up to begin_failed_launch_cleanup.
Cleanup(r) ==
    /\ step = At("cleanup", r)
    /\ RequireLocalContainment(r)
    /\ Persist(r, With(r, "stoppending"), At("cleanupstop", r))
    /\ UNCHANGED <<heldVars, systemVars>>

\* A stop of a pending launch records the intent, once.
CancelPending(r) ==
    /\ Healthy
    /\ records[r].state = "pending"
    /\ \/ /\ ~records[r].cancel
          /\ Persist(r, [records[r] EXCEPT !.cancel = TRUE], At("cancel", r))
       \/ /\ records[r].cancel
          /\ step' = At("cancel", r)
          /\ UNCHANGED ledgerVars
    /\ UNCHANGED <<heldVars, systemVars>>

\* The exact queued job is then cancelled, if there is one; always a Conflict.
CancelJob(r) ==
    /\ step = At("cancel", r)
    /\ \/ /\ records[r].job /\ unit[r] = "queued"
          /\ unit' = [unit EXCEPT ![r] = "gone"]
       \/ UNCHANGED unit
    /\ step' = Idle
    /\ UNCHANGED <<ledgerVars, heldVars, group, starts>>

\* Takes the absence of the unit for retirement.
RetiredByUnit(r) == unit[r] \notin {"queued", "active"}

\* verify_retirement: the held original group is empty.
Retired(r) == r \in held /\ group[r] = "empty"

\* A stop of a committed launch, or again of a stopping one: with the unit
\* live, with its group drained, or with the group outliving the unit.
BeginStop(r) ==
    LET next == IF Inspect(r) THEN At("stop", r)
                ELSE IF Retired(r) THEN At("confirm", r) ELSE At("drain", r)
    IN  /\ Healthy
        /\ RequireLocalContainment(r)
        /\ \/ /\ records[r].state = "committed"
              /\ Persist(r, With(r, "stoppending"), next)
           \/ /\ records[r].state = "stoppending"
              /\ step' = next
              /\ UNCHANGED ledgerVars
        /\ UNCHANGED <<heldVars, systemVars>>

Emptied(r) ==
    /\ unit' = [unit EXCEPT ![r] = "gone"]
    /\ group' = [group EXCEPT ![r] = "empty"]

\* The group is killed and seen empty; or an error, and no more is known.
Kill(r) ==
    \/ /\ Emptied(r)
       /\ step' = At("confirm", r)
    \/ /\ step' = Idle
       /\ UNCHANGED <<unit, group>>

\* The stop of a live unit: its slot, then the verified leader and its group.
StopLive(r) ==
    /\ step = At("stop", r)
    /\ active' = IF HasSlot(r) THEN active \cup {r} ELSE active
    /\ Kill(r)
    /\ step' # Idle => HasSlot(r) /\ unit[r] = "active"
    /\ UNCHANGED <<ledgerVars, held, acked, store, starts>>

\* The stop of a launch that was not acknowledged.
CleanupStop(r) ==
    /\ step = At("cleanupstop", r)
    /\ Kill(r)
    /\ step' # Idle => unit[r] = "active"
    /\ UNCHANGED <<ledgerVars, heldVars, starts>>

\* stop_retained_containment on the held group of a unit that is gone.
StopRetained(r) ==
    /\ step = At("drain", r)
    /\ Kill(r)
    /\ UNCHANGED <<ledgerVars, heldVars, starts>>

\* mark_stopped, after the proof of retirement.
Confirm(r) ==
    /\ step = At("confirm", r)
    /\ ~Inspect(r) /\ Retired(r)
    /\ \/ /\ Written(r, With(r, "stopped"))
          /\ active' = active \ {r}
          /\ step' = At("release", r)
       \/ /\ Interrupted(r, With(r, "stopped")) \/ Refused
          /\ step' = Idle
          /\ UNCHANGED active
    /\ UNCHANGED <<held, acked, store, systemVars>>

\* A stop of a stopped launch only finishes the release.
StopAgain(r) ==
    /\ Healthy
    /\ records[r].state = "stopped" /\ ~Inspect(r)
    /\ step' = At("release", r)
    /\ UNCHANGED <<ledgerVars, heldVars, systemVars>>

\* release_retired; when it fails the directory may be out of the store.
Release(r) ==
    /\ step = At("release", r)
    /\ \/ /\ store' = store \ {r}
          /\ held' = held \ {r}
          /\ acked' = acked \ {r}
       \/ /\ store' \in {store, store \ {r}}
          /\ UNCHANGED <<held, acked>>
    /\ step' = Idle
    /\ UNCHANGED <<ledgerVars, active, systemVars>>

-----------------------------------------------------------------------------
(* Death, restart, and PID 1.                                              *)

\* The broker process ends, at any point; PID 1 keeps the store.
Crash ==
    /\ step # Down
    /\ step' = Down
    /\ records' = [r \in Request |-> Absent]
    /\ poisoned' = FALSE
    /\ active' = {} /\ held' = {} /\ acked' = {}
    /\ UNCHANGED <<file, store, systemVars>>

\* run_native_broker: the ledger is read, and the inherited directories of
\* committed and stopping launches are taken over where they still open.
Open ==
    /\ step = Down
    /\ Opens(file)
    /\ records' = file.records
    /\ \E taken \in SUBSET {r \in store :
                              file.records[r].state \in {"committed", "stoppending"}} :
         held' = taken /\ acked' = taken
    /\ step' = Idle
    /\ UNCHANGED <<file, poisoned, active, store, systemVars>>

\* A ledger that does not open leaves the broker down.
OpenRefused ==
    /\ step = Down /\ ~Opens(file)
    /\ UNCHANGED vars

JobRuns(r) ==
    /\ unit[r] = "queued"
    /\ unit' = [unit EXCEPT ![r] = "active"]
    /\ group' = [group EXCEPT ![r] = "populated"]
    /\ UNCHANGED <<ledgerVars, step, heldVars, starts>>

JobDropped(r) ==
    /\ unit[r] = "queued"
    /\ unit' = [unit EXCEPT ![r] = "gone"]
    /\ UNCHANGED <<ledgerVars, step, heldVars, group, starts>>

\* The leader ends, by itself or because PID 1 stops what BindsTo the broker.
LeaderExits(r) ==
    /\ unit[r] = "active"
    /\ unit' = [unit EXCEPT ![r] = "gone"]
    /\ group' \in {group, [group EXCEPT ![r] = "empty"]}
    /\ UNCHANGED <<ledgerVars, step, heldVars, starts>>

GroupDrains(r) ==
    /\ unit[r] = "gone" /\ group[r] = "populated"
    /\ group' = [group EXCEPT ![r] = "empty"]
    /\ UNCHANGED <<ledgerVars, step, heldVars, unit, starts>>

Init ==
    /\ file = EmptyFile /\ records = EmptyFile.records /\ poisoned = FALSE
    /\ step = Idle
    /\ active = {} /\ held = {} /\ acked = {} /\ store = {}
    /\ unit = [r \in Request |-> "none"]
    /\ group = [r \in Request |-> "none"]
    /\ starts = [r \in Request |-> 0]

Launches(r) == Reserve(r) \/ LaunchAgain(r) \/ Start(r) \/ Wait(r) \/ Bind(r)
                 \/ Retain(r) \/ Commit(r) \/ Cleanup(r)
Stops(r) == CancelPending(r) \/ CancelJob(r) \/ BeginStop(r) \/ StopLive(r)
              \/ CleanupStop(r) \/ StopRetained(r) \/ Confirm(r) \/ StopAgain(r) \/ Release(r)
Manager(r) == JobRuns(r) \/ JobDropped(r) \/ LeaderExits(r) \/ GroupDrains(r)

Next == \/ \E r \in Request : Launches(r) \/ Stops(r) \/ Manager(r)
        \/ Crash \/ Open \/ OpenRefused

Spec == Init /\ [][Next]_vars

-----------------------------------------------------------------------------
(* Properties.                                                             *)

\* Every variable holds what its Rust type allows, and the acknowledged
\* directories are among the held ones (RetainedContainment.manager_stored).
BrokerTypeOK ==
    /\ file \in File /\ records \in [Request -> Record] /\ poisoned \in BOOLEAN
    /\ step \in {Idle, Down} \cup [at : Steps, req : Request]
    /\ active \subseteq Request /\ store \subseteq Request
    /\ held \subseteq Request /\ acked \subseteq held
    /\ unit \in [Request -> {"none", "queued", "active", "gone"}]
    /\ group \in [Request -> {"none", "populated", "empty"}]
    /\ starts \in [Request -> Nat]

Live(r) == unit[r] \in {"queued", "active"} \/ group[r] = "populated"

\* A repeated launch never starts a second unit for its nonce, over any
\* restarts of the broker and lost answers (handle_launch_at_deadline).
OneStartPerLaunch == \A r \in Request : starts[r] <= 1

\* Whatever may run has a record on disk that is not Stopped: the pending
\* record precedes the start and the stopped one needs the empty group
\* (reserve before start, verify_retirement before mark_stopped).
LiveIsRecorded ==
    \A r \in Request : Live(r) => r \in Unresolved(file.records)

\* The admission limit holds for the processes that exist, also for those an
\* earlier incarnation of the broker started (reserve_with_bootstrap).
ProcessesAreBounded ==
    Cardinality({r \in Request : Live(r)}) <= MaxActiveProcesses

\* A launch acknowledged as committed stays stoppable by any later broker: its
\* directory is in the store of PID 1 until it is stopped (retain_containment
\* before commit, release_retired after mark_stopped).
CommittedIsStored ==
    \A r \in Request : file.records[r].state = "committed" => r \in store

\* As long as no append has been cut off, the file reopens, and to exactly the
\* records the broker is working with (append, parse_records).
ReopenRestores ==
    /\ file.damage = "none" => Opens(file)
    /\ step # Down /\ ~poisoned => records = file.records

\* A launch whose cancellation is on disk is never committed afterwards
\* (request_pending_stop, reserve_with_bootstrap).
CancelledStaysCancelled ==
    [][\A r \in Request : file.records[r].cancel =>
         file'.records[r].cancel /\ file'.records[r].state # "committed"]_vars

\* The comment of MAX_LEDGER_BYTES: "Reopen must accept every journal which
\* the bounded transition machine can produce."  Of a machine that is not
\* disturbed.
EveryJournalReopens == file.damage = "none" => Opens(file)
=============================================================================
