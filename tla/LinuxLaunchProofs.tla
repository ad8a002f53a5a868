--------------------------- MODULE LinuxLaunchProofs ---------------------------
(***************************************************************************)
(* Proofs about LinuxLaunch, for any number of launches, of children and   *)
(* of watchdog generations: a settled intent leaves nothing running, a     *)
(* graceful TERM reaches its owner, a helper execs under the rows it read. *)
(*                                                                         *)
(* The inductive invariant has three parts.  RowInv says of each launch    *)
(* what its rows allow its processes to be, and that a helper about to     *)
(* exec holds the writer slot with its rows unchanged (ExecIsHeld).        *)
(* CallInv says what the adapter's call in progress has found out.  Most   *)
(* steps do to a launch only what RowStep names, which keeps RowInv        *)
(* (RowStepInv); a write of the rows waits for the slot, so SlotKept holds *)
(* of it.                                                                  *)
(***************************************************************************)
EXTENDS LinuxLaunch, TLAPS

\* The rows of the state.
LeaderState == {"none", "helper", "target", "zombie", "gone"}
LeaderRow == [state : LeaderState, in : BOOLEAN, doomed : BOOLEAN, owned : BOOLEAN,
              generation : Nat, recycled : BOOLEAN]
StoreRow == [mode : {"Running", "Stopped"}, generation : Nat, writer : Nonce \cup {NoLaunch},
             intent : [Nonce -> {"none", "prepared", "active", "cleaned"}], kind : Kinds]
Calls == {"preflight", "create", "spawn", "assign", "verify", "frame", "ready", "go", "boot",
          "target", "finish", "record", "kill", "terminate", "reap", "empty"}
StopCalls == {"graceful", "term", "pidfd", "identify", "recheck", "send", "wait", "force", "fwait"}
Places == Calls \cup StopCalls \cup {"idle", "settle", "down", "recover", "planned", "drain"}
AdapterRow == [pc : Places,
               n : Nonce \cup {NoLaunch}, child : BOOLEAN, killFailed : BOOLEAN,
               children : SUBSET Nonce, uncertain : SUBSET Nonce,
               pidfd : {"none", "leader", "foreign"}]

\* The type of what the properties speak of: the pipes are left out.
LaunchTypeOK ==
    /\ store \in StoreRow
    /\ leader \in [Nonce -> LeaderRow]
    /\ kid \in [Nonce -> {"none", "alive", "doomed"}]
    /\ cgroup \in [Nonce -> {"none", "dir"}]
    /\ helper \in [Nonce -> {"none", "start", "request", "go", "authorize", "exec"}]
    /\ adapter \in AdapterRow

\* Nothing was spawned for a launch.
Unspawned(n) == leader[n].state = "none" /\ ~leader[n].owned /\ kid[n] = "none"

\* What a settled intent leaves behind.
Quiet(n) ==
    /\ leader[n].state # "target" /\ kid[n] = "none"
    /\ leader[n].owned => leader[n].state = "gone"

\* A helper that is about to exec holds the slot under which its rows were read.
ExecIsHeld(n) ==
    leader[n].state = "helper" /\ helper[n] = "exec" =>
       /\ store.writer = n /\ store.mode = "Running"
       /\ store.generation = leader[n].generation /\ store.intent[n] = "prepared"
       /\ cgroup[n] = "dir" /\ leader[n].in

\* What the rows of a launch say of its processes.
RowInv(n) ==
    /\ store.intent[n] = "none" => Unspawned(n)
    /\ store.intent[n] = "cleaned" => Quiet(n)
    /\ ExecIsHeld(n)
    /\ leader[n].state = "target" => leader[n].in /\ cgroup[n] = "dir"
    /\ kid[n] # "none" => cgroup[n] = "dir"
    /\ leader[n].owned => leader[n].state # "none"

\* What the call in progress has found out at each of its places.
CallInv ==
    /\ adapter.pc \in Calls => L \in Nonce /\ store.intent[L] = "prepared"
    /\ adapter.pc \in {"preflight", "create", "spawn"} => Unspawned(L)
    /\ adapter.pc \in {"kill", "empty"} /\ ~adapter.child => Unspawned(L)
    /\ adapter.pc \in {"assign", "verify", "frame", "ready", "go", "boot", "target", "terminate",
                      "reap"} => adapter.child
    /\ adapter.pc = "empty" /\ adapter.child /\ ~adapter.killFailed => leader[L].state = "gone"
    /\ adapter.pc \in StopCalls \cup {"settle", "planned", "drain"} => L \in Nonce
    /\ adapter.pc = "settle" => Quiet(L) /\ (Live(L) => ~leader[L].in)
    /\ adapter.pc \in {"down", "recover", "planned", "drain"} => \A n \in Nonce : ~leader[n].owned
    /\ adapter.pc = "identify" /\ adapter.pidfd = "foreign" => ~Live(L)
    /\ adapter.pc \in {"recheck", "send"} => adapter.pidfd # "foreign"

\* The inductive invariant.
LaunchInv == LaunchTypeOK /\ (\A n \in Nonce : RowInv(n)) /\ CallInv /\ signalled # "foreign"

\* What a step may do to a launch without asking the rows: its process ends, it
\* is put into its cgroup, its descendants end, and an empty cgroup is removed.
RowStep(n) ==
    /\ leader'[n].state # leader[n].state =>
          /\ leader[n].state \in {"helper", "target", "zombie"}
          /\ leader'[n].state \in {"zombie", "gone"}
    /\ leader'[n].owned => leader[n].owned
    /\ leader[n].in /\ leader'[n].state \in {"helper", "target"} => leader'[n].in
    /\ leader'[n].generation = leader[n].generation
    /\ kid[n] = "none" => kid'[n] = "none"
    /\ cgroup[n] = "dir" => cgroup'[n] = "dir" \/ Pids(n) = {}
    /\ helper'[n] = "exec" => helper[n] = "exec"

\* The rows stay as they are while a helper holds the slot.
SlotKept(n) ==
    store.writer = n /\ leader'[n].state = "helper" =>
       /\ store'.writer = n /\ store'.mode = store.mode
       /\ store'.generation = store.generation /\ store'.intent[n] = store.intent[n]

\* Such a step keeps what is said of a launch.
LEMMA RowStepInv ==
    ASSUME LaunchTypeOK, NEW n \in Nonce, RowInv(n), RowStep(n), SlotKept(n),
           store'.intent[n] = "none" => store.intent[n] = "none",
           store'.intent[n] = "cleaned" => store.intent[n] = "cleaned" \/ Quiet(n)
    PROVE  RowInv(n)'
<1>1. (Unspawned(n) => Unspawned(n)') /\ (Quiet(n) => Quiet(n)')
  BY DEF RowStep, Unspawned, Quiet
<1>2. leader'[n].state = "target" => leader'[n].in /\ cgroup'[n] = "dir"
  BY DEF RowInv, RowStep, Pids, Live
<1>3. kid'[n] # "none" => cgroup'[n] = "dir"
  BY DEF LaunchTypeOK, RowInv, RowStep, Pids, Live
<1>4. ExecIsHeld(n)'
  <2> SUFFICES ASSUME leader'[n].state = "helper", helper'[n] = "exec"
               PROVE  /\ store'.writer = n /\ store'.mode = "Running"
                      /\ store'.generation = leader'[n].generation
                      /\ store'.intent[n] = "prepared"
                      /\ cgroup'[n] = "dir" /\ leader'[n].in
    BY DEF ExecIsHeld
  <2>1. leader[n].state = "helper" /\ helper[n] = "exec"
    BY DEF RowStep
  <2> QED
    BY <2>1 DEF RowInv, ExecIsHeld, RowStep, SlotKept, Pids, Live
<1>5. leader'[n].owned => leader'[n].state # "none"
  BY DEF RowInv, RowStep
<1> QED
  BY <1>1, <1>2, <1>3, <1>4, <1>5 DEF RowInv

\* A row that no step touches.
LEMMA RowStands ==
    ASSUME NEW n \in Nonce, leader'[n] = leader[n], kid'[n] = kid[n], cgroup'[n] = cgroup[n],
           helper'[n] = helper[n] \/ helper'[n] # "exec"
    PROVE  RowStep(n)
  BY DEF RowStep

\* A step that leaves the adapter alone keeps what is said of its call.
LEMMA CallKept ==
    ASSUME LaunchTypeOK, CallInv, adapter' = adapter,
           \A n \in Nonce : /\ Unspawned(n) => Unspawned(n)'
                            /\ leader[n].state = "gone" => leader'[n].state = "gone"
                            /\ Quiet(n) /\ (Live(n) => ~leader[n].in) =>
                                  Quiet(n)' /\ (Live(n)' => ~leader'[n].in)
                            /\ ~Live(n) => ~Live(n)'
                            /\ leader'[n].owned => leader[n].owned
                            /\ store'.intent[n] = store.intent[n]
    PROVE  CallInv'
<1>1. L' = L
  BY DEF L
<1> QED
  BY <1>1 DEF CallInv, LaunchTypeOK, Calls, StopCalls

\* Of a step of the kinds above that is so when it assigns no cgroup.
LEMMA CallRowStep ==
    ASSUME LaunchTypeOK, CallInv, adapter' = adapter,
           \A n \in Nonce : /\ RowStep(n) /\ store'.intent[n] = store.intent[n]
                            /\ leader'[n].in => leader[n].in
    PROVE  CallInv'
<1>1. ASSUME NEW n \in Nonce
      PROVE  /\ Unspawned(n) => Unspawned(n)'
             /\ leader[n].state = "gone" => leader'[n].state = "gone"
             /\ Quiet(n) /\ (Live(n) => ~leader[n].in) =>
                   Quiet(n)' /\ (Live(n)' => ~leader'[n].in)
             /\ ~Live(n) => ~Live(n)'
             /\ leader'[n].owned => leader[n].owned
             /\ store'.intent[n] = store.intent[n]
  BY <1>1 DEF RowStep, Unspawned, Quiet, Live
<1> QED
  BY <1>1, CallKept

-----------------------------------------------------------------------------
(* The processes. *)

\* A step that only touches the process, the descendants or the slot of one launch.
LEMMA ProcessStep ==
    ASSUME LaunchInv, LaunchTypeOK', adapter' = adapter, signalled' = signalled,
           store'.intent = store.intent,
           \A n \in Nonce : RowStep(n) /\ SlotKept(n) /\ (leader'[n].in => leader[n].in)
    PROVE  LaunchInv'
<1>1. \A n \in Nonce : RowInv(n)'
  BY RowStepInv DEF LaunchInv
<1>2. CallInv'
  BY CallRowStep DEF LaunchInv
<1> QED
  BY <1>1, <1>2 DEF LaunchInv

\* A process ends and gives the slot back.
LEMMA LeaderExitsInv == ASSUME LaunchInv, NEW n \in Nonce, LeaderExits(n) PROVE LaunchInv'
<1>1. LaunchTypeOK
  BY DEF LaunchInv
<1> DEFINE s == IF leader[n].owned THEN "zombie" ELSE "gone"
           r == [leader[n] EXCEPT !.state = s, !.in = FALSE, !.doomed = FALSE]
<1>3. /\ leader' = [leader EXCEPT ![n] = r] /\ helper' = [helper EXCEPT ![n] = "none"]
      /\ Live(n) /\ UNCHANGED <<kid, cgroup, chan, adapter, signalled>>
  BY Zenon DEF LeaderExits
<1>4. s \in {"zombie", "gone"}
  OBVIOUS
<1> HIDE DEF s
<1>2. /\ r \in LeaderRow /\ r.state = s /\ r.owned = leader[n].owned
      /\ r.generation = leader[n].generation /\ ~r.in
  BY <1>1, <1>4, Zenon DEF LaunchTypeOK, LeaderRow, LeaderState
<1> HIDE DEF r
<1>5. /\ store' \in StoreRow /\ store'.intent = store.intent
      /\ \A m \in Nonce : m # n => SlotKept(m)
  BY <1>1 DEF LeaderExits, FreeSlot, LaunchTypeOK, StoreRow, SlotKept
<1>6. LaunchTypeOK'
  BY <1>1, <1>2, <1>3, <1>5 DEF LaunchTypeOK
<1>7. ASSUME NEW m \in Nonce PROVE RowStep(m) /\ SlotKept(m) /\ (leader'[m].in => leader[m].in)
  <2>1. CASE m = n
    BY <1>1, <1>2, <1>3, <1>4, <2>1 DEF RowStep, SlotKept, Live, LaunchTypeOK
  <2>2. CASE m # n
    BY <1>1, <1>3, <1>5, <2>2 DEF RowStep, LaunchTypeOK
  <2> QED
    BY <2>1, <2>2
<1> QED
  BY <1>3, <1>5, <1>6, <1>7, ProcessStep

\* A descendant ends; a number is given to another process; a helper reads.
LEMMA QuietProcesses ==
    ASSUME LaunchInv, NEW n \in Nonce,
           \/ KidExits(n) \/ Recycle(n) \/ HelperStarts(n) \/ HelperReadsRequest(n)
           \/ HelperReadsGo(n)
    PROVE  LaunchInv'
<1>1. LaunchTypeOK
  BY DEF LaunchInv
<1>2. CASE KidExits(n)
  <2>1. LaunchTypeOK'
    BY <1>1, <1>2 DEF LaunchTypeOK, KidExits
  <2>2. \A m \in Nonce : RowStep(m) /\ SlotKept(m) /\ (leader'[m].in => leader[m].in)
    BY <1>1, <1>2 DEF RowStep, SlotKept, KidExits, LaunchTypeOK
  <2> QED
    BY <1>2, <2>1, <2>2, ProcessStep DEF KidExits
<1>3. CASE Recycle(n)
  <2>1. LaunchTypeOK'
    BY <1>1, <1>3, Zenon DEF LaunchTypeOK, Recycle, LeaderRow
  <2>2. \A m \in Nonce : RowStep(m) /\ SlotKept(m) /\ (leader'[m].in => leader[m].in)
    BY <1>1, <1>3 DEF RowStep, SlotKept, Recycle, LaunchTypeOK, LeaderRow
  <2> QED
    BY <1>3, <2>1, <2>2, ProcessStep DEF Recycle
<1>4. CASE HelperStarts(n) \/ HelperReadsRequest(n) \/ HelperReadsGo(n)
  <2>1. /\ UNCHANGED <<store, leader, kid, cgroup, adapter, signalled>>
        /\ \E pc \in {"request", "go", "authorize"} : helper' = [helper EXCEPT ![n] = pc]
    BY <1>4 DEF HelperStarts, HelperReadsRequest, HelperReadsGo, HelperGoes
  <2>2. LaunchTypeOK'
    BY <1>1, <2>1 DEF LaunchTypeOK
  <2>3. \A m \in Nonce : RowStep(m) /\ SlotKept(m) /\ (leader'[m].in => leader[m].in)
    BY <1>1, <2>1 DEF RowStep, SlotKept, LaunchTypeOK
  <2> QED
    BY <2>1, <2>2, <2>3, ProcessStep
<1> QED
  BY <1>2, <1>3, <1>4

\* A target forks: its cgroup is there, and its intent is not settled.
LEMMA ForkInv == ASSUME LaunchInv, NEW n \in Nonce, Fork(n) PROVE LaunchInv'
<1>1. /\ LaunchTypeOK /\ leader[n].state = "target" /\ RowInv(n)
      /\ UNCHANGED <<store, leader, cgroup, chan, helper, adapter, signalled>>
      /\ kid' = [kid EXCEPT ![n] = "alive"]
  BY DEF LaunchInv, Fork
<1>2. LaunchTypeOK'
  BY <1>1 DEF LaunchTypeOK
<1>3. ASSUME NEW m \in Nonce PROVE RowInv(m)'
  <2>1. CASE m = n
    BY <1>1, <2>1 DEF RowInv, Unspawned, Quiet, ExecIsHeld, LaunchTypeOK
  <2>2. CASE m # n
    <3>1. RowInv(m) /\ RowStep(m) /\ SlotKept(m)
      BY <1>1, <2>2 DEF LaunchInv, RowStep, SlotKept, LaunchTypeOK
    <3> QED
      BY <1>1, <3>1, RowStepInv
  <2> QED
    BY <2>1, <2>2
<1>4. ASSUME NEW m \in Nonce
      PROVE  /\ Unspawned(m) => Unspawned(m)'
             /\ Quiet(m) => Quiet(m)'
  BY <1>1 DEF Unspawned, Quiet, LaunchTypeOK
<1>5. CallInv'
  BY <1>1, <1>4, CallKept DEF LaunchInv, Live
<1> QED
  BY <1>1, <1>2, <1>3, <1>5 DEF LaunchInv

\* The slot is free, so no other helper is about to exec.
LEMMA AuthorizesInv == ASSUME LaunchInv, NEW n \in Nonce, HelperAuthorizes(n) PROVE LaunchInv'
<1>1. /\ LaunchTypeOK /\ Authorized(n) /\ store.writer = NoLaunch
      /\ UNCHANGED <<leader, kid, cgroup, chan, adapter, signalled>>
      /\ helper' = [helper EXCEPT ![n] = "exec"]
  BY DEF LaunchInv, HelperAuthorizes, HelperGoes
<1>2. /\ store' \in StoreRow /\ store'.intent = store.intent /\ store'.writer = n
      /\ store'.mode = store.mode /\ store'.generation = store.generation
  BY <1>1 DEF HelperAuthorizes, LaunchTypeOK, StoreRow
<1>3. LaunchTypeOK'
  BY <1>1, <1>2 DEF LaunchTypeOK
<1>4. NoLaunch \notin Nonce
  BY DEF Nonce, NoLaunch
<1>5. ASSUME NEW m \in Nonce PROVE RowInv(m)'
  <2>1. CASE m = n
    BY <1>1, <1>2, <2>1
    DEF LaunchInv, RowInv, Unspawned, Quiet, ExecIsHeld, Authorized, InPlannedCgroup, Existing,
        Pids, Live, LaunchTypeOK
  <2>2. CASE m # n
    <3>1. RowInv(m) /\ RowStep(m) /\ SlotKept(m)
      BY <1>1, <1>4, <2>2 DEF LaunchInv, RowStep, SlotKept, LaunchTypeOK
    <3> QED
      BY <1>1, <1>2, <3>1, RowStepInv
  <2> QED
    BY <2>1, <2>2
<1>6. CallInv'
  BY <1>1, <1>2, CallKept DEF LaunchInv, Live, Unspawned, Quiet
<1> QED
  BY <1>1, <1>3, <1>5, <1>6 DEF LaunchInv

\* The exec: the rows are as they were read, because the slot is held.
LEMMA ExecsInv == ASSUME LaunchInv, NEW n \in Nonce, HelperExecs(n) PROVE LaunchInv'
<1>1. /\ LaunchTypeOK /\ leader[n].state = "helper" /\ RowInv(n)
      /\ store.intent[n] = "prepared" /\ cgroup[n] = "dir" /\ leader[n].in
      /\ UNCHANGED <<kid, cgroup, chan, adapter, signalled>>
      /\ helper' = [helper EXCEPT ![n] = "none"]
      /\ leader' = [leader EXCEPT ![n].state = "target"]
  BY DEF LaunchInv, HelperExecs, HelperAt, HelperGoes, RowInv, ExecIsHeld
<1>2. /\ store' \in StoreRow /\ store'.intent = store.intent
      /\ \A m \in Nonce : m # n => SlotKept(m)
  BY <1>1 DEF HelperExecs, FreeSlot, LaunchTypeOK, StoreRow, SlotKept
<1>3. /\ leader' \in [Nonce -> LeaderRow]
      /\ leader'[n].state = "target" /\ leader'[n].in /\ leader'[n].owned = leader[n].owned
      /\ \A m \in Nonce : m # n => leader'[m] = leader[m]
  BY <1>1 DEF LaunchTypeOK, LeaderRow, LeaderState
<1>4. LaunchTypeOK'
  BY <1>1, <1>2, <1>3 DEF LaunchTypeOK
<1>5. ASSUME NEW m \in Nonce PROVE RowInv(m)'
  <2>1. CASE m = n
    BY <1>1, <1>2, <1>3, <2>1 DEF RowInv, Unspawned, Quiet, ExecIsHeld
  <2>2. CASE m # n
    <3>1. RowInv(m) /\ RowStep(m) /\ SlotKept(m)
      BY <1>1, <1>2, <1>3, <2>2 DEF LaunchInv, RowStep, LaunchTypeOK
    <3> QED
      BY <1>1, <1>2, <3>1, RowStepInv
  <2> QED
    BY <2>1, <2>2
<1>6. ASSUME NEW m \in Nonce
      PROVE  /\ Unspawned(m) => Unspawned(m)'
             /\ leader[m].state = "gone" => leader'[m].state = "gone"
             /\ Quiet(m) /\ (Live(m) => ~leader[m].in) =>
                   Quiet(m)' /\ (Live(m)' => ~leader'[m].in)
             /\ ~Live(m) => ~Live(m)'
             /\ leader'[m].owned => leader[m].owned
  <2>1. CASE m = n
    BY <1>1, <1>3, <2>1 DEF Unspawned, Quiet, Live
  <2>2. CASE m # n
    BY <1>1, <1>3, <2>2 DEF Unspawned, Quiet, Live
  <2> QED
    BY <2>1, <2>2
<1>7. CallInv'
  BY <1>1, <1>2, <1>6, CallKept DEF LaunchInv
<1> QED
  BY <1>1, <1>4, <1>5, <1>7 DEF LaunchInv

-----------------------------------------------------------------------------
(* The calls of the adapter. *)

\* A call that goes on keeps everything else it knows.
LEMMA GoesFacts ==
    ASSUME LaunchTypeOK, NEW pc \in Places, Goes(pc)
    PROVE  /\ adapter' \in AdapterRow /\ adapter'.pc = pc /\ adapter'.n = adapter.n
           /\ adapter'.child = adapter.child /\ adapter'.killFailed = adapter.killFailed
           /\ adapter'.children = adapter.children /\ adapter'.pidfd = adapter.pidfd
  BY DEF LaunchTypeOK, AdapterRow, Goes

\* A step of the adapter that leaves the rows alone.
LEMMA AdapterStep ==
    ASSUME LaunchInv, LaunchTypeOK', store' = store, signalled' # "foreign", CallInv',
           \A n \in Nonce : RowStep(n)
    PROVE  LaunchInv'
<1>1. ASSUME NEW n \in Nonce PROVE RowInv(n)'
  <2>1. RowInv(n) /\ RowStep(n) /\ SlotKept(n)
    BY DEF LaunchInv, SlotKept
  <2> QED
    BY <2>1, RowStepInv DEF LaunchInv
<1> QED
  BY <1>1 DEF LaunchInv

\* One that looks, or writes to a pipe.
LEMMA LookStep ==
    ASSUME LaunchInv, adapter' \in AdapterRow, CallInv', signalled' # "foreign",
           UNCHANGED <<store, leader, kid, helper, cgroup>>
    PROVE  LaunchInv'
<1>1. LaunchTypeOK'
  BY DEF LaunchInv, LaunchTypeOK
<1>2. \A n \in Nonce : RowStep(n)
  BY RowStands
<1> QED
  BY <1>1, <1>2, AdapterStep

\* cgroup.kill ends nothing by itself.
LEMMA KillFacts ==
    ASSUME LaunchTypeOK, NEW n \in Nonce, KillAll(n) \/ UNCHANGED <<leader, kid>>,
           UNCHANGED <<cgroup, helper>>
    PROVE  /\ leader' \in [Nonce -> LeaderRow] /\ kid' \in [Nonce -> {"none", "alive", "doomed"}]
           /\ \A m \in Nonce : /\ RowStep(m) /\ leader'[m].state = leader[m].state
                               /\ leader'[m].in = leader[m].in
                               /\ leader'[m].owned = leader[m].owned
<1>1. CASE UNCHANGED <<leader, kid>>
  BY <1>1, RowStands DEF LaunchTypeOK
<1>2. CASE KillAll(n)
  <2> DEFINE d == leader[n].doomed \/ "leader" \in Pids(n)
             r == [leader[n] EXCEPT !.doomed = d]
             k == IF kid[n] = "alive" THEN "doomed" ELSE kid[n]
  <2>1. leader' = [leader EXCEPT ![n] = r] /\ kid' = [kid EXCEPT ![n] = k]
    BY <1>2 DEF KillAll
  <2>2. d \in BOOLEAN
    OBVIOUS
  <2>3. k \in {"none", "alive", "doomed"} /\ (kid[n] = "none" => k = "none")
    BY DEF LaunchTypeOK
  <2> HIDE DEF d, k
  <2>4. /\ r \in LeaderRow /\ r.state = leader[n].state /\ r.in = leader[n].in
        /\ r.owned = leader[n].owned /\ r.generation = leader[n].generation
    BY <2>2 DEF LaunchTypeOK, LeaderRow
  <2> HIDE DEF r
  <2>5. leader' \in [Nonce -> LeaderRow] /\ kid' \in [Nonce -> {"none", "alive", "doomed"}]
    BY <2>1, <2>3, <2>4 DEF LaunchTypeOK
  <2>6. ASSUME NEW m \in Nonce
        PROVE  /\ RowStep(m) /\ leader'[m].state = leader[m].state
               /\ leader'[m].in = leader[m].in /\ leader'[m].owned = leader[m].owned
    BY <2>1, <2>3, <2>4 DEF LaunchTypeOK, RowStep
  <2> QED
    BY <2>5, <2>6
<1> QED
  BY <1>1, <1>2

\* A handle reaps a process that exited.
LEMMA ReapFacts ==
    ASSUME LaunchTypeOK, NEW n \in Nonce, UNCHANGED <<kid, helper>>,
           \/ Reap(n)
           \/ leader[n].state \in {"zombie", "gone"} /\ leader' = [leader EXCEPT ![n].state = "gone"]
           \/ leader' = leader,
           \A m \in Nonce : cgroup[m] = "dir" => cgroup'[m] = "dir" \/ Pids(m) = {}
    PROVE  /\ leader' \in [Nonce -> LeaderRow]
           /\ \A m \in Nonce : /\ RowStep(m) /\ leader'[m].in = leader[m].in
                               /\ leader'[m].owned = leader[m].owned
                               /\ leader[m].state # "zombie" => leader'[m].state = leader[m].state
                               /\ m # n => leader'[m] = leader[m]
<1>1. PICK s \in LeaderState : /\ leader' = [leader EXCEPT ![n].state = s]
                               /\ s # leader[n].state => leader[n].state = "zombie" /\ s = "gone"
  <2>1. leader[n].state \in LeaderState /\ "gone" \in LeaderState
    BY DEF LaunchTypeOK, LeaderRow, LeaderState
  <2>2. CASE leader' = leader
    <3>1. leader' = [leader EXCEPT ![n].state = leader[n].state]
      BY <2>2 DEF LaunchTypeOK, LeaderRow
    <3> QED
      BY <2>1, <3>1, Zenon
  <2>3. CASE Reap(n)
    <3> DEFINE t == IF n \in adapter.children /\ leader[n].state = "zombie" THEN "gone"
                    ELSE leader[n].state
    <3>1. leader' = [leader EXCEPT ![n].state = t]
      BY <2>3 DEF Reap
    <3>2. t \in LeaderState /\ (t # leader[n].state => leader[n].state = "zombie" /\ t = "gone")
      BY <2>1
    <3> HIDE DEF t
    <3> QED
      BY <3>1, <3>2, Zenon
  <2>4. CASE leader[n].state \in {"zombie", "gone"} /\ leader' = [leader EXCEPT ![n].state = "gone"]
    BY <2>1, <2>4, Zenon
  <2> QED
    BY <2>2, <2>3, <2>4
<1> DEFINE r == [leader[n] EXCEPT !.state = s]
<1>2. leader' = [leader EXCEPT ![n] = r]
  BY <1>1
<1>3. /\ r \in LeaderRow /\ r.state = s /\ r.in = leader[n].in
      /\ r.owned = leader[n].owned /\ r.generation = leader[n].generation
  BY DEF LaunchTypeOK, LeaderRow
<1> HIDE DEF r
<1>4. leader' \in [Nonce -> LeaderRow]
  BY <1>2, <1>3 DEF LaunchTypeOK
<1>5. ASSUME NEW m \in Nonce
      PROVE  /\ RowStep(m) /\ leader'[m].in = leader[m].in
             /\ leader'[m].owned = leader[m].owned
             /\ leader[m].state # "zombie" => leader'[m].state = leader[m].state
             /\ m # n => leader'[m] = leader[m]
  <2>1. CASE m = n
    BY <1>1, <1>2, <1>3, <2>1 DEF LaunchTypeOK, RowStep
  <2>2. CASE m # n
    BY <1>2, <2>2 DEF LaunchTypeOK, RowStep
  <2> QED
    BY <2>1, <2>2
<1> QED
  BY <1>4, <1>5

\* What must be said of a call in each of its places.
LEMMA CallPlaces ==
    ASSUME adapter' \in AdapterRow
    PROVE  /\ adapter'.pc = "idle" => CallInv'
           /\ adapter'.pc \in {"graceful", "term", "pidfd", "wait", "force", "fwait"}
                 /\ adapter'.n \in Nonce => CallInv'
           /\ adapter'.pc \in {"assign", "verify", "frame", "ready", "go", "boot", "target",
                               "terminate", "reap", "kill"}
                 /\ adapter'.n \in Nonce /\ store'.intent[adapter'.n] = "prepared"
                 /\ adapter'.child => CallInv'
           /\ adapter'.pc \in {"preflight", "create", "spawn", "kill"}
                 /\ adapter'.n \in Nonce /\ store'.intent[adapter'.n] = "prepared"
                 /\ Unspawned(L)' => CallInv'
           /\ adapter'.pc \in {"finish", "record"}
                 /\ adapter'.n \in Nonce /\ store'.intent[adapter'.n] = "prepared" => CallInv'
           /\ adapter'.pc = "empty"
                 /\ adapter'.n \in Nonce /\ store'.intent[adapter'.n] = "prepared"
                 /\ (adapter'.child => adapter'.killFailed \/ leader'[adapter'.n].state = "gone")
                 /\ (~adapter'.child => Unspawned(L)') => CallInv'
           /\ adapter'.pc = "settle" /\ adapter'.n \in Nonce /\ Quiet(L)'
                 /\ (Live(L)' => ~leader'[adapter'.n].in) => CallInv'
           /\ adapter'.pc \in {"down", "recover"}
                 /\ (\A n \in Nonce : ~leader'[n].owned) => CallInv'
           /\ adapter'.pc \in {"planned", "drain"} /\ adapter'.n \in Nonce
                 /\ (\A n \in Nonce : ~leader'[n].owned) => CallInv'
           /\ adapter'.pc = "identify" /\ adapter'.n \in Nonce
                 /\ (adapter'.pidfd = "foreign" => ~Live(L)') => CallInv'
           /\ adapter'.pc \in {"recheck", "send"} /\ adapter'.n \in Nonce
                 /\ adapter'.pidfd # "foreign" => CallInv'
<1> USE DEF CallInv, Calls, StopCalls, L
<1>1. adapter'.pc = "idle" => CallInv'
  OBVIOUS
<1>2. adapter'.pc \in {"graceful", "term", "pidfd", "wait", "force", "fwait"}
         /\ adapter'.n \in Nonce => CallInv'
  OBVIOUS
<1>3. adapter'.pc \in {"assign", "verify", "frame", "ready", "go", "boot", "target",
                       "terminate", "reap", "kill"}
         /\ adapter'.n \in Nonce /\ store'.intent[adapter'.n] = "prepared"
         /\ adapter'.child => CallInv'
  OBVIOUS
<1>4. adapter'.pc \in {"preflight", "create", "spawn", "kill"}
         /\ adapter'.n \in Nonce /\ store'.intent[adapter'.n] = "prepared"
         /\ Unspawned(L)' => CallInv'
  OBVIOUS
<1>5. adapter'.pc \in {"finish", "record"}
         /\ adapter'.n \in Nonce /\ store'.intent[adapter'.n] = "prepared" => CallInv'
  OBVIOUS
<1>6. adapter'.pc = "empty"
         /\ adapter'.n \in Nonce /\ store'.intent[adapter'.n] = "prepared"
         /\ (adapter'.child => adapter'.killFailed \/ leader'[adapter'.n].state = "gone")
         /\ (~adapter'.child => Unspawned(L)') => CallInv'
  OBVIOUS
<1>7. adapter'.pc = "settle" /\ adapter'.n \in Nonce /\ Quiet(L)'
         /\ (Live(L)' => ~leader'[adapter'.n].in) => CallInv'
  OBVIOUS
<1>8. adapter'.pc \in {"down", "recover"}
         /\ (\A n \in Nonce : ~leader'[n].owned) => CallInv'
  OBVIOUS
<1>9. adapter'.pc \in {"planned", "drain"} /\ adapter'.n \in Nonce
         /\ (\A n \in Nonce : ~leader'[n].owned) => CallInv'
  OBVIOUS
<1>10. adapter'.pc = "identify" /\ adapter'.n \in Nonce
          /\ (adapter'.pidfd = "foreign" => ~Live(L)') => CallInv'
  OBVIOUS
<1>11. adapter'.pc \in {"recheck", "send"} /\ adapter'.n \in Nonce
          /\ adapter'.pidfd # "foreign" => CallInv'
  OBVIOUS
<1> HIDE DEF CallInv
<1> QED
  BY <1>1, <1>2, <1>3, <1>4, <1>5, <1>6, <1>7, <1>8, <1>9, <1>10, <1>11

\* The places of a launch whose call has a child, and what it knows there.
LEMMA LaunchCall ==
    ASSUME LaunchInv
    PROVE  /\ adapter.pc \in Calls => L \in Nonce /\ store.intent[L] = "prepared"
           /\ adapter.pc \in {"preflight", "create", "spawn"} => Unspawned(L)
           /\ adapter.pc \in {"assign", "verify", "frame", "ready", "go", "boot", "target",
                              "terminate", "reap"} => adapter.child
           /\ adapter.pc \in StopCalls \cup {"settle", "planned", "drain"} => L \in Nonce
  BY DEF LaunchInv, CallInv

\* A launch that has a child and goes on, or fails.
LEMMA GoesOn ==
    ASSUME LaunchInv,
           adapter.pc \in {"assign", "verify", "frame", "ready", "go", "boot", "target",
                           "terminate", "reap"},
           NEW pc \in {"verify", "frame", "ready", "go", "boot", "target", "kill", "reap"},
           Goes(pc), store' = store
    PROVE  adapter' \in AdapterRow /\ CallInv'
<1>1. L \in Nonce /\ store.intent[L] = "prepared" /\ adapter.child
  BY LaunchCall DEF Calls
<1>2. pc \in Places /\ LaunchTypeOK
  BY DEF Places, Calls, LaunchInv
<1>3. /\ adapter' \in AdapterRow /\ adapter'.pc = pc /\ adapter'.n = adapter.n
      /\ adapter'.child = adapter.child
  BY <1>2, GoesFacts
<1> QED
  BY <1>1, <1>3, CallPlaces DEF L

\* Before its first effect a launch has spawned nothing, so it may be settled.
LEMMA PreflightInv ==
    ASSUME LaunchInv, Preflight
    PROVE  LaunchInv'
<1>1. L \in Nonce /\ store.intent[L] = "prepared" /\ Unspawned(L)
  BY LaunchCall DEF Preflight, At, Calls
<1>2. PICK pc \in {"create", "idle", "settle"} : Goes(pc)
  BY DEF Preflight
<1>3. pc \in Places /\ LaunchTypeOK
  BY DEF Places, Calls, LaunchInv
<1>4. adapter' \in AdapterRow /\ adapter'.pc = pc /\ adapter'.n = adapter.n
  BY <1>2, <1>3, GoesFacts
<1>5. UNCHANGED <<store, leader, kid, helper, cgroup, signalled>>
  BY DEF Preflight, World
<1>6. Unspawned(L)' /\ Quiet(L)' /\ ~Live(L)'
  BY <1>1, <1>4, <1>5 DEF Unspawned, Quiet, Live, L
<1>7. CallInv'
  BY <1>1, <1>4, <1>5, <1>6, CallPlaces DEF L
<1> QED
  BY <1>4, <1>5, <1>7, LookStep DEF LaunchInv

\* A cgroup that is created, kept or removed again holds no process yet.
LEMMA CreateInv ==
    ASSUME LaunchInv, Create
    PROVE  LaunchInv'
<1>1. L \in Nonce /\ store.intent[L] = "prepared" /\ Unspawned(L)
  BY LaunchCall DEF Create, At, Calls
<1>2. PICK pc \in {"spawn", "idle", "settle"} : Goes(pc)
  BY DEF Create, OrdinaryError, Goes
<1>3. pc \in Places /\ LaunchTypeOK
  BY DEF Places, Calls, LaunchInv
<1>4. adapter' \in AdapterRow /\ adapter'.pc = pc /\ adapter'.n = adapter.n
  BY <1>2, <1>3, GoesFacts
<1>5. UNCHANGED <<store, leader, kid, helper, signalled>>
  BY DEF Create
<1>6. Unspawned(L)' /\ Quiet(L)' /\ ~Live(L)'
  BY <1>1, <1>4, <1>5 DEF Unspawned, Quiet, Live, L
<1>7. CallInv'
  BY <1>1, <1>4, <1>5, <1>6, CallPlaces DEF L
<1>8. cgroup' = cgroup \/ cgroup' = [cgroup EXCEPT ![L] = "dir"]
  BY DEF Create
<1>9. cgroup' \in [Nonce -> {"none", "dir"}] /\ \A n \in Nonce : cgroup[n] = "dir" => cgroup'[n] = "dir"
  BY <1>1, <1>3, <1>8 DEF LaunchTypeOK
<1>10. \A n \in Nonce : RowStep(n)
  BY <1>5, <1>9 DEF RowStep
<1>11. LaunchTypeOK'
  BY <1>3, <1>4, <1>5, <1>9 DEF LaunchTypeOK
<1> QED
  BY <1>5, <1>7, <1>10, <1>11, AdapterStep DEF LaunchInv

\* The helper that is spawned is at its start, with its intent prepared.
LEMMA SpawnInv ==
    ASSUME LaunchInv, Spawn
    PROVE  LaunchInv'
<1>1. L \in Nonce /\ store.intent[L] = "prepared" /\ Unspawned(L) /\ LaunchTypeOK
  BY LaunchCall DEF Spawn, At, Calls, LaunchInv
<1>2. UNCHANGED <<store, kid, cgroup, signalled>>
  BY DEF Spawn
<1>3. CASE Goes("kill") /\ UNCHANGED <<leader, helper, chan>>
  <2>1. /\ adapter' \in AdapterRow /\ adapter'.pc = "kill" /\ adapter'.n = adapter.n
    BY <1>1, <1>3, GoesFacts DEF Places, Calls
  <2>2. Unspawned(L)'
    BY <1>1, <1>2, <1>3, <2>1 DEF Unspawned, L
  <2>3. CallInv'
    BY <1>1, <1>2, <2>1, <2>2, CallPlaces DEF L
  <2> QED
    BY <1>2, <1>3, <2>1, <2>3, LookStep DEF LaunchInv
<1>4. CASE /\ leader' = [leader EXCEPT ![L] = [NoProcess EXCEPT !.state = "helper",
                                 !.owned = TRUE, !.generation = store.generation]]
           /\ helper' = [helper EXCEPT ![L] = "start"]
           /\ adapter' = [adapter EXCEPT !.pc = "assign", !.child = TRUE]
  <2> DEFINE r == [NoProcess EXCEPT !.state = "helper", !.owned = TRUE,
                                    !.generation = store.generation]
  <2>1. r \in LeaderRow /\ r.state = "helper"
    BY <1>1, Zenon DEF LaunchTypeOK, StoreRow, LeaderRow, LeaderState, NoProcess
  <2>2. leader' = [leader EXCEPT ![L] = r]
    BY <1>4
  <2> HIDE DEF r
  <2>3. /\ adapter' \in AdapterRow /\ adapter'.pc = "assign" /\ adapter'.n = adapter.n
        /\ adapter'.child
    BY <1>1, <1>4, Zenon DEF LaunchTypeOK, AdapterRow, Places, Calls
  <2>4. CallInv'
    BY <1>1, <1>2, <2>3, CallPlaces DEF L
  <2>5. LaunchTypeOK'
    BY <1>1, <1>2, <1>4, <2>1, <2>2, <2>3 DEF LaunchTypeOK
  <2>6. ASSUME NEW n \in Nonce PROVE RowInv(n)'
    <3>1. CASE n = L
      BY <1>1, <1>2, <1>4, <2>1, <2>2, <3>1
      DEF RowInv, ExecIsHeld, LaunchTypeOK, Unspawned
    <3>2. CASE n # L
      <4>1. leader'[n] = leader[n] /\ helper'[n] = helper[n]
        BY <1>1, <1>4, <3>2 DEF LaunchTypeOK
      <4>2. RowStep(n) /\ SlotKept(n) /\ RowInv(n)
        BY <1>2, <4>1, RowStands DEF SlotKept, LaunchInv
      <4> QED
        BY <1>1, <1>2, <4>2, RowStepInv
    <3> QED
      BY <3>1, <3>2
  <2> QED
    BY <1>2, <2>4, <2>5, <2>6 DEF LaunchInv
<1> QED
  BY <1>3, <1>4 DEF Spawn

\* A write of the rows waits for the slot, so that no helper holds it.
LEMMA WriteStep ==
    ASSUME LaunchInv, store.writer = NoLaunch, store' \in StoreRow, adapter' \in AdapterRow,
           CallInv', UNCHANGED <<leader, kid, helper, cgroup, signalled>>,
           \A n \in Nonce : /\ store'.intent[n] = "none" => store.intent[n] = "none"
                            /\ store'.intent[n] = "cleaned" => store.intent[n] = "cleaned" \/ Quiet(n)
    PROVE  LaunchInv'
<1>1. LaunchTypeOK /\ LaunchTypeOK'
  BY DEF LaunchInv, LaunchTypeOK
<1>2. ASSUME NEW n \in Nonce PROVE RowInv(n)'
  <2>1. RowStep(n) /\ RowInv(n)
    BY RowStands DEF LaunchInv
  <2>2. SlotKept(n)
    BY DEF SlotKept, Nonce, NoLaunch
  <2> QED
    BY <1>1, <2>1, <2>2, RowStepInv
<1> QED
  BY <1>1, <1>2 DEF LaunchInv

\* A launch that is prepared has spawned nothing.
LEMMA PrepareLaunchInv ==
    ASSUME LaunchInv, PrepareLaunch
    PROVE  LaunchInv'
<1>1. PICK n \in Nonce :
          /\ store.intent[n] = "none"
          /\ store' = [store EXCEPT !.intent[n] = "prepared"]
          /\ adapter' = [adapter EXCEPT !.pc = "preflight", !.n = n, !.child = FALSE,
                                        !.killFailed = FALSE]
  BY Zenon DEF PrepareLaunch
<1>2. store.writer = NoLaunch /\ UNCHANGED <<leader, kid, helper, cgroup, signalled>>
  BY DEF PrepareLaunch, World
<1>3. LaunchTypeOK /\ RowInv(n)
  BY DEF LaunchInv
<1> DEFINE i == [store.intent EXCEPT ![n] = "prepared"]
<1>4. /\ i \in [Nonce -> {"none", "prepared", "active", "cleaned"}]
      /\ i[n] = "prepared" /\ \A m \in Nonce : m # n => i[m] = store.intent[m]
  BY <1>3 DEF LaunchTypeOK, StoreRow
<1>5. store' = [store EXCEPT !.intent = i]
  BY <1>1
<1> HIDE DEF i
<1>6. store' \in StoreRow /\ store'.intent = i
  BY <1>3, <1>4, <1>5 DEF LaunchTypeOK, StoreRow
<1>7. adapter' \in AdapterRow /\ adapter'.pc = "preflight" /\ adapter'.n = n
  BY <1>1, <1>3, Zenon DEF LaunchTypeOK, AdapterRow, Places, Calls
<1>8. Unspawned(L)'
  BY <1>1, <1>2, <1>3, <1>7 DEF RowInv, Unspawned, L
<1>9. CallInv'
  BY <1>4, <1>6, <1>7, <1>8, CallPlaces
<1> QED
  BY <1>2, <1>4, <1>6, <1>7, <1>9, WriteStep

\* The two ends of an intent.
LEMMA IntentWritten ==
    ASSUME LaunchInv, store.writer = NoLaunch, L \in Nonce, NEW s \in {"active", "cleaned"},
           store' = [store EXCEPT !.intent[L] = s], s = "cleaned" => Quiet(L),
           Goes("idle"), UNCHANGED <<World, signalled>>
    PROVE  LaunchInv'
<1>1. LaunchTypeOK
  BY DEF LaunchInv
<1> DEFINE i == [store.intent EXCEPT ![L] = s]
<1>2. /\ i \in [Nonce -> {"none", "prepared", "active", "cleaned"}]
      /\ i[L] = s /\ \A m \in Nonce : m # L => i[m] = store.intent[m]
  BY <1>1 DEF LaunchTypeOK, StoreRow
<1>3. store' = [store EXCEPT !.intent = i]
  OBVIOUS
<1> HIDE DEF i
<1>4. store' \in StoreRow /\ store'.intent = i
  BY <1>1, <1>2, <1>3 DEF LaunchTypeOK, StoreRow
<1>5. adapter' \in AdapterRow /\ adapter'.pc = "idle"
  BY <1>1, GoesFacts DEF Places
<1>6. CallInv'
  BY <1>5, CallPlaces
<1>7. UNCHANGED <<leader, kid, helper, cgroup, signalled>>
  BY DEF World
<1>8. \A n \in Nonce : /\ store'.intent[n] = "none" => store.intent[n] = "none"
                       /\ store'.intent[n] = "cleaned" => store.intent[n] = "cleaned" \/ Quiet(n)
  BY <1>2, <1>4
<1> QED
  BY <1>4, <1>5, <1>6, <1>7, <1>8, WriteStep

\* The intent of a launch that finished becomes active.
LEMMA RecordActiveInv ==
    ASSUME LaunchInv, RecordActive
    PROVE  LaunchInv'
<1>1. L \in Nonce
  BY LaunchCall DEF RecordActive, At, Calls
<1> QED
  BY <1>1, IntentWritten DEF RecordActive

\* An intent is cleaned only where the call has found the launch quiet.
LEMMA CleanIntentInv ==
    ASSUME LaunchInv, CleanIntent
    PROVE  LaunchInv'
<1>1. L \in Nonce /\ Quiet(L)
  BY DEF CleanIntent, At, LaunchInv, CallInv
<1> QED
  BY <1>1, IntentWritten DEF CleanIntent

\* An operator changes the mode while no helper holds the slot.
LEMMA SetLaunchModeInv ==
    ASSUME LaunchInv, SetLaunchMode
    PROVE  LaunchInv'
<1>1. PICK m \in {"Running", "Stopped"} : store' = [store EXCEPT !.mode = m]
  BY DEF SetLaunchMode
<1>2. LaunchTypeOK
  BY DEF LaunchInv
<1>3. store' \in StoreRow /\ store'.intent = store.intent
  BY <1>1, <1>2 DEF LaunchTypeOK, StoreRow
<1>4. store.writer = NoLaunch /\ UNCHANGED <<leader, kid, helper, cgroup, signalled, adapter>>
  BY DEF SetLaunchMode, World
<1>5. CallInv'
  <2>1. \A n \in Nonce : RowStep(n)
    BY <1>4, RowStands
  <2>2. CallInv
    BY DEF LaunchInv
  <2> QED
    BY <1>2, <1>3, <1>4, <2>1, <2>2, CallRowStep, Zenon
<1> QED
  BY <1>2, <1>3, <1>4, <1>5, WriteStep DEF LaunchTypeOK

\* The process a launch spawned enters its cgroup.
LEMMA AssignInv ==
    ASSUME LaunchInv, Assign
    PROVE  LaunchInv'
<1>1. PICK pc \in {"verify", "kill"} : Goes(pc)
  BY DEF Assign
<1>2. adapter.pc = "assign" /\ UNCHANGED <<store, kid, helper, cgroup, signalled>> /\ LaunchTypeOK
  BY DEF Assign, At, LaunchInv
<1>3. adapter' \in AdapterRow /\ CallInv'
  BY <1>1, <1>2, GoesOn
<1>4. CASE UNCHANGED leader
  BY <1>2, <1>3, <1>4, LookStep DEF LaunchInv
<1>5. CASE leader' = [leader EXCEPT ![L].in = TRUE]
  <2>1. L \in Nonce
    BY <1>2, LaunchCall DEF Calls
  <2> DEFINE r == [leader[L] EXCEPT !.in = TRUE]
  <2>2. leader' = [leader EXCEPT ![L] = r]
    BY <1>5
  <2>3. /\ r \in LeaderRow /\ r.state = leader[L].state /\ r.owned = leader[L].owned
        /\ r.generation = leader[L].generation /\ r.in
    BY <1>2, <2>1, Zenon DEF LaunchTypeOK, LeaderRow
  <2> HIDE DEF r
  <2>4. LaunchTypeOK'
    BY <1>2, <1>3, <2>1, <2>2, <2>3 DEF LaunchTypeOK
  <2>5. ASSUME NEW n \in Nonce PROVE RowStep(n)
    <3>1. CASE n = L
      BY <1>2, <2>1, <2>2, <2>3, <3>1 DEF LaunchTypeOK, RowStep
    <3>2. CASE n # L
      BY <1>2, <2>1, <2>2, <3>2 DEF LaunchTypeOK, RowStep
    <3> QED
      BY <3>1, <3>2
  <2> QED
    BY <1>2, <1>3, <2>4, <2>5, AdapterStep DEF LaunchInv
<1> QED
  BY <1>4, <1>5 DEF Assign

\* The steps of a launch that look, or send: they go on, or the launch fails.
LEMMA LooksInv ==
    ASSUME LaunchInv, Verify \/ SendRequest \/ WaitForReady \/ SendGo \/ SendBootstrap
    PROVE  LaunchInv'
<1>1. adapter.pc \in {"verify", "frame", "ready", "go", "boot"}
  BY DEF Verify, SendRequest, WaitForReady, SendGo, SendBootstrap, At
<1>2. UNCHANGED <<store, leader, kid, helper, cgroup, signalled>>
  BY DEF Verify, SendRequest, WaitForReady, SendGo, SendBootstrap, World
<1>3. PICK pc \in {"frame", "ready", "go", "boot", "target", "kill"} : Goes(pc)
  <2>1. CASE SendRequest \/ SendGo \/ SendBootstrap
    BY <2>1 DEF SendRequest, SendGo, SendBootstrap, Send
  <2>2. CASE Verify \/ WaitForReady
    BY <2>2 DEF Verify, WaitForReady
  <2> QED
    BY <2>1, <2>2
<1>4. adapter' \in AdapterRow /\ CallInv'
  BY <1>1, <1>2, <1>3, GoesOn
<1> QED
  BY <1>2, <1>4, LookStep DEF LaunchInv

\* The child is kept as a handle, reaped, or left to the cleanup.
LEMMA WaitForTargetInv ==
    ASSUME LaunchInv, WaitForTarget
    PROVE  LaunchInv'
<1>1. adapter.pc = "target" /\ UNCHANGED <<store, kid, helper, cgroup, signalled>> /\ LaunchTypeOK
  BY DEF WaitForTarget, At, LaunchInv
<1>2. L \in Nonce /\ store.intent[L] = "prepared"
  BY <1>1, LaunchCall DEF Calls
<1>3. CASE adapter' = [adapter EXCEPT !.pc = "finish", !.children = @ \cup {L}] /\ UNCHANGED leader
  <2>1. adapter' \in AdapterRow /\ adapter'.pc = "finish" /\ adapter'.n = adapter.n
    BY <1>1, <1>2, <1>3, Zenon DEF LaunchTypeOK, AdapterRow, Places, Calls
  <2>2. CallInv'
    BY <1>1, <1>2, <2>1, CallPlaces DEF L
  <2> QED
    BY <1>1, <1>3, <2>1, <2>2, LookStep DEF LaunchInv
<1>4. CASE /\ Goes("kill")
           /\ \/ leader[L].state \in {"zombie", "gone"}
                 /\ leader' = [leader EXCEPT ![L].state = "gone"]
              \/ leader' = leader
  <2>1. adapter' \in AdapterRow /\ CallInv'
    BY <1>1, <1>4, GoesOn
  <2>2. leader' \in [Nonce -> LeaderRow] /\ \A m \in Nonce : RowStep(m)
    BY <1>1, <1>2, <1>4, ReapFacts
  <2>3. LaunchTypeOK'
    BY <1>1, <2>1, <2>2 DEF LaunchTypeOK
  <2> QED
    BY <1>1, <2>1, <2>2, <2>3, AdapterStep DEF LaunchInv
<1> QED
  BY <1>3, <1>4 DEF WaitForTarget

\* A finished launch is recorded, or stopped.
LEMMA FinishLaunchInv ==
    ASSUME LaunchInv, FinishLaunch
    PROVE  LaunchInv'
<1>1. adapter.pc = "finish" /\ UNCHANGED <<store, leader, kid, helper, cgroup, signalled>>
  BY DEF FinishLaunch, At, World
<1>2. L \in Nonce /\ store.intent[L] = "prepared" /\ LaunchTypeOK
  BY <1>1, LaunchCall DEF Calls, LaunchInv
<1>3. PICK pc \in {"record", "graceful"} : Goes(pc)
  BY DEF FinishLaunch
<1>4. adapter' \in AdapterRow /\ adapter'.pc = pc /\ adapter'.n = adapter.n
  BY <1>2, <1>3, GoesFacts DEF Places, Calls, StopCalls
<1>5. CallInv'
  BY <1>1, <1>2, <1>4, CallPlaces DEF L
<1> QED
  BY <1>1, <1>4, <1>5, LookStep DEF LaunchInv

\* A process that is killed still has to exit.
LEMMA DoomFacts ==
    ASSUME LaunchTypeOK, NEW n \in Nonce, NEW d \in BOOLEAN,
           leader' = leader \/ leader' = [leader EXCEPT ![n].doomed = d],
           UNCHANGED <<kid, helper, cgroup>>
    PROVE  leader' \in [Nonce -> LeaderRow] /\ \A m \in Nonce : RowStep(m)
<1>1. CASE leader' = leader
  BY <1>1, RowStands DEF LaunchTypeOK
<1>2. CASE leader' = [leader EXCEPT ![n].doomed = d]
  <2> DEFINE r == [leader[n] EXCEPT !.doomed = d]
  <2>1. leader' = [leader EXCEPT ![n] = r]
    BY <1>2
  <2>2. /\ r \in LeaderRow /\ r.state = leader[n].state /\ r.in = leader[n].in
        /\ r.owned = leader[n].owned /\ r.generation = leader[n].generation
    BY DEF LaunchTypeOK, LeaderRow
  <2> HIDE DEF r
  <2> QED
    BY <2>1, <2>2 DEF LaunchTypeOK, RowStep
<1> QED
  BY <1>1, <1>2

\* The cleanup kills the cgroup; without a child nothing was spawned.
LEMMA CleanupKillInv ==
    ASSUME LaunchInv, CleanupKill
    PROVE  LaunchInv'
<1>1. /\ adapter.pc = "kill" /\ UNCHANGED <<store, helper, cgroup, signalled>> /\ LaunchTypeOK
      /\ KillAll(L) \/ UNCHANGED <<leader, kid>>
  BY DEF CleanupKill, At, LaunchInv
<1>2. L \in Nonce /\ store.intent[L] = "prepared" /\ (~adapter.child => Unspawned(L))
  BY <1>1 DEF LaunchInv, CallInv, Calls
<1>3. PICK pc \in {"terminate", "empty"} :
          Goes(pc) /\ pc = IF adapter.child THEN "terminate" ELSE "empty"
  BY DEF CleanupKill
<1>4. /\ adapter' \in AdapterRow /\ adapter'.pc = pc /\ adapter'.n = adapter.n
      /\ adapter'.child = adapter.child
  BY <1>1, <1>3, GoesFacts DEF Places, Calls
<1>5. /\ leader' \in [Nonce -> LeaderRow] /\ kid' \in [Nonce -> {"none", "alive", "doomed"}]
      /\ \A m \in Nonce : /\ RowStep(m) /\ leader'[m].state = leader[m].state
                          /\ leader'[m].owned = leader[m].owned
  BY <1>1, <1>2, KillFacts
<1>6. ~adapter.child => Unspawned(L)'
  BY <1>2, <1>4, <1>5 DEF Unspawned, L, RowStep
<1>7. CallInv'
  BY <1>1, <1>2, <1>3, <1>4, <1>6, CallPlaces, Zenon DEF L
<1>8. LaunchTypeOK'
  BY <1>1, <1>4, <1>5 DEF LaunchTypeOK
<1> QED
  BY <1>1, <1>5, <1>7, <1>8, AdapterStep DEF LaunchInv

\* The child is reaped, killed, or the kill fails.
LEMMA TerminateChildInv ==
    ASSUME LaunchInv, TerminateChild
    PROVE  LaunchInv'
<1>1. /\ adapter.pc = "terminate" /\ UNCHANGED <<store, kid, helper, cgroup, signalled>>
      /\ LaunchTypeOK
  BY DEF TerminateChild, At, LaunchInv
<1>2. L \in Nonce /\ store.intent[L] = "prepared" /\ adapter.child
  BY <1>1, LaunchCall DEF Calls
<1>3. CASE /\ leader[L].state \in {"zombie", "gone"}
           /\ leader' = [leader EXCEPT ![L].state = "gone"]
           /\ Goes("empty")
  <2>1. adapter' \in AdapterRow /\ adapter'.pc = "empty" /\ adapter'.n = adapter.n /\ adapter'.child
    BY <1>1, <1>2, <1>3, GoesFacts, Zenon DEF Places, Calls
  <2>2. leader'[L].state = "gone"
    BY <1>1, <1>2, <1>3 DEF LaunchTypeOK, LeaderRow
  <2>3. CallInv'
    BY <1>1, <1>2, <2>1, <2>2, CallPlaces DEF L
  <2>4. leader' \in [Nonce -> LeaderRow] /\ \A m \in Nonce : RowStep(m)
    BY <1>1, <1>2, <1>3, ReapFacts, Zenon
  <2>5. LaunchTypeOK'
    BY <1>1, <2>1, <2>4 DEF LaunchTypeOK
  <2> QED
    BY <1>1, <2>3, <2>4, <2>5, AdapterStep DEF LaunchInv
<1>4. CASE /\ Goes("reap") \/ adapter' = [adapter EXCEPT !.pc = "reap", !.killFailed = TRUE]
           /\ leader' = leader \/ leader' = [leader EXCEPT ![L].doomed = TRUE]
  <2>1. adapter' \in AdapterRow /\ adapter'.pc = "reap" /\ adapter'.n = adapter.n /\ adapter'.child
    BY <1>1, <1>2, <1>4, Zenon DEF Goes, LaunchTypeOK, AdapterRow, Places, Calls
  <2>2. CallInv'
    BY <1>1, <1>2, <2>1, CallPlaces DEF L
  <2>3. leader' \in [Nonce -> LeaderRow] /\ \A m \in Nonce : RowStep(m)
    BY <1>1, <1>2, <1>4, DoomFacts, Zenon
  <2>4. LaunchTypeOK'
    BY <1>1, <2>1, <2>3 DEF LaunchTypeOK
  <2> QED
    BY <1>1, <2>2, <2>3, <2>4, AdapterStep DEF LaunchInv
<1> QED
  BY <1>3, <1>4 DEF TerminateChild

\* The reap ends with the child gone, or with a failure noted.
LEMMA ReapChildInv ==
    ASSUME LaunchInv, ReapChild
    PROVE  LaunchInv'
<1>1. /\ adapter.pc = "reap" /\ UNCHANGED <<store, kid, helper, cgroup, signalled>>
      /\ LaunchTypeOK
  BY DEF ReapChild, At, LaunchInv
<1>2. L \in Nonce /\ store.intent[L] = "prepared" /\ adapter.child
  BY <1>1, LaunchCall DEF Calls
<1>3. \/ leader[L].state \in {"zombie", "gone"} /\ leader' = [leader EXCEPT ![L].state = "gone"]
      \/ leader' = leader
  BY DEF ReapChild
<1>4. leader' \in [Nonce -> LeaderRow] /\ \A m \in Nonce : RowStep(m)
  BY <1>1, <1>2, <1>3, ReapFacts
<1>5. /\ adapter' \in AdapterRow /\ adapter'.pc = "empty" /\ adapter'.n = adapter.n /\ adapter'.child
      /\ adapter'.killFailed \/ leader'[L].state = "gone"
  <2>1. CASE leader' = [leader EXCEPT ![L].state = "gone"] /\ Goes("empty")
    <3>1. leader'[L].state = "gone"
      BY <1>1, <1>2, <2>1 DEF LaunchTypeOK, LeaderRow
    <3> QED
      BY <1>1, <1>2, <2>1, <3>1, GoesFacts, Zenon DEF Places, Calls
  <2>2. CASE adapter' = [adapter EXCEPT !.pc = "empty", !.killFailed = TRUE]
    BY <1>1, <1>2, <2>2, Zenon DEF LaunchTypeOK, AdapterRow, Places, Calls
  <2> QED
    BY <2>1, <2>2 DEF ReapChild
<1>6. CallInv'
  BY <1>1, <1>2, <1>5, CallPlaces, Zenon DEF L
<1>7. LaunchTypeOK'
  BY <1>1, <1>4, <1>5 DEF LaunchTypeOK
<1> QED
  BY <1>1, <1>4, <1>6, <1>7, AdapterStep DEF LaunchInv

\* An empty cgroup holds no process of the launch.
LEMMA EmptyFacts ==
    ASSUME LaunchInv, NEW n \in Nonce, Pids(n) = {}
    PROVE  kid[n] = "none" /\ leader[n].state # "target" /\ (Live(n) => ~leader[n].in)
  BY DEF LaunchInv, LaunchTypeOK, RowInv, Pids, Live

\* The cgroup of the call is removed.
LEMMA RemoveFacts ==
    ASSUME LaunchTypeOK, NEW n \in Nonce,
           (Remove(n) /\ Pids(n) = {}) \/ CleanupIfEmpty(n) \/ UNCHANGED cgroup
    PROVE  /\ cgroup' \in [Nonce -> {"none", "dir"}]
           /\ \A m \in Nonce : cgroup[m] = "dir" => cgroup'[m] = "dir" \/ Pids(m) = {}
  BY DEF LaunchTypeOK, Remove, CleanupIfEmpty

\* A cleanup settles the launch only with an empty cgroup and a child that is gone.
LEMMA CleanupProofInv ==
    ASSUME LaunchInv, CleanupProof
    PROVE  LaunchInv'
<1>1. /\ adapter.pc = "empty" /\ UNCHANGED <<store, kid, helper, signalled>>
      /\ LaunchTypeOK
  BY DEF CleanupProof, At, LaunchInv
<1>2. L \in Nonce /\ store.intent[L] = "prepared"
  BY <1>1, LaunchCall DEF Calls
<1>3. CASE /\ Pids(L) = {} /\ ~adapter.killFailed
           /\ Remove(L) /\ OrdinaryError /\ UNCHANGED leader
  <2>1. adapter' \in AdapterRow /\ adapter'.pc = "settle" /\ adapter'.n = adapter.n
    BY <1>1, <1>3, GoesFacts DEF Places, OrdinaryError
  <2>2. (adapter.child => leader[L].state = "gone") /\ (~adapter.child => Unspawned(L))
    BY <1>1, <1>3 DEF LaunchInv, CallInv
  <2>3. Quiet(L) /\ ~Live(L)
    BY <1>1, <1>2, <1>3, <2>2, EmptyFacts, Zenon DEF Quiet, Unspawned, Live, LaunchTypeOK
  <2>4. Quiet(L)' /\ ~Live(L)'
    BY <1>1, <1>3, <2>1, <2>3 DEF Quiet, Live, L
  <2>5. CallInv'
    BY <1>2, <2>1, <2>4, CallPlaces DEF L
  <2>6. /\ cgroup' \in [Nonce -> {"none", "dir"}]
        /\ \A m \in Nonce : cgroup[m] = "dir" => cgroup'[m] = "dir" \/ Pids(m) = {}
    BY <1>1, <1>2, <1>3, RemoveFacts
  <2>7. LaunchTypeOK' /\ \A m \in Nonce : RowStep(m)
    BY <1>1, <1>3, <2>1, <2>6 DEF LaunchTypeOK, RowStep
  <2> QED
    BY <1>1, <2>5, <2>7, AdapterStep DEF LaunchInv
<1>4. CASE /\ UncertainError /\ UNCHANGED cgroup
           /\ \/ leader' = [leader EXCEPT ![L].doomed = Live(L) /\ adapter.child]
              \/ UNCHANGED leader
  <2>1. adapter' \in AdapterRow /\ adapter'.pc = "idle"
    BY <1>1, <1>2, <1>4, Zenon DEF UncertainError, LaunchTypeOK, AdapterRow, Places
  <2>2. CallInv'
    BY <2>1, CallPlaces, Zenon
  <2> DEFINE d == Live(L) /\ adapter.child
  <2>3. d \in BOOLEAN
    OBVIOUS
  <2>4. leader' = leader \/ leader' = [leader EXCEPT ![L].doomed = d]
    BY <1>4
  <2> HIDE DEF d
  <2>5. leader' \in [Nonce -> LeaderRow] /\ \A m \in Nonce : RowStep(m)
    BY <1>1, <1>2, <1>4, <2>3, <2>4, DoomFacts
  <2>6. LaunchTypeOK'
    BY <1>1, <1>4, <2>1, <2>5 DEF LaunchTypeOK
  <2> QED
    BY <1>1, <2>2, <2>5, <2>6, AdapterStep DEF LaunchInv
<1> QED
  BY <1>3, <1>4 DEF CleanupProof

-----------------------------------------------------------------------------
(* The stop. *)

\* The adapter calls a process exited only when nothing of it is left: an empty
\* cgroup and an exit its handle saw, or no cgroup and a number that is not the
\* process's any more.
LEMMA ExitedIsQuiet ==
    ASSUME LaunchInv, NEW n \in Nonce, Reap(n), UNCHANGED <<kid, helper, store>>,
           \A m \in Nonce : cgroup[m] = "dir" => cgroup'[m] = "dir" \/ Pids(m) = {},
           \/ ObservedChild(n) \in {"Exited", "Missing"}
           \/ Pids(n) = {} /\ ChildState(n) = "Exited"
    PROVE  /\ kid'[n] = "none" /\ leader'[n].state \notin {"helper", "target"}
           /\ leader'[n].owned => leader'[n].state = "gone"
<1>1. LaunchTypeOK /\ RowInv(n)
  BY DEF LaunchInv
<1>2. /\ ChildState(n) = "Exited" \/ (ChildState(n) = "Unknown" /\ Occupant(n) # "leader")
      /\ Pids(n) = {} \/ ~Existing(n)
  BY DEF ObservedChild, ObserveIdentity, ObserveMissing
<1>3. kid[n] = "none"
  BY <1>1, <1>2, EmptyFacts DEF RowInv, Existing
<1>4. /\ leader'[n].owned = leader[n].owned
      /\ leader[n].state # "zombie" => leader'[n].state = leader[n].state
  BY <1>1, ReapFacts
<1>5. CASE ChildState(n) = "Exited"
  <2>1. n \in adapter.children /\ leader[n].state \in {"zombie", "gone"}
    BY <1>5 DEF ChildState
  <2>2. leader' = [leader EXCEPT ![n].state = "gone"]
    <3>1. CASE leader[n].state = "zombie"
      BY <2>1, <3>1 DEF Reap
    <3>2. CASE leader[n].state = "gone"
      <4>1. leader' = [leader EXCEPT ![n].state = leader[n].state]
        BY <3>2 DEF Reap
      <4> QED
        BY <3>2, <4>1
    <3> QED
      BY <2>1, <3>1, <3>2
  <2>3. leader'[n].state = "gone"
    BY <1>1, <2>2 DEF LaunchTypeOK, LeaderRow
  <2> QED
    BY <1>3, <2>3
<1>6. CASE Occupant(n) # "leader"
  <2>1. leader[n].state \in {"none", "gone"}
    BY <1>1, <1>6 DEF Occupant, LaunchTypeOK, LeaderRow, LeaderState
  <2> QED
    BY <1>1, <1>3, <1>4, <2>1 DEF RowInv
<1> QED
  BY <1>2, <1>5, <1>6

\* A stop that ends with an exit.
LEMMA ExitedStep ==
    ASSUME LaunchInv, L \in Nonce, Exited, Reap(L), UNCHANGED <<kid, helper, store, signalled>>,
           (Remove(L) /\ Pids(L) = {}) \/ CleanupIfEmpty(L),
           \/ ObservedChild(L) \in {"Exited", "Missing"}
           \/ Pids(L) = {} /\ ChildState(L) = "Exited"
    PROVE  LaunchInv'
<1>1. LaunchTypeOK
  BY DEF LaunchInv
<1>2. adapter' \in AdapterRow /\ adapter'.pc = "settle" /\ adapter'.n = adapter.n
  BY <1>1, Zenon DEF Exited, LaunchTypeOK, AdapterRow, Places
<1>3. /\ cgroup' \in [Nonce -> {"none", "dir"}]
      /\ \A m \in Nonce : cgroup[m] = "dir" => cgroup'[m] = "dir" \/ Pids(m) = {}
  BY <1>1, RemoveFacts
<1>4. leader' \in [Nonce -> LeaderRow] /\ \A m \in Nonce : RowStep(m)
  BY <1>1, <1>3, ReapFacts
<1>5. /\ kid'[L] = "none" /\ leader'[L].state \notin {"helper", "target"}
      /\ leader'[L].owned => leader'[L].state = "gone"
  BY <1>3, ExitedIsQuiet
<1>6. Quiet(L)' /\ ~Live(L)'
  BY <1>2, <1>5 DEF Quiet, Live, L
<1>7. CallInv'
  BY <1>2, <1>6, CallPlaces DEF L
<1>8. LaunchTypeOK'
  BY <1>1, <1>2, <1>3, <1>4 DEF LaunchTypeOK
<1> QED
  BY <1>4, <1>7, <1>8, AdapterStep DEF LaunchInv

\* A stop that goes on, or gives up.
LEMMA StopGoesOn ==
    ASSUME LaunchInv, L \in Nonce,
           NEW pc \in {"idle", "graceful", "term", "pidfd", "wait", "force", "fwait"},
           adapter' \in AdapterRow, adapter'.pc = pc, adapter'.n \in Nonce,
           \/ Reap(L) /\ UNCHANGED kid
           \/ KillAll(L) \/ UNCHANGED <<leader, kid>>,
           UNCHANGED <<store, helper, cgroup>>, signalled' # "foreign"
    PROVE  LaunchInv'
<1>1. LaunchTypeOK
  BY DEF LaunchInv
<1>2. CallInv'
  BY CallPlaces
<1>3. /\ leader' \in [Nonce -> LeaderRow] /\ kid' \in [Nonce -> {"none", "alive", "doomed"}]
      /\ \A m \in Nonce : RowStep(m)
  <2>1. CASE Reap(L) /\ UNCHANGED kid
    BY <1>1, <2>1, ReapFacts DEF LaunchTypeOK
  <2>2. CASE KillAll(L) \/ UNCHANGED <<leader, kid>>
    BY <1>1, <2>2, KillFacts
  <2> QED
    BY <2>1, <2>2
<1>4. LaunchTypeOK'
  BY <1>1, <1>3 DEF LaunchTypeOK
<1> QED
  BY <1>2, <1>3, <1>4, AdapterStep DEF LaunchInv

\* A pass may reap a child and begin its stop.
LEMMA InspectChildInv ==
    ASSUME LaunchInv, NEW n \in Nonce, InspectChild(n)
    PROVE  LaunchInv'
<1>1. /\ LaunchTypeOK /\ adapter.pc = "idle" /\ Reap(n)
      /\ UNCHANGED <<store, kid, helper, cgroup, signalled>>
  BY DEF LaunchInv, InspectChild, At
<1>2. leader' \in [Nonce -> LeaderRow] /\ \A m \in Nonce : RowStep(m)
  BY <1>1, ReapFacts
<1>3. adapter' \in AdapterRow /\ (adapter'.pc = "idle" \/ (adapter'.pc = "graceful" /\ adapter'.n = n))
  BY <1>1, Zenon DEF InspectChild, Stops, LaunchTypeOK, AdapterRow, Places, StopCalls
<1>4. CallInv'
  BY <1>3, CallPlaces
<1>5. LaunchTypeOK'
  BY <1>1, <1>2, <1>3 DEF LaunchTypeOK
<1> QED
  BY <1>1, <1>2, <1>4, <1>5, AdapterStep DEF LaunchInv

\* A graceful stop ends with an observed exit, or goes on.
LEMMA GracefulStopInv ==
    ASSUME LaunchInv, GracefulStop
    PROVE  LaunchInv'
<1>1. /\ LaunchTypeOK /\ adapter.pc = "graceful" /\ Reap(L)
      /\ UNCHANGED <<store, kid, helper, signalled>>
  BY DEF LaunchInv, GracefulStop, At
<1>2. L \in Nonce
  BY <1>1, LaunchCall DEF StopCalls
<1>3. CASE ObservedChild(L) \in {"Exited", "Missing"} /\ Exited /\ CleanupIfEmpty(L)
  BY <1>1, <1>2, <1>3, ExitedStep
<1>4. CASE UNCHANGED cgroup /\ \E pc \in {"idle", "term", "force"} : Goes(pc)
  <2>1. PICK pc \in {"idle", "term", "force"} : Goes(pc)
    BY <1>4
  <2>2. adapter' \in AdapterRow /\ adapter'.pc = pc /\ adapter'.n = adapter.n
    BY <1>1, <2>1, GoesFacts DEF Places, StopCalls
  <2> QED
    BY <1>1, <1>2, <1>4, <2>2, StopGoesOn DEF LaunchInv, L
<1> QED
  BY <1>3, <1>4 DEF GracefulStop, StopFails

\* The steps of send_graceful_term: the pidfd is of the process the number
\* belongs to, and one of another process never gets past the identity.
LEMMA TermInv ==
    ASSUME LaunchInv, TermMember \/ TermOpen \/ TermIdentify \/ TermRecheck
    PROVE  LaunchInv'
<1>1. /\ LaunchTypeOK /\ adapter.pc \in {"term", "pidfd", "identify", "recheck"}
      /\ UNCHANGED <<store, leader, kid, helper, cgroup, signalled>>
  BY DEF LaunchInv, TermMember, TermOpen, TermIdentify, TermRecheck, At, World
<1>2. L \in Nonce
  BY <1>1, LaunchCall DEF StopCalls
<1>3. ASSUME NEW pc \in {"idle", "pidfd", "force"}, Goes(pc)
      PROVE  LaunchInv'
  <2>1. adapter' \in AdapterRow /\ adapter'.pc = pc /\ adapter'.n = adapter.n
    BY <1>1, <1>3, GoesFacts DEF Places, StopCalls
  <2> QED
    BY <1>1, <1>2, <2>1, StopGoesOn DEF LaunchInv, L
<1>4. CASE TermOpen /\ adapter' = [adapter EXCEPT !.pc = "identify", !.pidfd = Occupant(L)]
           /\ Occupant(L) # "none"
  <2>1. Occupant(L) \in {"leader", "foreign"} /\ (Occupant(L) = "foreign" => ~Live(L))
    BY <1>4 DEF Occupant, Live
  <2>2. /\ adapter' \in AdapterRow /\ adapter'.pc = "identify" /\ adapter'.n = adapter.n
        /\ adapter'.pidfd = Occupant(L)
    BY <1>1, <1>4, <2>1, Zenon DEF LaunchTypeOK, AdapterRow, Places, StopCalls
  <2>3. adapter'.pidfd = "foreign" => ~Live(L)'
    BY <1>1, <2>1, <2>2 DEF Live, L
  <2>4. CallInv'
    BY <1>2, <2>2, <2>3, CallPlaces DEF L
  <2> QED
    BY <1>1, <2>2, <2>4, LookStep DEF LaunchInv
<1>5. ASSUME NEW pc \in {"recheck", "send"}, Goes(pc), adapter.pidfd # "foreign"
      PROVE  LaunchInv'
  <2>1. /\ adapter' \in AdapterRow /\ adapter'.pc = pc /\ adapter'.n = adapter.n
        /\ adapter'.pidfd = adapter.pidfd
    BY <1>1, <1>5, GoesFacts DEF Places, StopCalls
  <2>2. CallInv'
    BY <1>2, <1>5, <2>1, CallPlaces DEF L
  <2> QED
    BY <1>1, <2>1, <2>2, LookStep DEF LaunchInv
<1>6. CASE TermMember
  BY <1>3, <1>6 DEF TermMember, StopFails
<1>7. CASE TermOpen
  BY <1>3, <1>4, <1>7 DEF TermOpen
<1>8. CASE TermIdentify
  <2>1. adapter.pc = "identify" /\ (adapter.pidfd = "foreign" => ~Live(L))
    BY <1>8 DEF TermIdentify, At, LaunchInv, CallInv
  <2>2. RunsTarget(L) => adapter.pidfd # "foreign"
    BY <2>1 DEF RunsTarget, Live
  <2> QED
    BY <1>3, <1>5, <1>8, <2>2 DEF TermIdentify, StopFails
<1>9. CASE TermRecheck
  <2>1. adapter.pidfd # "foreign"
    BY <1>9 DEF TermRecheck, At, LaunchInv, CallInv
  <2> QED
    BY <1>3, <1>5, <1>9, <2>1 DEF TermRecheck, StopFails
<1> QED
  BY <1>6, <1>7, <1>8, <1>9

\* The TERM goes to the process the pidfd was opened for.
LEMMA TermSendInv ==
    ASSUME LaunchInv, TermSend
    PROVE  LaunchInv'
<1>1. /\ LaunchTypeOK /\ adapter.pc = "send" /\ adapter.pidfd # "foreign"
      /\ UNCHANGED <<store, leader, kid, helper, cgroup>>
  BY DEF LaunchInv, CallInv, TermSend, At, World
<1>2. L \in Nonce
  BY <1>1, LaunchCall DEF StopCalls
<1>3. signalled' # "foreign"
  BY <1>1 DEF TermSend
<1>4. PICK pc \in {"force", "wait"} : adapter' = [adapter EXCEPT !.pc = pc, !.pidfd = "none"]
  BY Zenon DEF TermSend
<1>5. adapter' \in AdapterRow /\ adapter'.pc = pc /\ adapter'.n = adapter.n
  BY <1>1, <1>4, Zenon DEF LaunchTypeOK, AdapterRow, Places, StopCalls
<1> QED
  BY <1>1, <1>2, <1>3, <1>5, StopGoesOn DEF L

\* A wait ends with an empty cgroup and a reaped child, or late.
LEMMA WaitForEmptyInv ==
    ASSUME LaunchInv, L \in Nonce, NEW late \in {"idle", "force"}, WaitForEmpty(late)
    PROVE  LaunchInv'
<1>1. LaunchTypeOK /\ Reap(L) /\ UNCHANGED <<store, kid, helper, signalled>>
  BY DEF LaunchInv, WaitForEmpty
<1>2. CASE Pids(L) = {} /\ ChildState(L) = "Exited" /\ Exited /\ Remove(L)
  BY <1>1, <1>2, ExitedStep
<1>3. CASE Goes(late) /\ UNCHANGED cgroup
  <2>1. adapter' \in AdapterRow /\ adapter'.pc = late /\ adapter'.n = adapter.n
    BY <1>1, <1>3, GoesFacts DEF Places, StopCalls
  <2> QED
    BY <1>1, <1>3, <2>1, StopGoesOn DEF LaunchInv, L
<1> QED
  BY <1>2, <1>3 DEF WaitForEmpty

\* A forced stop ends with an observed exit, kills the cgroup, or fails.
LEMMA ForceStopInv ==
    ASSUME LaunchInv, ForceStop
    PROVE  LaunchInv'
<1>1. /\ LaunchTypeOK /\ adapter.pc = "force" /\ UNCHANGED <<store, helper, signalled>>
  BY DEF LaunchInv, ForceStop, At
<1>2. L \in Nonce
  BY <1>1, LaunchCall DEF StopCalls
<1>3. CASE /\ ObservedChild(L) \in {"Exited", "Missing"}
           /\ Exited /\ CleanupIfEmpty(L) /\ Reap(L) /\ UNCHANGED kid
  BY <1>1, <1>2, <1>3, ExitedStep
<1>4. CASE /\ UNCHANGED cgroup
           /\ \/ Goes("idle") /\ UNCHANGED <<leader, kid>>
              \/ KillAll(L) /\ Goes("fwait")
  <2>1. PICK pc \in {"idle", "fwait"} : Goes(pc)
    BY <1>4
  <2>2. adapter' \in AdapterRow /\ adapter'.pc = pc /\ adapter'.n = adapter.n
    BY <1>1, <2>1, GoesFacts DEF Places, StopCalls
  <2> QED
    BY <1>1, <1>2, <1>4, <2>2, StopGoesOn DEF LaunchInv, L
<1> QED
  BY <1>3, <1>4 DEF ForceStop, StopFails

-----------------------------------------------------------------------------
(* The watchdog's end and its next start. *)

\* The kernel reaps what the watchdog leaves; what it held is nobody's.
LEMMA WatchdogDiesInv ==
    ASSUME LaunchInv, WatchdogDies
    PROVE  LaunchInv'
<1>1. /\ LaunchTypeOK /\ adapter' = Adapter("down")
      /\ UNCHANGED <<store, kid, helper, cgroup, signalled>>
  BY Zenon DEF LaunchInv, WatchdogDies
<1>2. adapter' \in AdapterRow /\ adapter'.pc = "down"
  BY <1>1 DEF Adapter, AdapterRow, Places
<1>3. ASSUME NEW n \in Nonce
      PROVE  leader'[n] \in LeaderRow /\ ~leader'[n].owned /\ RowStep(n)
  <2> DEFINE s == IF leader[n].state = "zombie" THEN "gone" ELSE leader[n].state
  <2>1. /\ s \in LeaderState
        /\ s # leader[n].state => leader[n].state = "zombie" /\ s = "gone"
    BY <1>1 DEF LaunchTypeOK, LeaderRow, LeaderState
  <2> DEFINE r == [leader[n] EXCEPT !.owned = FALSE, !.state = s]
  <2>2. leader'[n] = r
    BY Zenon DEF WatchdogDies
  <2> HIDE DEF s
  <2>3. /\ r \in LeaderRow /\ ~r.owned /\ r.state = s /\ r.in = leader[n].in
        /\ r.generation = leader[n].generation
    BY <1>1, <2>1, Zenon DEF LaunchTypeOK, LeaderRow
  <2> HIDE DEF r
  <2> QED
    BY <1>1, <2>1, <2>2, <2>3 DEF RowStep
<1>4. leader' \in [Nonce -> LeaderRow]
  <2>1. leader' = [n \in Nonce |-> leader'[n]]
    BY Zenon DEF WatchdogDies
  <2> QED
    BY <1>3, <2>1
<1>5. CallInv'
  BY <1>2, <1>3, CallPlaces
<1>6. LaunchTypeOK'
  BY <1>1, <1>2, <1>4 DEF LaunchTypeOK
<1> QED
  BY <1>1, <1>3, <1>5, <1>6, AdapterStep DEF LaunchInv

\* A new generation is written while no helper holds the slot.
LEMMA RestartInv ==
    ASSUME LaunchInv, Restart
    PROVE  LaunchInv'
<1>1. /\ LaunchTypeOK /\ adapter.pc = "down" /\ store.writer = NoLaunch
      /\ store' = [store EXCEPT !.generation = @ + 1]
      /\ UNCHANGED <<leader, kid, helper, cgroup, signalled>>
  BY DEF LaunchInv, Restart, At, World
<1>2. store' \in StoreRow /\ store'.intent = store.intent
  BY <1>1 DEF LaunchTypeOK, StoreRow
<1>3. adapter' \in AdapterRow /\ adapter'.pc = "recover"
  BY <1>1, GoesFacts DEF Places, Restart
<1>4. \A n \in Nonce : ~leader'[n].owned
  BY <1>1 DEF LaunchInv, CallInv
<1>5. CallInv'
  BY <1>3, <1>4, CallPlaces, Zenon
<1> QED
  BY <1>1, <1>2, <1>3, <1>5, WriteStep

\* The reconciliation takes up a prepared intent whose cgroup exists.
LEMMA RecoverInv ==
    ASSUME LaunchInv, Recover
    PROVE  LaunchInv'
<1>1. /\ LaunchTypeOK /\ adapter.pc = "recover"
      /\ UNCHANGED <<store, leader, kid, helper, cgroup, signalled>>
  BY Zenon DEF LaunchInv, Recover, At, World
<1>2. \A n \in Nonce : ~leader'[n].owned
  BY <1>1 DEF LaunchInv, CallInv
<1>3. CASE Goes("idle")
  <2>1. adapter' \in AdapterRow /\ adapter'.pc = "idle"
    BY <1>1, <1>3, GoesFacts DEF Places
  <2> QED
    BY <1>1, <2>1, CallPlaces, LookStep, Zenon DEF LaunchInv
<1>4. CASE \E n \in Nonce :
               adapter' = [adapter EXCEPT !.pc = "planned", !.n = n, !.uncertain = {n}]
  <2>1. adapter' \in AdapterRow /\ adapter'.pc = "planned" /\ adapter'.n \in Nonce
    <3>1. PICK n \in Nonce :
                adapter' = [adapter EXCEPT !.pc = "planned", !.n = n, !.uncertain = {n}]
      BY <1>4, Zenon
    <3>2. {n} \in SUBSET Nonce
      OBVIOUS
    <3> QED
      BY <1>1, <3>1, <3>2, Zenon DEF LaunchTypeOK, AdapterRow, Places
  <2>2. CallInv'
    BY <1>2, <2>1, CallPlaces, Zenon
  <2> QED
    BY <1>1, <2>1, <2>2, LookStep DEF LaunchInv
<1> QED
  BY <1>3, <1>4, Zenon DEF Recover

\* The cleanup of a planned containment kills what is in it.
LEMMA PlannedKillInv ==
    ASSUME LaunchInv, PlannedKill
    PROVE  LaunchInv'
<1>1. /\ LaunchTypeOK /\ adapter.pc = "planned"
      /\ UNCHANGED <<store, helper, cgroup, signalled>>
      /\ KillAll(L) \/ UNCHANGED <<leader, kid>>
  BY DEF LaunchInv, PlannedKill, At
<1>2. L \in Nonce /\ \A n \in Nonce : ~leader[n].owned
  BY <1>1 DEF LaunchInv, CallInv
<1>3. PICK pc \in {"idle", "drain"} : Goes(pc)
  BY DEF PlannedKill, StopFails
<1>4. adapter' \in AdapterRow /\ adapter'.pc = pc /\ adapter'.n = adapter.n
  BY <1>1, <1>3, GoesFacts DEF Places
<1>5. /\ leader' \in [Nonce -> LeaderRow] /\ kid' \in [Nonce -> {"none", "alive", "doomed"}]
      /\ \A m \in Nonce : RowStep(m) /\ leader'[m].owned = leader[m].owned
  BY <1>1, <1>2, KillFacts
<1>6. CallInv'
  BY <1>2, <1>4, <1>5, CallPlaces DEF L
<1>7. LaunchTypeOK'
  BY <1>1, <1>4, <1>5 DEF LaunchTypeOK
<1> QED
  BY <1>1, <1>5, <1>6, <1>7, AdapterStep DEF LaunchInv

\* It settles the intent only when the cgroup is empty; no handle is left to reap.
LEMMA PlannedDrainInv ==
    ASSUME LaunchInv, PlannedDrain
    PROVE  LaunchInv'
<1>1. /\ LaunchTypeOK /\ adapter.pc = "drain"
      /\ UNCHANGED <<store, leader, kid, helper, signalled>>
  BY DEF LaunchInv, PlannedDrain, At
<1>2. L \in Nonce /\ \A n \in Nonce : ~leader[n].owned
  BY <1>1 DEF LaunchInv, CallInv
<1>3. CASE StopFails /\ UNCHANGED cgroup
  <2>1. adapter' \in AdapterRow /\ adapter'.pc = "idle"
    BY <1>1, <1>3, GoesFacts DEF Places, StopFails
  <2> QED
    BY <1>1, <1>3, <2>1, CallPlaces, LookStep, Zenon DEF LaunchInv
<1>4. CASE /\ Pids(L) = {} /\ Remove(L)
           /\ adapter' = [adapter EXCEPT !.pc = "settle", !.uncertain = {}]
  <2>1. adapter' \in AdapterRow /\ adapter'.pc = "settle" /\ adapter'.n = adapter.n
    BY <1>1, <1>4, Zenon DEF LaunchTypeOK, AdapterRow, Places
  <2>2. kid[L] = "none" /\ leader[L].state # "target" /\ (Live(L) => ~leader[L].in)
    BY <1>2, <1>4, EmptyFacts
  <2>3. Quiet(L)' /\ (Live(L)' => ~leader'[adapter'.n].in)
    BY <1>1, <1>2, <2>1, <2>2 DEF Quiet, Live, L
  <2>4. CallInv'
    BY <1>2, <2>1, <2>3, CallPlaces, Zenon DEF L
  <2>5. /\ cgroup' \in [Nonce -> {"none", "dir"}]
        /\ \A m \in Nonce : cgroup[m] = "dir" => cgroup'[m] = "dir" \/ Pids(m) = {}
    BY <1>1, <1>2, <1>4, RemoveFacts
  <2>6. LaunchTypeOK' /\ \A m \in Nonce : RowStep(m)
    BY <1>1, <2>1, <2>5 DEF LaunchTypeOK, RowStep
  <2> QED
    BY <1>1, <2>4, <2>6, AdapterStep DEF LaunchInv
<1> QED
  BY <1>3, <1>4 DEF PlannedDrain

-----------------------------------------------------------------------------
(* The theorems. *)

\* Initially nothing was spawned and no call is in progress.
LEMMA LaunchInitInv ==
    ASSUME LaunchInit
    PROVE  LaunchInv
<1>1. store \in StoreRow /\ store.intent = [n \in Nonce |-> "none"]
  BY LaunchAssumption DEF LaunchInit, StoreRow, NoLaunch
<1>2. NoProcess \in LeaderRow
  BY DEF NoProcess, LeaderRow, LeaderState
<1>3. adapter \in AdapterRow /\ adapter.pc = "idle"
  BY Zenon DEF LaunchInit, Adapter, AdapterRow, Places
<1>4. LaunchTypeOK
  BY <1>1, <1>2, <1>3 DEF LaunchInit, LaunchTypeOK
<1>5. \A n \in Nonce : RowInv(n)
  BY <1>1 DEF LaunchInit, RowInv, Unspawned, ExecIsHeld, NoProcess
<1>6. CallInv
  BY <1>3 DEF CallInv, Calls, StopCalls
<1> QED
  BY <1>4, <1>5, <1>6 DEF LaunchInv, LaunchInit

\* Every step of the system keeps the invariant.
LEMMA LaunchNextInv ==
    ASSUME LaunchInv, [LaunchNext]_launchVars
    PROVE  LaunchInv'
<1>1. CASE UNCHANGED launchVars
  <2>1. \A n \in Nonce : RowStep(n)
    BY <1>1, RowStands DEF launchVars
  <2>2. CallInv'
    BY <1>1, <2>1, CallRowStep DEF launchVars, LaunchInv
  <2> QED
    BY <1>1, <2>2, LookStep DEF launchVars, LaunchInv, LaunchTypeOK
<1>2. CASE LaunchStep
  BY <1>2, PrepareLaunchInv, PreflightInv, CreateInv, SpawnInv, AssignInv, LooksInv,
     WaitForTargetInv, FinishLaunchInv, RecordActiveInv, CleanupKillInv, TerminateChildInv,
     ReapChildInv, CleanupProofInv, CleanIntentInv
  DEF LaunchStep
<1>3. CASE StopStep
  <2>1. CASE GracefulWait \/ ForceWait
    <3>1. L \in Nonce
      BY <2>1, LaunchCall DEF GracefulWait, ForceWait, At, StopCalls
    <3> QED
      BY <2>1, <3>1, WaitForEmptyInv DEF GracefulWait, ForceWait
  <2> QED
    BY <1>3, <2>1, InspectChildInv, GracefulStopInv, TermInv, TermSendInv, ForceStopInv
    DEF StopStep
<1>4. CASE RecoveryStep
  BY <1>4, RestartInv, RecoverInv, PlannedKillInv, PlannedDrainInv DEF RecoveryStep
<1>5. CASE WatchdogDies \/ SetLaunchMode
  BY <1>5, WatchdogDiesInv, SetLaunchModeInv
<1>6. ASSUME NEW n \in Nonce,
             HelperStep(n) \/ LeaderExits(n) \/ KidExits(n) \/ Fork(n) \/ Recycle(n)
      PROVE  LaunchInv'
  BY <1>6, QuietProcesses, LeaderExitsInv, ForkInv, AuthorizesInv, ExecsInv, Zenon DEF HelperStep
<1> QED
  BY <1>1, <1>2, <1>3, <1>4, <1>5, <1>6 DEF LaunchNext

\* The inductive invariant holds of every reachable state.
THEOREM LaunchInvariant == LaunchSpec => []LaunchInv
<1>1. LaunchInit => LaunchInv
  BY LaunchInitInv
<1>2. LaunchInv /\ [LaunchNext]_launchVars => LaunchInv'
  BY LaunchNextInv
<1> QED
  BY <1>1, <1>2, PTL DEF LaunchSpec

\* Whatever ends a launch - its own failure, a stop, or the cleanup a later
\* watchdog makes - the intent is cleaned only when no target and no descendant
\* of it is left and the helper was reaped, for any number of launches and of
\* watchdog generations.
THEOREM SettledLaunchesQuiet == LaunchSpec => []SettledIsQuiet
<1>1. LaunchInv => SettledIsQuiet
  BY DEF LaunchInv, RowInv, Quiet, SettledIsQuiet
<1> QED
  BY <1>1, LaunchInvariant, PTL

\* The TERM of a graceful stop reaches the process it was meant for or none:
\* the pidfd is opened before the identity behind the number is read.
THEOREM TermsReachOwner == LaunchSpec => []TermReachesOwner
<1>1. LaunchInv => TermReachesOwner
  BY DEF LaunchInv, TermReachesOwner
<1> QED
  BY <1>1, LaunchInvariant, PTL

-----------------------------------------------------------------------------
(* Who makes a target. *)

\* The step makes no target.
NoTarget == \A n \in Nonce : leader'[n].state = "target" => leader[n].state = "target"

\* The writes of a leader's row that leave what runs, or end it.
LEMMA NoTargetShapes ==
    ASSUME leader \in [Nonce -> LeaderRow], NEW x, NEW v,
           \/ leader' = leader
           \/ leader' = [leader EXCEPT ![x].in = v]
           \/ leader' = [leader EXCEPT ![x].doomed = v]
           \/ leader' = [leader EXCEPT ![x].recycled = v]
           \/ leader' = [leader EXCEPT ![x].state = v] /\ v # "target"
    PROVE  NoTarget
<1> SUFFICES ASSUME NEW n \in Nonce, leader'[n].state = "target"
             PROVE  leader[n].state = "target"
  BY DEF NoTarget
<1>1. leader[n] \in LeaderRow
  OBVIOUS
<1>2. CASE n # x
  BY <1>2
<1>3. CASE n = x
  BY <1>1, <1>3 DEF LeaderRow
<1> QED
  BY <1>2, <1>3

\* A reap ends a process.
LEMMA NoTargetReap ==
    ASSUME leader \in [Nonce -> LeaderRow], NEW x \in Nonce \cup {NoLaunch}, Reap(x)
    PROVE  NoTarget
<1>1. CASE x \in adapter.children /\ leader[x].state = "zombie"
  <2>1. leader' = [leader EXCEPT ![x].state = "gone"]
    BY <1>1 DEF Reap
  <2> QED
    BY <2>1 DEF NoTarget, LeaderRow
<1>2. CASE ~(x \in adapter.children /\ leader[x].state = "zombie")
  <2>1. leader' = [leader EXCEPT ![x].state = leader[x].state]
    BY <1>2, Zenon DEF Reap
  <2> QED
    BY <2>1 DEF NoTarget, LeaderRow
<1> QED
  BY <1>1, <1>2

\* No call of the adapter does.
LEMMA NoTargetAdapter ==
    ASSUME LaunchInv, LaunchStep \/ StopStep \/ RecoveryStep \/ WatchdogDies \/ SetLaunchMode
    PROVE  NoTarget
<1>1. leader \in [Nonce -> LeaderRow] /\ L \in Nonce \cup {NoLaunch}
  BY DEF LaunchInv, LaunchTypeOK, AdapterRow, L
<1>2. CASE leader' = leader
  BY <1>1, <1>2, NoTargetShapes
<1>3. CASE Spawn
  <2> DEFINE r == [NoProcess EXCEPT !.state = "helper", !.owned = TRUE,
                                    !.generation = store.generation]
  <2>1. leader' = leader \/ leader' = [leader EXCEPT ![L] = r]
    BY <1>3 DEF Spawn
  <2>2. r.state = "helper"
    BY DEF NoProcess
  <2> HIDE DEF r
  <2> QED
    BY <1>1, <2>1, <2>2 DEF NoTarget
<1>4. CASE \/ Assign \/ WaitForTarget \/ TerminateChild \/ ReapChild
  BY <1>1, <1>4, NoTargetShapes DEF Assign, WaitForTarget, TerminateChild, ReapChild
<1>5. CASE \/ KillAll(L) \/ UNCHANGED leader
  BY <1>1, <1>5, NoTargetShapes DEF KillAll
<1>6. CASE CleanupProof
  BY <1>1, <1>6, NoTargetShapes DEF CleanupProof
<1>7. CASE Reap(L) \/ \E n \in Nonce : Reap(n)
  BY <1>1, <1>7, NoTargetReap
<1>8. CASE WatchdogDies
  <2> SUFFICES ASSUME NEW n \in Nonce, leader'[n].state = "target"
               PROVE  leader[n].state = "target"
    BY DEF NoTarget
  <2>1. leader[n] \in LeaderRow
    BY <1>1
  <2>2. leader'[n] = [leader[n] EXCEPT !.owned = FALSE,
                          !.state = IF leader[n].state = "zombie" THEN "gone" ELSE leader[n].state]
    BY <1>8, Zenon DEF WatchdogDies
  <2> QED
    BY <2>1, <2>2 DEF LeaderRow
<1>9. CASE LaunchStep
  <2>1. \/ UNCHANGED leader \/ Spawn \/ Assign \/ WaitForTarget \/ TerminateChild \/ ReapChild
        \/ KillAll(L) \/ CleanupProof
    BY <1>9, Zenon
    DEF LaunchStep, PrepareLaunch, Preflight, Create, Verify, SendRequest, WaitForReady,
        SendGo, SendBootstrap, FinishLaunch, RecordActive, CleanupKill, CleanIntent, World
  <2> QED
    BY <1>2, <1>3, <1>4, <1>5, <1>6, <2>1
<1>10. CASE StopStep
  <2>1. UNCHANGED leader \/ Reap(L) \/ KillAll(L) \/ \E n \in Nonce : Reap(n)
    BY <1>10
    DEF StopStep, InspectChild, GracefulStop, TermMember, TermOpen, TermIdentify, TermRecheck,
        TermSend, GracefulWait, ForceWait, WaitForEmpty, ForceStop, World
  <2> QED
    BY <1>5, <1>7, <2>1
<1>11. CASE RecoveryStep
  <2>1. UNCHANGED leader \/ KillAll(L)
    BY <1>11, Zenon DEF RecoveryStep, Restart, Recover, PlannedKill, PlannedDrain, World
  <2> QED
    BY <1>5, <2>1
<1>12. CASE SetLaunchMode
  BY <1>2, <1>12 DEF SetLaunchMode, World
<1> QED
  BY <1>8, <1>9, <1>10, <1>11, <1>12

\* Only the exec of a helper makes a target, and of its own launch.
LEMMA TargetIsExeced ==
    ASSUME LaunchInv, [LaunchNext]_launchVars, NEW n \in Nonce,
           leader[n].state = "helper", leader'[n].state = "target"
    PROVE  helper[n] = "exec"
<1>1. leader \in [Nonce -> LeaderRow]
  BY DEF LaunchInv, LaunchTypeOK
<1>2. ~NoTarget
  BY DEF NoTarget
<1>3. leader' # leader
  BY <1>1, <1>2 DEF NoTarget
<1>4. PICK m \in Nonce :
          HelperStep(m) \/ LeaderExits(m) \/ KidExits(m) \/ Fork(m) \/ Recycle(m)
  BY <1>2, <1>3, NoTargetAdapter DEF LaunchNext, launchVars
<1>5. ~LeaderExits(m)
  <2> SUFFICES ASSUME LeaderExits(m) PROVE FALSE
    OBVIOUS
  <2> DEFINE s == IF leader[m].owned THEN "zombie" ELSE "gone"
             r == [leader[m] EXCEPT !.state = s, !.in = FALSE, !.doomed = FALSE]
  <2>1. leader' = [leader EXCEPT ![m] = r]
    BY Zenon DEF LeaderExits
  <2>2. s # "target"
    OBVIOUS
  <2> HIDE DEF s
  <2>3. r.state = s
    BY <1>1 DEF LeaderRow
  <2> HIDE DEF r
  <2> QED
    BY <1>1, <2>1, <2>2, <2>3
<1>6. ~Recycle(m)
  BY <1>1, <1>2, NoTargetShapes DEF Recycle
<1>7. HelperExecs(m)
  BY <1>3, <1>4, <1>5, <1>6
  DEF HelperStep, HelperStarts, HelperReadsRequest, HelperReadsGo, HelperAuthorizes, KidExits, Fork
<1>8. m = n
  BY <1>1, <1>7 DEF HelperExecs
<1> QED
  BY <1>7, <1>8 DEF HelperExecs, HelperAt

\* A helper becomes its target only under the rows that let it: the writer slot
\* it took when it read them is held until its exec, so no stop, no death and no
\* new generation comes between.
THEOREM ExecsAuthorized == LaunchSpec => ExecIsAuthorized
<1> DEFINE A == \A n \in Nonce :
                   leader[n].state = "helper" /\ leader'[n].state = "target" =>
                      /\ store.mode = "Running"
                      /\ store.generation = leader[n].generation
                      /\ store.intent[n] = "prepared"
                      /\ Existing(n) /\ leader[n].in
<1>1. LaunchInv /\ [LaunchNext]_launchVars => A
  <2> SUFFICES ASSUME LaunchInv, [LaunchNext]_launchVars, NEW n \in Nonce,
                      leader[n].state = "helper", leader'[n].state = "target"
               PROVE  /\ store.mode = "Running"
                      /\ store.generation = leader[n].generation
                      /\ store.intent[n] = "prepared"
                      /\ Existing(n) /\ leader[n].in
    OBVIOUS
  <2>1. helper[n] = "exec"
    BY TargetIsExeced
  <2>2. ExecIsHeld(n)
    BY DEF LaunchInv, RowInv
  <2> QED
    BY <2>1, <2>2 DEF ExecIsHeld, Existing
<1>2. LaunchInv /\ [LaunchNext]_launchVars => [A]_launchVars
  BY <1>1
<1> QED
  BY <1>2, LaunchInvariant, PTL DEF LaunchSpec, ExecIsAuthorized
================================================================================
