----------------------------- MODULE PlatformProofs -----------------------------
(***************************************************************************)
(* What the platforms do to start and end processes: the Windows launch    *)
(* with its job objects, the handoff from the Linux helper to its target,  *)
(* and the process group of a portable child.  They share no variable.     *)
(* Each section has the types of its part, the invariant that its actions  *)
(* keep, a lemma for every group of actions, and the theorems.             *)
(***************************************************************************)
EXTENDS WindowsLaunch, LinuxHandoff, ChildGroup, TLAPS

-----------------------------------------------------------------------------
(* The Windows launch.  Every job that a launch made and did not settle is *)
(* held, condemned, or will be closed by its last handle.                  *)

ProcRow == [state : {"none", "suspended", "running", "gone"}, doomed : BOOLEAN,
            runs : BOOLEAN, generation : Nat]
KidState == {"none", "alive", "doomed"}
JobRow == [named : BOOLEAN, handles : SUBSET {"live", "dying"}, killOnClose : BOOLEAN]

NoCall   == {"idle", "recover", "down"}
Starting == {"guard", "barrier", "session", "job", "create"}
Later    == {"bootstrap", "barrier2", "identity", "admit", "winrecord", "condemn", "drained",
             "planned", "winstop", "winwait"}
CallPc   == Starting \cup Later \cup {"resume", "winsettle"}

StoreRow == [mode : {"Running", "Stopped"}, generation : Nat, writer : {"free", "launch"},
             intent : [WinNonce -> {"none", "prepared", "active", "cleaned"}],
             kind : {"plain", "worker", "gateway"}]
ImageRow == [path : ImageFile, approved : [ImageFile -> BOOLEAN],
             held : [WinNonce -> ImageFile \cup {NoFile}], changes : Nat]
ThreadRow == [pc : NoCall \cup CallPc, n : Nat, file : ImageFile \cup {NoFile},
              owners : SUBSET WinNonce, todo : SUBSET WinNonce]

WinTypeOK ==
    /\ winStore \in StoreRow
    /\ winProc \in [WinNonce -> ProcRow]
    /\ winKid \in [WinNonce -> KidState]
    /\ job \in [WinNonce -> JobRow]
    /\ image \in ImageRow
    /\ launcher \in ThreadRow

Unborn(n) == winProc[n].state = "none" /\ winKid[n] = "none"
Calm(n) == ("leader" \in Active(n) => winProc[n].doomed) /\ winKid[n] # "alive"

\* Every process that is not condemned is in a job that would condemn it.
RowsInv ==
    \A n \in WinNonce :
        /\ job[n].killOnClose = job[n].named
        /\ ~Calm(n) => job[n].named
        /\ winStore.intent[n] = "none" => Unborn(n)
        /\ winStore.intent[n] = "cleaned" => Calm(n)
        /\ winProc[n].state # "none" => winProc[n].runs

\* What the call in progress has established.
CallInv ==
    /\ launcher.pc \in CallPc => N \in WinNonce
    /\ launcher.pc \in Starting => winStore.intent[N] = "prepared" /\ Unborn(N)
    /\ launcher.pc \in Starting \ {"guard"} =>
          image.held[N] = image.path /\ image.approved[image.path]
    /\ launcher.pc = "create" => job[N].named /\ "live" \in job[N].handles
    /\ launcher.pc = "winsettle" => Calm(N)
    /\ launcher.pc = "resume" /\ winStore.kind # "plain" =>
          winStore.writer = "launch" /\ Admitted

WinInv == WinTypeOK /\ RowsInv /\ CallInv

\* A step that creates no process and revives none.
ProcsKept ==
    /\ winProc' \in [WinNonce -> ProcRow]
    /\ winKid' \in [WinNonce -> KidState]
    /\ \A n \in WinNonce :
          /\ winProc'[n].runs = winProc[n].runs
          /\ winProc'[n].generation = winProc[n].generation
          /\ winProc'[n].state # "none" => winProc[n].state # "none"
          /\ Unborn(n) => Unborn(n)'
          /\ Calm(n) => Calm(n)'

\* A step that ends no job with a process in it that is not condemned.
JobsKept ==
    /\ job' \in [WinNonce -> JobRow]
    /\ \A n \in WinNonce : /\ job'[n].killOnClose = job'[n].named
                           /\ job[n].named => job'[n].named \/ Calm(n)'

\* A step that leaves the processes alone keeps what is said of them.
LEMMA ProcsUnchanged ==
  ASSUME WinTypeOK, UNCHANGED <<winProc, winKid>> PROVE ProcsKept
  BY DEF WinTypeOK, ProcsKept, Unborn, Calm, Active

\* A step that leaves the jobs alone keeps what is said of them.
LEMMA JobsUnchanged ==
  ASSUME WinTypeOK, RowsInv, UNCHANGED job PROVE JobsKept
  BY DEF WinTypeOK, RowsInv, JobsKept

\* Records, processes and jobs stay in agreement when each of them is kept.
LEMMA RowsKept ==
  ASSUME RowsInv, ProcsKept, JobsKept,
         \A n \in WinNonce :
            /\ winStore'.intent[n] = "none" => winStore.intent[n] = "none"
            /\ winStore'.intent[n] = "cleaned" => winStore.intent[n] = "cleaned" \/ Calm(n)
  PROVE  RowsInv'
  <1> SUFFICES ASSUME NEW n \in WinNonce
               PROVE  /\ job'[n].killOnClose = job'[n].named
                      /\ ~Calm(n)' => job'[n].named
                      /\ winStore'.intent[n] = "none" => Unborn(n)'
                      /\ winStore'.intent[n] = "cleaned" => Calm(n)'
                      /\ winProc'[n].state # "none" => winProc'[n].runs
    BY DEF RowsInv, Calm, Unborn, Active
  <1> QED BY DEF RowsInv, ProcsKept, JobsKept

\* Condemning the members of a job leaves none that is not condemned.
LEMMA CondemnFacts ==
  ASSUME WinTypeOK, NEW n \in WinNonce, Condemn(n) PROVE ProcsKept /\ Calm(n)'
  <1> DEFINE row == [winProc[n] EXCEPT !.doomed = @ \/ "leader" \in Active(n)]
  <1>1. winProc \in [WinNonce -> ProcRow] /\ winKid \in [WinNonce -> KidState]
    BY DEF WinTypeOK
  <1>2. winProc' = [winProc EXCEPT ![n] = row]
    BY DEF Condemn
  <1>3. /\ row \in ProcRow /\ row.state = winProc[n].state /\ row.runs = winProc[n].runs
        /\ row.generation = winProc[n].generation
        /\ row.doomed <=> winProc[n].doomed \/ "leader" \in Active(n)
    BY <1>1, Zenon DEF ProcRow
  <1>4. /\ winProc' \in [WinNonce -> ProcRow] /\ winProc'[n] = row
        /\ \A m \in WinNonce \ {n} : winProc'[m] = winProc[m]
    BY <1>1, <1>2, <1>3
  <1>5. /\ winKid' \in [WinNonce -> KidState] /\ winKid'[n] # "alive"
        /\ winKid[n] = "none" => winKid'[n] = "none"
        /\ \A m \in WinNonce \ {n} : winKid'[m] = winKid[m]
    BY <1>1 DEF Condemn, KidState
  <1>6. Calm(n)' /\ (Unborn(n) => Unborn(n)')
    BY <1>3, <1>4, <1>5 DEF Calm, Unborn, Active
  <1>7. \A m \in WinNonce \ {n} : (Calm(m) => Calm(m)') /\ (Unborn(m) => Unborn(m)')
    BY <1>4, <1>5 DEF Calm, Unborn, Active
  <1> QED BY <1>3, <1>4, <1>5, <1>6, <1>7, Zenon DEF ProcsKept

\* Closing a handle, the last of a job included.
LEMMA CloseJobFacts ==
  ASSUME WinTypeOK, RowsInv, NEW n \in WinNonce, NEW who \in {"live", "dying"}, CloseJob(n, who)
  PROVE  /\ ProcsKept /\ JobsKept
         /\ \A m \in WinNonce : "live" \in job[m].handles /\ job[m].named /\ (who = "dying" \/ m # n)
                => "live" \in job'[m].handles /\ job'[m].named
  <1>1. job \in [WinNonce -> JobRow] /\ NoJob \in JobRow /\ ~NoJob.named /\ NoJob.killOnClose = NoJob.named
    BY DEF WinTypeOK, NoJob, JobRow
  <1>2. CASE job[n].handles \subseteq {who}
    <2>1. /\ job' \in [WinNonce -> JobRow] /\ job'[n] = NoJob
          /\ \A m \in WinNonce \ {n} : job'[m] = job[m]
      BY <1>1, <1>2 DEF CloseJob
    <2>2. CASE job[n].killOnClose
      <3>1. ProcsKept /\ Calm(n)'
        BY <1>2, <2>2, CondemnFacts DEF CloseJob
      <3>2. JobsKept
        BY <1>1, <2>1, <3>1 DEF JobsKept, RowsInv
      <3> QED BY <1>2, <2>1, <3>1, <3>2
    <2>3. CASE ~job[n].killOnClose
      <3>1. UNCHANGED <<winProc, winKid>> /\ ProcsKept
        BY <1>2, <2>3, ProcsUnchanged DEF CloseJob
      <3>2. Calm(n)'
        BY <2>3, <3>1 DEF RowsInv, ProcsKept
      <3>3. JobsKept
        BY <1>1, <2>1, <3>2 DEF JobsKept, RowsInv
      <3> QED BY <1>2, <2>1, <3>1, <3>3
    <2> QED BY <2>2, <2>3
  <1>3. CASE ~(job[n].handles \subseteq {who})
    <2>1. UNCHANGED <<winProc, winKid>> /\ ProcsKept
      BY <1>3, ProcsUnchanged DEF CloseJob
    <2> DEFINE row == [job[n] EXCEPT !.handles = @ \ {who}]
    <2>2. /\ row \in JobRow /\ row.named = job[n].named /\ row.killOnClose = job[n].killOnClose
          /\ row.handles = job[n].handles \ {who}
      BY <1>1 DEF JobRow
    <2>3. job' = [job EXCEPT ![n] = row]
      BY <1>3 DEF CloseJob
    <2>4. /\ job' \in [WinNonce -> JobRow] /\ job'[n] = row
          /\ \A m \in WinNonce \ {n} : job'[m] = job[m]
      BY <1>1, <2>2, <2>3
    <2>5. JobsKept
      BY <2>2, <2>4, Zenon DEF JobsKept, RowsInv
    <2> QED BY <2>1, <2>2, <2>4, <2>5, Zenon
  <1> QED BY <1>2, <1>3

SameIntents == \A n \in WinNonce : winStore'.intent[n] = winStore.intent[n]

\* What a step has to show to keep the invariant of the Windows launch.
LEMMA WinStepInv ==
  ASSUME WinInv, ProcsKept, JobsKept, winStore' \in StoreRow, image' \in ImageRow,
         launcher' \in ThreadRow, CallInv',
         SameIntents \/ \A n \in WinNonce :
            /\ winStore'.intent[n] = "none" => winStore.intent[n] = "none"
            /\ winStore'.intent[n] = "cleaned" => winStore.intent[n] = "cleaned" \/ Calm(n)
  PROVE  WinInv'
  <1>1. RowsInv'
    BY RowsKept DEF WinInv, SameIntents
  <1>2. WinTypeOK'
    BY DEF WinTypeOK, ProcsKept, JobsKept
  <1> QED BY <1>1, <1>2 DEF WinInv

\* Where a call goes that has established nothing, or is over.
LEMMA PlainCall ==
  ASSUME launcher'.pc \in NoCall \/ (launcher'.pc \in Later /\ launcher'.n \in WinNonce)
  PROVE  CallInv'
  BY DEF CallInv, NoCall, Later, Starting, CallPc, N

\* A call that moves on stays with its launch.
LEMMA GoesFacts ==
  ASSUME WinTypeOK, NEW pc \in NoCall \cup CallPc, WinGoes(pc)
  PROVE  /\ launcher' \in ThreadRow /\ launcher'.pc = pc /\ launcher'.n = launcher.n
  BY DEF WinTypeOK, ThreadRow, WinGoes

\* A step of the surroundings: what the call has established still holds.
LEMMA AroundCall ==
  ASSUME WinInv, UNCHANGED launcher, ProcsKept, SameIntents,
         winStore'.kind = winStore.kind, winStore'.generation = winStore.generation,
         winStore.writer = "launch" => winStore'.mode = winStore.mode /\ winStore'.writer = "launch",
         \A n \in WinNonce : image.held[n] = image.path /\ image.approved[image.path] =>
            image'.held[n] = image'.path /\ image'.approved[image'.path],
         \A n \in WinNonce : job[n].named /\ "live" \in job[n].handles =>
            job'[n].named /\ "live" \in job'[n].handles
  PROVE  CallInv'
  <1>1. CASE N \in WinNonce
    <2>1. N' = N
      BY DEF N
    <2>2. launcher.pc \in Starting => winStore'.intent[N] = "prepared" /\ Unborn(N)'
      BY <1>1, <2>1 DEF WinInv, CallInv, SameIntents, ProcsKept, Unborn
    <2>3. launcher.pc \in Starting \ {"guard"} =>
              image'.held[N] = image'.path /\ image'.approved[image'.path]
      BY <1>1 DEF WinInv, CallInv
    <2>4. launcher.pc = "create" => job'[N].named /\ "live" \in job'[N].handles
      BY <1>1 DEF WinInv, CallInv
    <2>5. launcher.pc = "winsettle" => Calm(N)'
      BY <1>1, <2>1 DEF WinInv, CallInv, ProcsKept, Calm, Active
    <2>6. launcher.pc = "resume" /\ winStore.kind # "plain" =>
              winStore'.writer = "launch" /\ Admitted'
      BY <1>1, <2>1 DEF WinInv, CallInv, ProcsKept, SameIntents, Admitted
    <2> QED BY <1>1, <2>1, <2>2, <2>3, <2>4, <2>5, <2>6 DEF CallInv
  <1>2. CASE N \notin WinNonce
    <2>1. launcher.pc \in NoCall
      BY <1>2 DEF WinInv, CallInv, WinTypeOK, ThreadRow
    <2> QED BY <2>1, PlainCall
  <1> QED BY <1>1, <1>2

\* The end of a launch, of a planned containment or of a stop: the handles are
\* dropped.
LEMMA HandlesDropped ==
  ASSUME WinInv, N \in WinNonce, UNCHANGED winStore, ReleaseImage(N), CloseJob(N, "live"),
         launcher' \in ThreadRow, launcher'.n = launcher.n,
         launcher'.pc \in NoCall \/ (launcher'.pc = "winsettle" /\ Calm(N))
  PROVE  WinInv'
  <1>1. WinTypeOK /\ RowsInv
    BY DEF WinInv
  <1>2. ProcsKept /\ JobsKept
    BY <1>1, CloseJobFacts
  <1>3. image' \in ImageRow
    BY <1>1 DEF ReleaseImage, WinTypeOK, ImageRow
  <1>4. winStore' \in StoreRow /\ SameIntents
    BY <1>1 DEF WinTypeOK, SameIntents
  <1>5. CallInv'
    <2>1. CASE launcher'.pc \in NoCall
      BY <2>1, PlainCall
    <2>2. CASE launcher'.pc = "winsettle" /\ Calm(N)
      <3>1. N' = N /\ Calm(N)'
        BY <1>2, <2>2 DEF ProcsKept, N, Calm, Active
      <3> QED BY <2>2, <3>1 DEF CallInv, Starting
    <2> QED BY <2>1, <2>2
  <1> QED BY <1>2, <1>3, <1>4, <1>5, WinStepInv

\* A call that ends leaves its launch calm, recorded as uncertain, or in the drain.
LEMMA CallEnds ==
  ASSUME WinInv, launcher.pc \in CallPc, UNCHANGED winStore,
         \/ Ordinary /\ Calm(N)
         \/ Uncertain
  PROVE  WinInv'
  <1>1. N \in WinNonce /\ WinTypeOK
    BY DEF WinInv, CallInv
  <1>2. CloseJob(N, "live") /\ ReleaseImage(N)
    BY DEF Ordinary, Uncertain
  <1>3. /\ launcher' \in ThreadRow /\ launcher'.n = launcher.n
        /\ launcher'.pc \in NoCall \/ (launcher'.pc = "winsettle" /\ Calm(N))
    <2>1. Quiet \in NoCall
      BY DEF Quiet, NoCall
    <2> QED BY <1>1, <2>1, GoesFacts DEF Ordinary, Uncertain, CallPc
  <1> QED BY <1>1, <1>2, <1>3, HandlesDropped

\* Files are changed only where no guard holds them.
LEMMA FilesInv == ASSUME WinInv, WriteFile \/ ReplaceFile PROVE WinInv'
  <1>1. WinTypeOK /\ RowsInv /\ image \in ImageRow
    BY DEF WinInv, WinTypeOK
  <1>2. UNCHANGED <<winStore, winProc, winKid, job, launcher>>
    BY Zenon DEF WriteFile, ReplaceFile, Changed
  <1>3. /\ image' \in ImageRow
        /\ \A n \in WinNonce : image.held[n] = image.path /\ image.approved[image.path] =>
              image'.held[n] = image'.path /\ image'.approved[image'.path]
    <2>1. image.changes + 1 \in Nat
      BY <1>1 DEF ImageRow
    <2>2. CASE WriteFile
      <3>1. PICK f \in ImageFile :
                /\ Free(f)
                /\ image' = [[image EXCEPT !.approved[f] = ~@] EXCEPT !.changes = image.changes + 1]
        BY <2>2, <1>1, Zenon DEF WriteFile, Changed, ImageRow
      <3>2. /\ image' \in ImageRow /\ image'.held = image.held /\ image'.path = image.path
            /\ \A g \in ImageFile \ {f} : image'.approved[g] = image.approved[g]
        BY <1>1, <2>1, <3>1, Zenon DEF ImageRow
      <3> QED BY <1>1, <3>1, <3>2 DEF Free, ImageRow
    <2>3. CASE ReplaceFile
      <3>1. PICK f \in ImageFile :
                image' = [[image EXCEPT !.path = f] EXCEPT !.changes = image.changes + 1]
        BY <2>3, <1>1, Zenon DEF ReplaceFile, Changed, ImageRow
      <3>2. image' \in ImageRow
        BY <1>1, <2>1, <3>1, Zenon DEF ImageRow
      <3> QED BY <2>3, <3>2 DEF ReplaceFile, Free
    <2> QED BY <2>2, <2>3
  <1>4. ProcsKept /\ JobsKept /\ SameIntents
    BY <1>1, <1>2, ProcsUnchanged, JobsUnchanged DEF SameIntents
  <1>5. CallInv'
    BY <1>2, <1>3, <1>4, AroundCall
  <1>6. winStore' \in StoreRow /\ launcher' \in ThreadRow
    BY <1>1, <1>2 DEF WinTypeOK
  <1> QED BY <1>3, <1>4, <1>5, <1>6, WinStepInv

\* Processes exit and fork without the supervisor.
LEMMA ProcessesInv ==
  ASSUME WinInv, NEW n \in WinNonce, WinExits(n) \/ WinKidExits(n) \/ WinForks(n)
  PROVE  WinInv'
  <1>1. WinTypeOK /\ RowsInv /\ winProc \in [WinNonce -> ProcRow] /\ winKid \in [WinNonce -> KidState]
    BY DEF WinInv, WinTypeOK
  <1>2. UNCHANGED <<winStore, job, image, launcher>>
    BY DEF WinExits, WinKidExits, WinForks
  <1>3. ProcsKept
    <2>1. CASE WinExits(n)
      <3> DEFINE row == [winProc[n] EXCEPT !.state = "gone", !.doomed = FALSE]
      <3>1. /\ row \in ProcRow /\ row.state = "gone" /\ row.runs = winProc[n].runs
            /\ row.generation = winProc[n].generation
        BY <1>1, Zenon DEF ProcRow
      <3>2. winProc' = [winProc EXCEPT ![n] = row] /\ UNCHANGED winKid
        BY <1>1, <2>1, Zenon DEF WinExits, ProcRow
      <3>3. /\ winProc' \in [WinNonce -> ProcRow] /\ winProc'[n] = row
            /\ \A m \in WinNonce \ {n} : winProc'[m] = winProc[m]
        BY <1>1, <3>1, <3>2
      <3>4. winProc[n].state # "none"
        BY <2>1 DEF WinExits, Active
      <3> HIDE DEF row
      <3>5. \A m \in WinNonce : (Unborn(m) => Unborn(m)') /\ (Calm(m) => Calm(m)')
        BY <3>1, <3>2, <3>3, <3>4 DEF Unborn, Calm, Active
      <3> QED BY <1>1, <3>1, <3>2, <3>3, <3>4, <3>5 DEF ProcsKept
    <2>2. CASE WinKidExits(n) \/ WinForks(n)
      <3>1. /\ UNCHANGED winProc /\ winKid' \in [WinNonce -> KidState]
            /\ \A m \in WinNonce \ {n} : winKid'[m] = winKid[m]
            /\ \/ winKid'[n] = "none"
               \/ winProc[n].state = "running" /\ ~winProc[n].doomed
        BY <1>1, <2>2 DEF WinKidExits, WinForks, KidState
      <3>2. \A m \in WinNonce : (Unborn(m) => Unborn(m)') /\ (Calm(m) => Calm(m)')
        BY <3>1 DEF Unborn, Calm, Active
      <3> QED BY <1>1, <3>1, <3>2 DEF ProcsKept
    <2> QED BY <2>1, <2>2
  <1>4. JobsKept /\ SameIntents
    BY <1>1, <1>2, JobsUnchanged DEF SameIntents
  <1>5. CallInv'
    BY <1>2, <1>3, <1>4, AroundCall
  <1>6. winStore' \in StoreRow /\ launcher' \in ThreadRow /\ image' \in ImageRow
    BY <1>1, <1>2 DEF WinTypeOK
  <1> QED BY <1>3, <1>4, <1>5, <1>6, WinStepInv

\* The last handle of a supervisor that died is closed by the system.
LEMMA OldHandleInv == ASSUME WinInv, NEW n \in WinNonce, OldHandleCloses(n) PROVE WinInv'
  <1>1. WinTypeOK /\ RowsInv
    BY DEF WinInv
  <1>2. CloseJob(n, "dying") /\ UNCHANGED <<winStore, image, launcher>>
    BY DEF OldHandleCloses
  <1>3. /\ ProcsKept /\ JobsKept /\ SameIntents
        /\ \A m \in WinNonce : "live" \in job[m].handles /\ job[m].named =>
              "live" \in job'[m].handles /\ job'[m].named
    BY <1>1, <1>2, CloseJobFacts DEF SameIntents
  <1>4. CallInv'
    BY <1>2, <1>3, AroundCall
  <1>5. winStore' \in StoreRow /\ launcher' \in ThreadRow /\ image' \in ImageRow
    BY <1>1, <1>2 DEF WinTypeOK
  <1> QED BY <1>3, <1>4, <1>5, WinStepInv

\* A Stop waits for the reservation.
LEMMA SetModeInv == ASSUME WinInv, WinSetMode PROVE WinInv'
  <1>1. WinTypeOK /\ RowsInv
    BY DEF WinInv
  <1>2. /\ winStore.writer = "free" /\ UNCHANGED <<launcher, winProc, winKid, job, image>>
        /\ \E m \in {"Running", "Stopped"} : winStore' = [winStore EXCEPT !.mode = m]
    BY DEF WinSetMode, Unmoved
  <1>3. /\ winStore' \in StoreRow /\ winStore'.kind = winStore.kind
        /\ winStore'.generation = winStore.generation /\ winStore'.intent = winStore.intent
    BY <1>1, <1>2 DEF WinTypeOK, StoreRow
  <1>4. ProcsKept /\ JobsKept /\ SameIntents
    BY <1>1, <1>2, <1>3, ProcsUnchanged, JobsUnchanged DEF SameIntents
  <1>5. CallInv'
    BY <1>2, <1>3, <1>4, AroundCall
  <1>6. launcher' \in ThreadRow /\ image' \in ImageRow
    BY <1>1, <1>2 DEF WinTypeOK
  <1> QED BY <1>3, <1>4, <1>5, <1>6, WinStepInv

\* A step of the thread that changes no row and no object.
LEMMA ThreadInv ==
  ASSUME WinInv, UNCHANGED <<winStore, winProc, winKid, job, image>>,
         launcher' \in ThreadRow, CallInv'
  PROVE  WinInv'
  <1>1. WinTypeOK /\ RowsInv
    BY DEF WinInv
  <1>2. ProcsKept /\ JobsKept /\ SameIntents
    BY <1>1, ProcsUnchanged, JobsUnchanged DEF SameIntents
  <1>3. winStore' \in StoreRow /\ image' \in ImageRow
    BY <1>1 DEF WinTypeOK
  <1> QED BY <1>2, <1>3, WinStepInv

\* A launch without a process has nothing that runs.
LEMMA UnbornIsCalm == ASSUME NEW n, Unborn(n) PROVE Calm(n)
  BY DEF Unborn, Calm, Active

\* A launch is prepared under a nonce that no record has.
LEMMA PrepareInv == ASSUME WinInv, WinPrepare PROVE WinInv'
  <1>1. WinTypeOK /\ RowsInv
    BY DEF WinInv
  <1>2. PICK n \in WinNonce :
            /\ winStore.intent[n] = "none"
            /\ winStore' = [winStore EXCEPT !.intent[n] = "prepared"]
            /\ launcher' = [launcher EXCEPT !.pc = "guard", !.n = n]
    BY Zenon DEF WinPrepare
  <1>3. UNCHANGED <<winProc, winKid, job, image>>
    BY DEF WinPrepare, Unmoved
  <1>4. /\ winStore' \in StoreRow /\ winStore'.intent[n] = "prepared"
        /\ \A m \in WinNonce \ {n} : winStore'.intent[m] = winStore.intent[m]
    BY <1>1, <1>2 DEF WinTypeOK, StoreRow
  <1>5. n \in Nat
    BY WinAssumption DEF WinNonce
  <1>6. /\ launcher' \in ThreadRow /\ launcher'.pc = "guard" /\ launcher'.n = n
    BY <1>1, <1>2, <1>5, Zenon DEF WinTypeOK, ThreadRow, CallPc, Starting
  <1>7. ProcsKept /\ JobsKept
    BY <1>1, <1>3, ProcsUnchanged, JobsUnchanged
  <1>8. Unborn(n)'
    BY <1>1, <1>2, <1>3 DEF RowsInv, Unborn
  <1>9. CallInv'
    BY <1>4, <1>6, <1>8 DEF CallInv, Starting, N, Unborn
  <1>10. image' \in ImageRow
    BY <1>1, <1>3 DEF WinTypeOK
  <1> QED BY <1>4, <1>6, <1>7, <1>9, <1>10, WinStepInv

\* The guard holds the file that was hashed.
LEMMA OpenInv == ASSUME WinInv, OpenGuards PROVE WinInv'
  <1>1. WinTypeOK /\ RowsInv /\ CallInv /\ launcher.pc = "guard"
    BY DEF WinInv, OpenGuards, InCall
  <1>2. N \in WinNonce /\ winStore.intent[N] = "prepared" /\ Unborn(N) /\ launcher.pc \in CallPc
    BY <1>1 DEF CallInv, CallPc, Starting
  <1>3. CASE Ordinary /\ UNCHANGED winStore
    BY <1>2, <1>3, CallEnds, UnbornIsCalm
  <1>4. CASE /\ Matches(image.path)
             /\ launcher' = [launcher EXCEPT !.pc = "barrier", !.file = image.path]
             /\ image' = [image EXCEPT !.held[N] = image.path]
             /\ UNCHANGED job /\ Unspawned
    <2>1. UNCHANGED <<winStore, winProc, winKid, job>>
      BY <1>4 DEF Unspawned
    <2>2. ProcsKept /\ JobsKept /\ SameIntents /\ winStore' \in StoreRow
      BY <1>1, <2>1, ProcsUnchanged, JobsUnchanged DEF SameIntents, WinTypeOK
    <2>3. /\ image' \in ImageRow /\ image'.held[N] = image'.path
          /\ image'.path = image.path /\ image'.approved = image.approved
      BY <1>1, <1>2, <1>4 DEF WinTypeOK, ImageRow
    <2>4. /\ launcher' \in ThreadRow /\ launcher'.pc = "barrier" /\ launcher'.n = launcher.n
      BY <1>1, <1>4, Zenon DEF WinTypeOK, ThreadRow, ImageRow, CallPc, Starting
    <2>5. CallInv'
      BY <1>2, <1>4, <2>1, <2>3, <2>4 DEF CallInv, Matches, Starting, N, Unborn
    <2> QED BY <2>2, <2>3, <2>4, <2>5, WinStepInv
  <1> QED BY <1>3, <1>4 DEF OpenGuards

\* The steps before the job is made.
LEMMA BeforeJobInv == ASSUME WinInv, FirstBarrier \/ SelectSession PROVE WinInv'
  <1>1. /\ WinTypeOK /\ CallInv /\ launcher.pc \in {"barrier", "session"}
        /\ launcher.pc \in CallPc /\ launcher.pc \in Starting \ {"guard"}
    BY DEF WinInv, FirstBarrier, SelectSession, InCall, CallPc, Starting
  <1>2. N \in WinNonce /\ winStore.intent[N] = "prepared" /\ Unborn(N)
    BY <1>1 DEF CallInv
  <1>3. CASE Ordinary /\ UNCHANGED winStore
    BY <1>1, <1>2, <1>3, CallEnds, UnbornIsCalm
  <1>4. CASE /\ WinGoes("session") \/ WinGoes("job")
             /\ UNCHANGED <<job, image>> /\ Unspawned
    <2>1. UNCHANGED <<winStore, winProc, winKid, job, image>>
      BY <1>4 DEF Unspawned
    <2>2. /\ launcher' \in ThreadRow /\ launcher'.pc \in {"session", "job"}
          /\ launcher'.n = launcher.n
      BY <1>1, <1>4, GoesFacts DEF CallPc, Starting
    <2>3. CallInv'
      BY <1>1, <1>2, <2>1, <2>2 DEF CallInv, Starting, N, Unborn
    <2> QED BY <2>1, <2>2, <2>3, ThreadInv
  <1> QED BY <1>3, <1>4 DEF FirstBarrier, SelectSession

\* A new job condemns its members when its last handle closes.
LEMMA CreateJobInv == ASSUME WinInv, CreateJob PROVE WinInv'
  <1>1. WinTypeOK /\ RowsInv /\ CallInv /\ launcher.pc = "job"
    BY DEF WinInv, CreateJob, InCall
  <1>2. /\ N \in WinNonce /\ winStore.intent[N] = "prepared" /\ Unborn(N) /\ launcher.pc \in CallPc
        /\ image.held[N] = image.path /\ image.approved[image.path]
    BY <1>1 DEF CallInv, CallPc, Starting
  <1>3. CASE Ordinary /\ UNCHANGED winStore
    BY <1>2, <1>3, CallEnds, UnbornIsCalm
  <1>4. CASE /\ job' = [job EXCEPT ![N] = [named |-> TRUE, handles |-> {"live"},
                                           killOnClose |-> TRUE]]
             /\ WinGoes("create") /\ UNCHANGED image /\ Unspawned
    <2>1. UNCHANGED <<winStore, winProc, winKid, image>>
      BY <1>4 DEF Unspawned
    <2>2. [named |-> TRUE, handles |-> {"live"}, killOnClose |-> TRUE] \in JobRow
      BY DEF JobRow
    <2>3. /\ job' \in [WinNonce -> JobRow] /\ job'[N].named /\ "live" \in job'[N].handles
          /\ job'[N].killOnClose = job'[N].named
          /\ \A m \in WinNonce \ {N} : job'[m] = job[m]
      BY <1>1, <1>2, <1>4, <2>2 DEF WinTypeOK
    <2>4. ProcsKept /\ SameIntents /\ winStore' \in StoreRow /\ image' \in ImageRow
      BY <1>1, <2>1, ProcsUnchanged DEF SameIntents, WinTypeOK
    <2>5. JobsKept
      BY <1>1, <2>3, Zenon DEF JobsKept, RowsInv
    <2>6. /\ launcher' \in ThreadRow /\ launcher'.pc = "create" /\ launcher'.n = launcher.n
      BY <1>1, <1>4, GoesFacts DEF CallPc, Starting
    <2>7. CallInv'
      BY <1>2, <2>1, <2>3, <2>6 DEF CallInv, Starting, N, Unborn
    <2> QED BY <2>4, <2>5, <2>6, <2>7, WinStepInv
  <1> QED BY <1>3, <1>4 DEF CreateJob

\* The process is created from the file the guard holds, inside the job.
LEMMA CreateInv == ASSUME WinInv, CreateSuspended PROVE WinInv'
  <1>1. WinTypeOK /\ RowsInv /\ CallInv /\ launcher.pc = "create"
    BY DEF WinInv, CreateSuspended, InCall
  <1>2. /\ N \in WinNonce /\ winStore.intent[N] = "prepared" /\ Unborn(N) /\ launcher.pc \in CallPc
        /\ image.approved[image.path] /\ job[N].named
    BY <1>1 DEF CallInv, CallPc, Starting
  <1>3. CASE Ordinary /\ UNCHANGED winStore
    BY <1>2, <1>3, CallEnds, UnbornIsCalm
  <1> DEFINE row == [state |-> "suspended", doomed |-> FALSE, runs |-> Matches(image.path),
                     generation |-> winStore.generation]
  <1>4. CASE /\ winProc' = [winProc EXCEPT ![N] = row]
             /\ WinGoes(IF winStore.kind = "plain" THEN "barrier2" ELSE "bootstrap")
             /\ UNCHANGED <<winStore, winKid, job, image>>
    <2>1. row \in ProcRow /\ row.runs
      BY <1>1, <1>2 DEF WinTypeOK, StoreRow, ImageRow, ProcRow, Matches
    <2> HIDE DEF row
    <2>2. /\ winProc' \in [WinNonce -> ProcRow] /\ winProc'[N].runs
          /\ \A m \in WinNonce \ {N} : winProc'[m] = winProc[m]
      BY <1>1, <1>2, <1>4, <2>1 DEF WinTypeOK
    <2>3. /\ launcher' \in ThreadRow /\ launcher'.pc \in Later /\ launcher'.n = launcher.n
      <3>1. (IF winStore.kind = "plain" THEN "barrier2" ELSE "bootstrap") \in Later
        BY DEF Later
      <3> QED BY <1>1, <1>4, <3>1, GoesFacts DEF CallPc
    <2>4. CallInv'
      BY <1>2, <2>3, PlainCall DEF N
    <2>5. WinTypeOK'
      BY <1>1, <1>4, <2>2, <2>3 DEF WinTypeOK
    <2>6. ASSUME NEW m \in WinNonce
          PROVE  /\ job'[m].killOnClose = job'[m].named
                 /\ ~Calm(m)' => job'[m].named
                 /\ winStore'.intent[m] = "none" => Unborn(m)'
                 /\ winStore'.intent[m] = "cleaned" => Calm(m)'
                 /\ winProc'[m].state # "none" => winProc'[m].runs
      <3>1. CASE m = N
        BY <1>1, <1>2, <1>4, <2>2, <3>1 DEF RowsInv
      <3>2. CASE m # N
        BY <1>1, <1>4, <2>2, <3>2 DEF RowsInv, Calm, Unborn, Active
      <3> QED BY <3>1, <3>2
    <2>7. RowsInv'
      BY <2>6 DEF RowsInv, Calm, Unborn, Active
    <2> QED BY <2>4, <2>5, <2>7 DEF WinInv
  <1> QED BY <1>3, <1>4 DEF CreateSuspended

\* The steps between the creation of the process and its resumption.
LEMMA VerifyInv ==
  ASSUME WinInv, WriteBootstrap \/ SecondBarrier \/ VerifyIdentity PROVE WinInv'
  <1>1. WinTypeOK /\ CallInv /\ N \in WinNonce
    BY DEF WinInv, CallInv, WriteBootstrap, SecondBarrier, VerifyIdentity, InCall, CallPc, Later
  <1>2. UNCHANGED <<winStore, winProc, winKid, job, image>>
    BY DEF WriteBootstrap, SecondBarrier, VerifyIdentity, Unmoved
  <1>3. \/ \E pc \in {"barrier2", "identity", "admit", "condemn"} : WinGoes(pc)
        \/ WinGoes("resume") /\ winStore.kind = "plain"
    BY DEF WriteBootstrap, SecondBarrier, VerifyIdentity, Verified
  <1>4. CASE \E pc \in {"barrier2", "identity", "admit", "condemn"} : WinGoes(pc)
    <2>1. launcher' \in ThreadRow /\ launcher'.pc \in Later /\ launcher'.n = launcher.n
      BY <1>1, <1>4, GoesFacts DEF CallPc, Later
    <2> QED BY <1>1, <1>2, <2>1, PlainCall, ThreadInv DEF N
  <1>5. CASE WinGoes("resume") /\ winStore.kind = "plain"
    <2>1. launcher' \in ThreadRow /\ launcher'.pc = "resume" /\ launcher'.n = launcher.n
      BY <1>1, <1>5, GoesFacts DEF CallPc
    <2>2. CallInv'
      BY <1>1, <1>2, <1>5, <2>1 DEF CallInv, Starting, N
    <2> QED BY <1>2, <2>1, <2>2, ThreadInv
  <1> QED BY <1>3, <1>4, <1>5

\* The reservation is taken by the check that admits.
LEMMA AdmitInv == ASSUME WinInv, AdmitResume PROVE WinInv'
  <1>1. WinTypeOK /\ RowsInv /\ CallInv /\ N \in WinNonce
    BY DEF WinInv, CallInv, AdmitResume, InCall, CallPc, Later
  <1>2. UNCHANGED <<winProc, winKid, job, image>>
    BY DEF AdmitResume, Unmoved
  <1>3. CASE UNCHANGED winStore /\ WinGoes("condemn")
    <2>1. launcher' \in ThreadRow /\ launcher'.pc \in Later /\ launcher'.n = launcher.n
      BY <1>1, <1>3, GoesFacts DEF CallPc, Later
    <2> QED BY <1>1, <1>2, <1>3, <2>1, PlainCall, ThreadInv DEF N
  <1>4. CASE /\ Admitted /\ winStore' = [winStore EXCEPT !.writer = "launch"]
             /\ WinGoes("resume")
    <2>1. launcher' \in ThreadRow /\ launcher'.pc = "resume" /\ launcher'.n = launcher.n
      BY <1>1, <1>4, GoesFacts DEF CallPc
    <2>2. /\ winStore' \in StoreRow /\ winStore'.writer = "launch" /\ winStore'.mode = winStore.mode
          /\ winStore'.intent = winStore.intent /\ winStore'.generation = winStore.generation
      BY <1>1, <1>4 DEF WinTypeOK, StoreRow
    <2>3. CallInv'
      BY <1>1, <1>2, <1>4, <2>1, <2>2 DEF CallInv, Admitted, Starting, N
    <2>4. ProcsKept /\ JobsKept /\ SameIntents /\ image' \in ImageRow
      BY <1>1, <1>2, <2>2, ProcsUnchanged, JobsUnchanged DEF SameIntents, WinTypeOK
    <2> QED BY <2>1, <2>2, <2>3, <2>4, WinStepInv
  <1> QED BY <1>3, <1>4 DEF AdmitResume

\* A condemned process is not resumed.
LEMMA ResumeInv == ASSUME WinInv, ResumeThread PROVE WinInv'
  <1>1. WinTypeOK /\ RowsInv /\ CallInv /\ N \in WinNonce
    BY DEF WinInv, CallInv, ResumeThread, InCall, CallPc
  <1>2. UNCHANGED <<winKid, job, image>> /\ winStore' = [winStore EXCEPT !.writer = "free"]
    BY DEF ResumeThread
  <1>3. winStore' \in StoreRow /\ winStore'.intent = winStore.intent
    BY <1>1, <1>2 DEF WinTypeOK, StoreRow
  <1>4. SameIntents /\ JobsKept /\ image' \in ImageRow
    BY <1>1, <1>2, <1>3, JobsUnchanged DEF SameIntents, WinTypeOK
  <1>5. CASE UNCHANGED winProc /\ WinGoes("condemn")
    <2>1. launcher' \in ThreadRow /\ launcher'.pc \in Later /\ launcher'.n = launcher.n
      BY <1>1, <1>5, GoesFacts DEF CallPc, Later
    <2>2. ProcsKept
      BY <1>1, <1>2, <1>5, ProcsUnchanged
    <2> QED BY <1>1, <1>3, <1>4, <2>1, <2>2, PlainCall, WinStepInv DEF N
  <1>6. CASE /\ winProc' = [winProc EXCEPT ![N].state =
                   IF @ = "suspended" /\ ~winProc[N].doomed THEN "running" ELSE @]
             /\ launcher' = [launcher EXCEPT !.pc = "winrecord", !.owners = @ \cup {N}]
    <2>1. /\ launcher' \in ThreadRow /\ launcher'.pc \in Later /\ launcher'.n = launcher.n
      BY <1>1, <1>6, Zenon DEF WinTypeOK, ThreadRow, CallPc, Later
    <2>2. winProc \in [WinNonce -> ProcRow] /\ winKid \in [WinNonce -> KidState]
      BY <1>1 DEF WinTypeOK
    <2>3. CASE winProc[N].state = "suspended" /\ ~winProc[N].doomed
      <3> DEFINE row == [winProc[N] EXCEPT !.state = "running"]
      <3>1. /\ row \in ProcRow /\ row.state = "running" /\ row.runs = winProc[N].runs
            /\ row.generation = winProc[N].generation /\ row.doomed = winProc[N].doomed
        BY <1>1, <2>2 DEF ProcRow
      <3>2. winProc' = [winProc EXCEPT ![N] = row]
        BY <1>6, <2>3
      <3> HIDE DEF row
      <3>3. /\ winProc' \in [WinNonce -> ProcRow] /\ winProc'[N] = row
            /\ \A m \in WinNonce \ {N} : winProc'[m] = winProc[m]
        BY <1>1, <2>2, <3>1, <3>2
      <3>4. \A m \in WinNonce : (Unborn(m) => Unborn(m)') /\ (Calm(m) => Calm(m)')
        BY <1>2, <2>3, <3>1, <3>3 DEF Unborn, Calm, Active
      <3>5. ProcsKept
        BY <1>2, <2>2, <2>3, <3>1, <3>3, <3>4 DEF ProcsKept
      <3> QED BY <1>1, <1>3, <1>4, <2>1, <3>5, PlainCall, WinStepInv DEF N
    <2>4. CASE ~(winProc[N].state = "suspended" /\ ~winProc[N].doomed)
      <3>1. winProc' = [winProc EXCEPT ![N].state = winProc[N].state]
        BY <1>6, <2>4, Zenon
      <3>2. winProc' = winProc
        BY <1>1, <2>2, <3>1 DEF ProcRow
      <3> QED BY <1>1, <1>2, <1>3, <1>4, <2>1, <3>2, ProcsUnchanged, PlainCall, WinStepInv DEF N
    <2> QED BY <2>3, <2>4
  <1> QED BY <1>5, <1>6 DEF ResumeThread

\* A job without active members has nothing that runs.
LEMMA EmptyIsCalm == ASSUME WinTypeOK, NEW n \in WinNonce, Active(n) = {} PROVE Calm(n)
  BY DEF WinTypeOK, Calm, Active, KidState

\* The members of a job are condemned, and the call waits for them.
LEMMA CondemnThenWait ==
  ASSUME WinInv, N \in WinNonce, Condemn(N), UNCHANGED <<winStore, job, image>>,
         WinGoes("drained") \/ WinGoes("winwait")
  PROVE  WinInv'
  <1>1. WinTypeOK /\ RowsInv
    BY DEF WinInv
  <1>2. launcher' \in ThreadRow /\ launcher'.pc \in Later /\ launcher'.n = launcher.n
    BY <1>1, GoesFacts DEF CallPc, Later
  <1>3. ProcsKept
    BY <1>1, CondemnFacts
  <1>4. JobsKept /\ SameIntents /\ winStore' \in StoreRow /\ image' \in ImageRow
    BY <1>1, JobsUnchanged DEF SameIntents, WinTypeOK
  <1> QED BY <1>2, <1>3, <1>4, PlainCall, WinStepInv DEF N

\* The cleanup after a failed launch.
LEMMA CleanupInv ==
  ASSUME WinInv, CondemnSpawned \/ CondemnPlanned \/ DrainSpawned PROVE WinInv'
  <1>1. /\ WinTypeOK /\ CallInv /\ launcher.pc \in CallPc /\ N \in WinNonce
        /\ UNCHANGED winStore
    BY DEF WinInv, CallInv, CondemnSpawned, CondemnPlanned, DrainSpawned, InCall, CallPc, Later
  <1>2. \/ Active(N) = {} /\ Ordinary
        \/ Condemn(N) /\ WinGoes("drained") /\ UNCHANGED <<job, image>>
        \/ Uncertain
    BY DEF CondemnSpawned, CondemnPlanned, DrainSpawned
  <1> QED BY <1>1, <1>2, CallEnds, EmptyIsCalm, CondemnThenWait

\* The runtime's rows at the end of a call.
LEMMA RowInv == ASSUME WinInv, WinRecord \/ WinSettle PROVE WinInv'
  <1>1. /\ WinTypeOK /\ RowsInv /\ CallInv /\ N \in WinNonce
        /\ UNCHANGED <<winProc, winKid, job, image>>
    BY DEF WinInv, CallInv, WinRecord, WinSettle, InCall, CallPc, Later, Unmoved
  <1>2. Quiet \in NoCall
    BY DEF Quiet, NoCall
  <1>3. launcher' \in ThreadRow /\ launcher'.pc \in NoCall
    BY <1>1, <1>2, GoesFacts DEF WinRecord, WinSettle, NoCall
  <1>4. /\ winStore' \in StoreRow
        /\ \A n \in WinNonce :
              /\ winStore'.intent[n] = "none" => winStore.intent[n] = "none"
              /\ winStore'.intent[n] = "cleaned" => winStore.intent[n] = "cleaned" \/ Calm(n)
    <2>1. CASE WinRecord
      BY <1>1, <2>1 DEF WinRecord, WinTypeOK, StoreRow
    <2>2. CASE WinSettle
      <3>1. Calm(N)
        BY <1>1, <2>2 DEF WinSettle, CallInv, InCall
      <3>2. winStore' = [winStore EXCEPT !.intent[N] = "cleaned"]
        BY <2>2 DEF WinSettle
      <3>3. /\ winStore' \in StoreRow
            /\ \A n \in WinNonce \ {N} : winStore'.intent[n] = winStore.intent[n]
            /\ winStore'.intent[N] = "cleaned"
        BY <1>1, <3>2 DEF WinTypeOK, StoreRow
      <3> QED BY <3>1, <3>3
    <2> QED BY <2>1, <2>2
  <1>5. ProcsKept /\ JobsKept /\ image' \in ImageRow
    BY <1>1, ProcsUnchanged, JobsUnchanged DEF WinTypeOK
  <1> QED BY <1>3, <1>4, <1>5, PlainCall, WinStepInv

\* Stopping a launch, waiting for its job to drain, and inspecting it.
LEMMA StopInv ==
  ASSUME WinInv, WinStop \/ WinStopWait \/ \E n \in WinNonce : WinInspect(n) PROVE WinInv'
  <1>1. WinTypeOK /\ CallInv /\ UNCHANGED winStore
    BY Zenon DEF WinInv, WinStop, WinStopWait, WinInspect
  <1>2. ASSUME NEW n \in WinNonce, WinInspect(n) PROVE WinInv'
    <2>1. n \in Nat
      BY WinAssumption DEF WinNonce
    <2>2. launcher' \in ThreadRow /\ launcher'.pc \in Later /\ launcher'.n = n
      BY <1>1, <1>2, <2>1, Zenon DEF WinInspect, WinTypeOK, ThreadRow, CallPc, Later
    <2> QED BY <1>2, <2>2, PlainCall, ThreadInv, Zenon DEF WinInspect, Unmoved
  <1>3. CASE WinStop \/ WinStopWait
    <2>1. N \in WinNonce
      BY <1>1, <1>3 DEF CallInv, WinStop, WinStopWait, InCall, CallPc, Later
    <2>2. CASE Active(N) = {} /\ Stopped
      <3>1. /\ launcher' \in ThreadRow /\ launcher'.pc = "winsettle" /\ launcher'.n = launcher.n
        BY <1>1, <2>2, Zenon DEF Stopped, WinTypeOK, ThreadRow, CallPc
      <3> QED BY <1>1, <2>1, <2>2, <3>1, EmptyIsCalm, HandlesDropped DEF Stopped
    <2>3. CASE WinGoes(Quiet) /\ UNCHANGED <<winProc, winKid, job, image>>
      <3>1. Quiet \in NoCall
        BY DEF Quiet, NoCall
      <3> QED BY <1>1, <2>3, <3>1, GoesFacts, PlainCall, ThreadInv
    <2> QED BY <1>1, <1>3, <2>1, <2>2, <2>3, CondemnThenWait DEF WinStop, WinStopWait
  <1> QED BY <1>2, <1>3

\* The handles of the dead watchdog are still open: no job ends with it.
LEMMA WinCrashInv == ASSUME WinInv, WinCrash PROVE WinInv'
  <1>1. WinTypeOK /\ RowsInv
    BY DEF WinInv
  <1>2. launcher' \in ThreadRow /\ launcher'.pc \in NoCall
    BY DEF WinCrash, Thread, ThreadRow, NoCall
  <1>3. winStore' \in StoreRow /\ SameIntents
    BY <1>1 DEF WinCrash, WinTypeOK, StoreRow, SameIntents
  <1>4. image' \in ImageRow
    BY <1>1 DEF WinCrash, WinTypeOK, ImageRow
  <1>5. ASSUME NEW n \in WinNonce
        PROVE  /\ job'[n] \in JobRow /\ job'[n].named = job[n].named
               /\ job'[n].killOnClose = job[n].killOnClose
    <2>1. job[n] \in JobRow
      BY <1>1 DEF WinTypeOK
    <2>2. job'[n] = [job[n] EXCEPT !.handles = IF "live" \in @ THEN {"dying"} ELSE @]
      BY DEF WinCrash
    <2>3. (IF "live" \in job[n].handles THEN {"dying"} ELSE job[n].handles)
              \in SUBSET {"live", "dying"}
      BY <2>1 DEF JobRow
    <2> QED BY <2>1, <2>2, <2>3 DEF JobRow
  <1>6. job' \in [WinNonce -> JobRow]
    <2>1. job' = [n \in WinNonce |-> job'[n]]
      BY DEF WinCrash
    <2> QED BY <1>5, <2>1
  <1>7. JobsKept
    BY <1>1, <1>5, <1>6 DEF JobsKept, RowsInv
  <1>8. ProcsKept
    BY <1>1, ProcsUnchanged DEF WinCrash
  <1> QED BY <1>2, <1>3, <1>4, <1>7, <1>8, PlainCall, WinStepInv

\* The supervisor restarts, and its recovery ends.
LEMMA WinRestartInv == ASSUME WinInv, WinRestart \/ RecoveryEnds PROVE WinInv'
  <1>1. WinTypeOK /\ RowsInv /\ UNCHANGED <<winProc, winKid, job, image>>
    BY DEF WinInv, WinRestart, RecoveryEnds, Unmoved
  <1>2. launcher' \in ThreadRow /\ launcher'.pc \in NoCall
    <2>1. CASE WinRestart
      BY <2>1 DEF WinRestart, Thread, ThreadRow, NoCall
    <2>2. CASE RecoveryEnds
      BY <1>1, <2>2, GoesFacts DEF RecoveryEnds, NoCall
    <2> QED BY <2>1, <2>2
  <1>3. winStore' \in StoreRow /\ SameIntents
    <2>1. winStore.generation + 1 \in Nat
      BY <1>1 DEF WinTypeOK, StoreRow
    <2>2. \/ winStore' = [winStore EXCEPT !.generation = winStore.generation + 1]
          \/ winStore' = winStore
      BY DEF WinRestart, RecoveryEnds
    <2> QED BY <1>1, <2>1, <2>2 DEF WinTypeOK, StoreRow, SameIntents
  <1>4. ProcsKept /\ JobsKept /\ image' \in ImageRow
    BY <1>1, ProcsUnchanged, JobsUnchanged DEF WinTypeOK
  <1> QED BY <1>2, <1>3, <1>4, PlainCall, WinStepInv

\* Another handle to a job.
LEMMA JobReopened ==
  ASSUME WinTypeOK, RowsInv, NEW n \in WinNonce,
         job' = [job EXCEPT ![n].handles = @ \cup {"live"}]
  PROVE  JobsKept
  <1>1. job \in [WinNonce -> JobRow]
    BY DEF WinTypeOK
  <1> DEFINE row == [job[n] EXCEPT !.handles = @ \cup {"live"}]
  <1>2. row \in JobRow /\ row.named = job[n].named /\ row.killOnClose = job[n].killOnClose
    BY <1>1 DEF JobRow
  <1>3. job' = [job EXCEPT ![n] = row]
    OBVIOUS
  <1> HIDE DEF row
  <1>4. /\ job' \in [WinNonce -> JobRow] /\ job'[n] = row
        /\ \A m \in WinNonce \ {n} : job'[m] = job[m]
    BY <1>1, <1>2, <1>3
  <1> QED BY <1>2, <1>4 DEF JobsKept, RowsInv

\* An absent name proves that every member of the planned job is condemned.
LEMMA PlannedInv == ASSUME WinInv, NEW n \in WinNonce, OpenPlannedJob(n) PROVE WinInv'
  <1>1. WinTypeOK /\ RowsInv /\ UNCHANGED <<winStore, winProc, winKid, image>> /\ InCall("recover")
    BY DEF WinInv, OpenPlannedJob
  <1>2. n \in Nat
    BY WinAssumption DEF WinNonce
  <1>3. ProcsKept /\ SameIntents /\ winStore' \in StoreRow /\ image' \in ImageRow
    BY <1>1, ProcsUnchanged DEF SameIntents, WinTypeOK
  <1>4. CASE ~job[n].named /\ Treats(n, "winsettle") /\ UNCHANGED job
    <2>1. launcher' \in ThreadRow /\ launcher'.pc = "winsettle" /\ launcher'.n = n
      BY <1>1, <1>2, <1>4, Zenon DEF Treats, WinTypeOK, ThreadRow, CallPc
    <2>2. Calm(n)'
      BY <1>1, <1>3, <1>4 DEF RowsInv, ProcsKept
    <2>3. CallInv'
      BY <2>1, <2>2, Zenon DEF CallInv, Starting, N, Calm, Active
    <2> QED BY <1>1, <1>4, <2>1, <2>3, ThreadInv
  <1>5. CASE Treats(n, "planned") /\ job' = [job EXCEPT ![n].handles = @ \cup {"live"}]
    <2>1. launcher' \in ThreadRow /\ launcher'.pc \in Later /\ launcher'.n = n
      BY <1>1, <1>2, <1>5, Zenon DEF Treats, WinTypeOK, ThreadRow, CallPc, Later
    <2> QED BY <1>1, <1>3, <1>5, <2>1, JobReopened, PlainCall, WinStepInv, Zenon
  <1>6. CASE launcher' = [launcher EXCEPT !.todo = @ \ {n}] /\ UNCHANGED job
    <2>1. launcher' \in ThreadRow /\ launcher'.pc \in NoCall
      BY <1>1, <1>6 DEF InCall, WinTypeOK, ThreadRow, NoCall
    <2> QED BY <1>1, <1>6, <2>1, PlainCall, ThreadInv
  <1> QED BY <1>4, <1>5, <1>6 DEF OpenPlannedJob

\* Recovery reopens the job of a recorded launch by its name.
LEMMA ReopenInv == ASSUME WinInv, NEW n \in WinNonce, ReopenJob(n) PROVE WinInv'
  <1>1. WinTypeOK /\ RowsInv /\ UNCHANGED <<winStore, winProc, winKid>> /\ InCall("recover")
    BY DEF WinInv, ReopenJob
  <1>2. n \in Nat
    BY WinAssumption DEF WinNonce
  <1>3. ProcsKept /\ SameIntents /\ winStore' \in StoreRow
    BY <1>1, ProcsUnchanged DEF SameIntents, WinTypeOK
  <1>4. CASE /\ job' = [job EXCEPT ![n].handles = @ \cup {"live"}]
             /\ image' = [image EXCEPT !.held[n] = image.path]
             /\ launcher' = [launcher EXCEPT !.n = n, !.owners = @ \cup {n}, !.todo = @ \ {n},
                                !.pc = IF winStore.kind # "plain" \/ winStore.mode # "Running"
                                       THEN "winstop" ELSE "recover"]
    <2>1. image' \in ImageRow
      BY <1>1, <1>4 DEF WinTypeOK, ImageRow
    <2>2. /\ launcher' \in ThreadRow /\ launcher'.pc \in {"winstop", "recover"}
          /\ launcher'.n = n
      BY <1>1, <1>2, <1>4, Zenon DEF WinTypeOK, ThreadRow, NoCall, CallPc, Later
    <2>3. CallInv'
      BY <2>2, PlainCall DEF Later, NoCall
    <2> QED BY <1>1, <1>3, <1>4, <2>1, <2>2, <2>3, JobReopened, WinStepInv, Zenon
  <1>5. CASE launcher' = [launcher EXCEPT !.todo = @ \ {n}] /\ UNCHANGED <<job, image>>
    <2>1. launcher' \in ThreadRow /\ launcher'.pc \in NoCall
      BY <1>1, <1>5 DEF InCall, WinTypeOK, ThreadRow, NoCall
    <2> QED BY <1>1, <1>5, <2>1, PlainCall, ThreadInv
  <1> QED BY <1>4, <1>5 DEF ReopenJob

\* Every step of the Windows launch keeps the invariant.
LEMMA WinNextInv == ASSUME WinInv, [WinNext]_winVars PROVE WinInv'
  <1>1. CASE UNCHANGED winVars
    BY <1>1, Zenon DEF WinInv, WinTypeOK, RowsInv, CallInv, Calm, Unborn, Active, Admitted, N, winVars
  <1>2. CASE WinLaunchStep
    BY <1>2, PrepareInv, OpenInv, BeforeJobInv, CreateJobInv, CreateInv, VerifyInv, AdmitInv,
       ResumeInv, RowInv, CleanupInv DEF WinLaunchStep
  <1>3. CASE WinRecovery
    BY <1>3, WinRestartInv, CleanupInv, PlannedInv, ReopenInv DEF WinRecovery
  <1> QED BY <1>1, <1>2, <1>3, StopInv, WinCrashInv, SetModeInv, FilesInv, OldHandleInv,
             ProcessesInv DEF WinNext

\* The invariant of the launcher, for any number of launches, watchdogs and
\* changes of the files.
THEOREM WinInvariant == WinSpec => []WinInv
  <1>1. WinInit => WinInv
    <2> SUFFICES ASSUME WinInit PROVE WinInv
      OBVIOUS
    <2>1. winStore \in StoreRow /\ image \in ImageRow
      <3>1. /\ [n \in WinNonce |-> "none"] \in
                   [WinNonce -> {"none", "prepared", "active", "cleaned"}]
            /\ [n \in WinNonce |-> NoFile] \in [WinNonce -> ImageFile \cup {NoFile}]
            /\ [f \in ImageFile |-> f = "released"] \in [ImageFile -> BOOLEAN]
        OBVIOUS
      <3>2. winStore \in StoreRow
        BY <3>1 DEF WinInit, StoreRow
      <3>3. image \in ImageRow
        <4> DEFINE hashes == [f \in ImageFile |-> f = "released"]
                   none == [n \in WinNonce |-> NoFile]
        <4>1. image \in [path : ImageFile, approved : {hashes}, held : {none}, changes : {0}]
          BY DEF WinInit
        <4>2. hashes \in [ImageFile -> BOOLEAN] /\ none \in [WinNonce -> ImageFile \cup {NoFile}]
          BY <3>1
        <4> HIDE DEF hashes, none
        <4> QED BY <4>1, <4>2 DEF ImageRow
      <3> QED BY <3>2, <3>3
    <2>2. launcher \in ThreadRow /\ launcher.pc \in NoCall
      BY DEF WinInit, Thread, ThreadRow, NoCall
    <2>3. \A n \in WinNonce : /\ winProc[n] = NoImage /\ winKid[n] = "none" /\ job[n] = NoJob
      BY DEF WinInit
    <2>4. WinTypeOK
      <3>1. NoImage \in ProcRow /\ "none" \in KidState /\ NoJob \in JobRow
        BY DEF NoImage, NoJob, ProcRow, KidState, JobRow
      <3> QED BY <2>1, <2>2, <3>1 DEF WinInit, WinTypeOK
    <2>5. RowsInv
      <3>1. \A n \in WinNonce : Unborn(n) /\ Calm(n)
        BY <2>3, UnbornIsCalm DEF Unborn, NoImage
      <3>2. \A n \in WinNonce : job[n].killOnClose = job[n].named /\ winProc[n].state = "none"
        <4>1. NoJob.killOnClose = NoJob.named /\ NoImage.state = "none"
          BY DEF NoImage, NoJob
        <4> QED BY <2>3, <4>1
      <3> QED BY <3>1, <3>2 DEF RowsInv
    <2>6. CallInv
      BY <2>2 DEF CallInv, NoCall, CallPc, Starting, Later
    <2> QED BY <2>4, <2>5, <2>6 DEF WinInv
  <1> QED BY <1>1, WinNextInv, PTL DEF WinSpec

\* What runs was created from approved bytes.
THEOREM ImagesApproved == WinSpec => []ImageIsApproved
  <1>1. WinInv => ImageIsApproved
    BY DEF WinInv, RowsInv, ImageIsApproved
  <1> QED BY <1>1, WinInvariant, PTL

\* A settled intent leaves only condemned processes behind.
THEOREM SettledCondemned == WinSpec => []SettledIsCondemned
  <1>1. WinInv => SettledIsCondemned
    BY DEF WinInv, RowsInv, SettledIsCondemned, Calm
  <1> QED BY <1>1, WinInvariant, PTL

\* Only the resumption under an admission turns a suspended worker or gateway
\* into a running one.
THEOREM ResumesAuthorized == WinSpec => ResumeIsAuthorized
  <1> DEFINE Resumes(n) == /\ winStore.kind # "plain"
                           /\ winProc[n].state = "suspended" /\ winProc'[n].state = "running"
  <1>1. ASSUME WinInv, [WinNext]_winVars, NEW n \in WinNonce, Resumes(n)
        PROVE  ResumeThread /\ n = N
    <2>0. winProc \in [WinNonce -> ProcRow] /\ CallInv
      BY <1>1 DEF WinInv, WinTypeOK
    <2>1. CASE UNCHANGED winProc
      BY <1>1, <2>1
    <2>2. ASSUME NEW m \in WinNonce, Condemn(m) PROVE FALSE
      <3>1. winProc' = [winProc EXCEPT ![m] =
                          [winProc[m] EXCEPT !.doomed = @ \/ "leader" \in Active(m)]]
        BY <2>2 DEF Condemn
      <3>2. winProc'[n].state = winProc[n].state
        BY <2>0, <3>1 DEF ProcRow
      <3> QED BY <1>1, <3>2
    <2>3. ASSUME NEW m \in WinNonce, WinExits(m) PROVE FALSE
      <3>1. winProc'[n].state = winProc[n].state \/ winProc'[n].state = "gone"
        BY <2>0, <2>3 DEF WinExits, ProcRow
      <3> QED BY <1>1, <3>1
    <2>4. CASE CreateSuspended
      <3>1. N \in WinNonce
        BY <2>0, <2>4 DEF CreateSuspended, InCall, CallInv, CallPc, Starting
      <3>2. \/ UNCHANGED winProc \/ Condemn(N)
            \/ winProc' = [winProc EXCEPT ![N] =
                  [state |-> "suspended", doomed |-> FALSE, runs |-> Matches(image.path),
                   generation |-> winStore.generation]]
        BY <2>4 DEF CreateSuspended, Ordinary, CloseJob
      <3> QED BY <1>1, <2>0, <2>1, <2>2, <3>1, <3>2
    <2>5. CASE ResumeThread
      <3>1. N \in WinNonce
        BY <2>0, <2>5 DEF ResumeThread, InCall, CallInv, CallPc
      <3>2. n # N => winProc'[n] = winProc[n]
        BY <2>0, <2>5, <3>1 DEF ResumeThread
      <3> QED BY <1>1, <2>5, <3>2
    <2>6. launcher.pc \in CallPc => N \in WinNonce
      BY <2>0 DEF CallInv
    <2>7. CASE /\ launcher.pc \in CallPc
               /\ Ordinary \/ Uncertain \/ Stopped \/ Condemn(N)
      BY <2>1, <2>2, <2>6, <2>7 DEF Ordinary, Uncertain, Stopped, CloseJob
    <2>8. CASE WinLaunchStep
      BY <2>1, <2>4, <2>5, <2>7, <2>8, Zenon
      DEF WinLaunchStep, WinPrepare, OpenGuards, FirstBarrier, SelectSession, CreateJob,
          WriteBootstrap, SecondBarrier, VerifyIdentity, AdmitResume, WinRecord, CondemnSpawned,
          DrainSpawned, WinSettle, Unmoved, Unspawned, InCall, CallPc, Starting, Later
    <2>9. CASE WinRecovery
      BY <2>1, <2>7, <2>9, Zenon
      DEF WinRecovery, WinRestart, RecoveryEnds, CondemnPlanned, OpenPlannedJob, ReopenJob,
          Unmoved, InCall, CallPc, Later
    <2>10. CASE WinStop \/ WinStopWait
      BY <2>1, <2>7, <2>10 DEF WinStop, WinStopWait, InCall, CallPc, Later
    <2>11. CASE WinCrash \/ WinSetMode \/ WriteFile \/ ReplaceFile \/ UNCHANGED winVars
      BY <2>1, <2>11, Zenon DEF WinCrash, WinSetMode, WriteFile, ReplaceFile, Changed, Unmoved, winVars
    <2>12. ASSUME NEW m \in WinNonce,
                  WinInspect(m) \/ OldHandleCloses(m) \/ WinExits(m) \/ WinKidExits(m) \/ WinForks(m)
           PROVE  ResumeThread /\ n = N
      BY <2>1, <2>2, <2>3, <2>12
      DEF WinInspect, OldHandleCloses, CloseJob, WinKidExits, WinForks, Unmoved
    <2> QED BY <1>1, <2>8, <2>9, <2>10, <2>11, <2>12 DEF WinNext
  <1>2. ASSUME WinInv, [WinNext]_winVars, NEW n \in WinNonce, Resumes(n)
        PROVE  /\ winStore.mode = "Running" /\ winStore.intent[n] = "prepared"
               /\ winStore.generation = winProc[n].generation
    <2>1. ResumeThread /\ n = N
      BY <1>1, <1>2
    <2> QED BY <1>2, <2>1 DEF WinInv, CallInv, ResumeThread, InCall, Admitted
  <1>3. WinInv /\ [WinNext]_winVars =>
           [\A n \in WinNonce :
              /\ winStore.kind # "plain"
              /\ winProc[n].state = "suspended" /\ winProc'[n].state = "running"
              => /\ winStore.mode = "Running" /\ winStore.intent[n] = "prepared"
                 /\ winStore.generation = winProc[n].generation]_winVars
    BY <1>2
  <1> QED BY <1>3, WinInvariant, PTL DEF WinSpec, ResumeIsAuthorized

-----------------------------------------------------------------------------
(* The handoff of a Linux launch.  A worker's bootstrap frame is in its pipe *)
(* or read, in the order in which it was written; the copy that is executed *)
(* was hashed while it was made.                                            *)

Chunk   == {"request", "nonce", "go", "frame", "digest"}
Channel == {"control", "boot"}
End     == {"parent", "helper", "target"}
PipeRow == [data : Seq(Chunk), readers : SUBSET End, writers : SUBSET End]
FileRow == [exe : [Inode -> [1..2 -> {1, 2}]], config : Inode, link : BOOLEAN,
            text : [Inode -> {1, 2}], held : Inode \cup {"none"}, requested : Inode,
            allowed : Inode, changes : Nat]
BeforeFrame == {"open", "bind", "idle", "request", "ready", "go"}
ParentRow   == [pc : BeforeFrame \cup {"boot", "released", "done", "dead", "failed"}, sent : {0, 1}]
BeforeHealth == {"none", "start", "request", "ack", "go"}
AfterHealth  == {"config", "hash", "resolve", "copy", "exec"}
ProcessRow   == [pc : BeforeHealth \cup {"health"} \cup AfterHealth \cup {"target", "dead"},
                 got : Seq(Chunk), copy : Seq(Nat), from : Inode \cup {"none"},
                 health : Seq(Chunk), stdin : Seq(Chunk)]

HandoffTypeOK ==
    /\ launch \in [kind : {"plain", "worker", "gateway"},
                   role : {"Harness", "Gateway", "HostBroker"}]
    /\ files \in FileRow
    /\ parent \in ParentRow
    /\ pipe \in [Channel -> PipeRow]
    /\ process \in ProcessRow

\* From the resolution of its path on, the target is one that may be launched,
\* and what is sealed has the approved digest.
CopyIsApproved ==
    /\ process.pc \in {"copy", "exec"} => process.from \in Inode /\ launch.role # "HostBroker"
    /\ process.pc = "exec" => process.copy = <<Approved, Approved>>

\* The input that a target has from the helper.
InputIsFrame ==
    /\ launch.kind # "gateway" =>
          process.health = <<>> /\ process.stdin = <<>> /\ process.pc # "health"
    /\ launch.kind = "gateway" /\ process.pc \in AfterHealth => process.health = Frame
    /\ launch.kind = "gateway" /\ process.pc = "target" => process.got \o process.stdin = Frame
    /\ launch.kind = "plain" /\ process.pc = "target" => process.got = <<>>

\* What a worker has read and what is in its pipe, together, are the chunks
\* that the parent has written.
Stream == (IF process.pc = "target" THEN process.got ELSE <<>>) \o pipe.boot.data
IsWritten(k) == /\ parent.pc \in BeforeFrame => k = 0
                /\ parent.pc = "boot" => k = parent.sent
                /\ parent.pc \in {"released", "done"} => k = 2
StreamIsWritten ==
    launch.kind = "worker" /\ process.pc # "dead" =>
        \E k \in 0..2 : IsWritten(k) /\ Stream = SubSeq(Frame, 1, k)

HandoffInv == HandoffTypeOK /\ CopyIsApproved /\ InputIsFrame /\ StreamIsWritten

\* Closing descriptors leaves what is in the pipes.
LEMMA ClosesFacts ==
  ASSUME NEW p \in [Channel -> PipeRow], NEW who \in SUBSET End
  PROVE  /\ Closes(p, who) \in [Channel -> PipeRow]
         /\ \A c \in Channel : Closes(p, who)[c].data = p[c].data
  BY Zenon DEF Closes, Channel, PipeRow

\* Closing one end of the boot pipe leaves its chunks and the other pipes alone.
LEMMA PipeSet ==
  ASSUME NEW p \in [Channel -> PipeRow], NEW who \in SUBSET End
  PROVE  /\ [p EXCEPT !.boot.readers = @ \ who] \in [Channel -> PipeRow]
         /\ [p EXCEPT !.boot.readers = @ \ who].boot.data = p.boot.data
         /\ [p EXCEPT !.boot.readers = @ \cup who] \in [Channel -> PipeRow]
         /\ [p EXCEPT !.boot.readers = @ \cup who].boot.data = p.boot.data
  <1> DEFINE less == [p.boot EXCEPT !.readers = @ \ who]
             more == [p.boot EXCEPT !.readers = @ \cup who]
  <1>1. p.boot \in PipeRow
    BY DEF Channel
  <1>2. /\ less \in PipeRow /\ less.data = p.boot.data
        /\ more \in PipeRow /\ more.data = p.boot.data
    BY <1>1, Zenon DEF PipeRow
  <1>3. /\ [p EXCEPT !.boot.readers = @ \ who] = [p EXCEPT !.boot = less]
        /\ [p EXCEPT !.boot.readers = @ \cup who] = [p EXCEPT !.boot = more]
    OBVIOUS
  <1> HIDE DEF less, more
  <1> QED BY <1>2, <1>3 DEF Channel

\* A pipe row with other chunks keeps its writers.
LEMMA RowData ==
  ASSUME NEW r \in PipeRow, NEW s \in Seq(Chunk)
  PROVE  /\ [r EXCEPT !.data = s] \in PipeRow /\ [r EXCEPT !.data = s].data = s
         /\ [r EXCEPT !.data = s].writers = r.writers
  BY DEF PipeRow

\* A pipe row with other writers keeps its chunks.
LEMMA RowWriters ==
  ASSUME NEW r \in PipeRow, NEW w \in SUBSET End
  PROVE  [r EXCEPT !.writers = w] \in PipeRow /\ [r EXCEPT !.writers = w].data = r.data
  BY DEF PipeRow

\* A chunk is written, by a writer that keeps its end or closes it.
Wrote(p, c, x, w) == [p EXCEPT ![c].data = Append(@, x), ![c].writers = w]

\* A write adds its chunk to that pipe and to no other.
LEMMA PipeWrites ==
  ASSUME NEW p \in [Channel -> PipeRow], NEW c \in Channel, NEW x \in Chunk, NEW w,
         w \in {{}, p[c].writers}
  PROVE  /\ Wrote(p, c, x, w) \in [Channel -> PipeRow]
         /\ Wrote(p, c, x, w)[c].data = Append(p[c].data, x)
         /\ \A d \in Channel \ {c} : Wrote(p, c, x, w)[d] = p[d]
  <1> DEFINE one == [p[c] EXCEPT !.data = Append(@, x)]
             mid == [p EXCEPT ![c] = one]
             two == [one EXCEPT !.writers = w]
  <1>1. one \in PipeRow /\ one.data = Append(p[c].data, x)
    <2>1. p[c] \in PipeRow
      OBVIOUS
    <2>2. Append(p[c].data, x) \in Seq(Chunk)
      BY <2>1 DEF PipeRow
    <2> QED BY <2>1, <2>2, RowData, Zenon
  <1>2. two \in PipeRow /\ two.data = Append(p[c].data, x)
    <2> HIDE DEF one
    <2>1. {} \in SUBSET End /\ p[c].writers \in SUBSET End
      BY DEF PipeRow
    <2>2. w \in SUBSET End
      BY <2>1
    <2> QED BY <1>1, <2>2, RowWriters, Zenon
  <1>3. mid \in [Channel -> PipeRow] /\ mid[c] = one /\ \A d \in Channel \ {c} : mid[d] = p[d]
    <2> HIDE DEF one
    <2> QED BY <1>1
  <1>4. Wrote(p, c, x, w) = [mid EXCEPT ![c].writers = w]
    BY DEF Wrote
  <1>5. [mid EXCEPT ![c].writers = w] = [mid EXCEPT ![c] = two]
    <2> HIDE DEF one, mid
    <2> QED BY <1>3
  <1> HIDE DEF one, mid, two
  <1>6. Wrote(p, c, x, w) = [mid EXCEPT ![c] = two]
    BY ONLY <1>4, <1>5, Zenon
  <1> QED BY <1>2, <1>3, <1>6

\* A chunk is read.
LEMMA PipeTaken ==
  ASSUME NEW p \in [Channel -> PipeRow], NEW c \in Channel, p[c].data # <<>>
  PROVE  /\ [p EXCEPT ![c].data = Tail(@)] \in [Channel -> PipeRow]
         /\ [p EXCEPT ![c].data = Tail(@)][c].data = Tail(p[c].data)
         /\ \A d \in Channel \ {c} : [p EXCEPT ![c].data = Tail(@)][d] = p[d]
  <1> DEFINE one == [p[c] EXCEPT !.data = Tail(@)]
  <1>1. one \in PipeRow /\ one.data = Tail(p[c].data)
    <2>1. p[c] \in PipeRow
      OBVIOUS
    <2>2. Tail(p[c].data) \in Seq(Chunk)
      BY <2>1 DEF PipeRow
    <2> QED BY <2>1, <2>2, RowData, Zenon
  <1>2. [p EXCEPT ![c].data = Tail(@)] = [p EXCEPT ![c] = one]
    OBVIOUS
  <1> HIDE DEF one
  <1> QED BY <1>1, <1>2

\* Moving the head of one sequence to the end of the other.
LEMMA MoveHead ==
  ASSUME NEW S, NEW a \in Seq(S), NEW b \in Seq(S), b # <<>>
  PROVE  /\ Append(a, Head(b)) \o Tail(b) = a \o b
         /\ Append(a, Head(b)) \in Seq(S) /\ Tail(b) \in Seq(S)
  OBVIOUS

\* A frame is two chunks; its beginnings grow by one.
LEMMA FramePrefixes ==
  /\ Frame \in Seq(Chunk) /\ Len(Frame) = 2
  /\ SubSeq(Frame, 1, 0) = <<>> /\ SubSeq(Frame, 1, 2) = Frame
  /\ \A k \in 0..1 : SubSeq(Frame, 1, k) \o <<Frame[k + 1]>> = SubSeq(Frame, 1, k + 1)
  <1>1. Frame \in Seq(Chunk) /\ Len(Frame) = 2
    BY DEF Frame, Chunk
  <1>2. SubSeq(Frame, 1, 0) = <<>>
    BY <1>1
  <1>3. SubSeq(Frame, 1, 1) = <<Frame[1]>>
    <2>1. SubSeq(Frame, 1, 1) \in Seq(Chunk) /\ Len(SubSeq(Frame, 1, 1)) = 1
      BY <1>1
    <2>2. SubSeq(Frame, 1, 1)[1] = Frame[1]
      BY <1>1
    <2>3. \A s \in Seq(Chunk) : Len(s) = 1 => s = <<s[1]>>
      OBVIOUS
    <2> QED BY <2>1, <2>2, <2>3, Zenon
  <1>4. SubSeq(Frame, 1, 2) = Frame
    BY <1>1
  <1>5. <<>> \o <<Frame[1]>> = <<Frame[1]>> /\ <<Frame[1]>> \o <<Frame[2]>> = Frame
    BY <1>1
  <1> QED BY <1>1, <1>2, <1>3, <1>4, <1>5

\* The helper or the target is gone.
LEMMA DeadProcess ==
  ASSUME HandoffInv, UNCHANGED launch, process' = [process EXCEPT !.pc = "dead"]
  PROVE  process' \in ProcessRow /\ CopyIsApproved' /\ InputIsFrame' /\ StreamIsWritten'
  <1>1. /\ process' \in ProcessRow /\ process'.pc = "dead"
        /\ process'.health = process.health /\ process'.stdin = process.stdin
    BY Zenon DEF HandoffInv, HandoffTypeOK, ProcessRow
  <1> QED BY <1>1 DEF HandoffInv, CopyIsApproved, InputIsFrame, StreamIsWritten, AfterHealth

\* A step of the helper that returns an error.
LEMMA HelperFailsInv ==
  ASSUME HandoffInv, HelperFails, UNCHANGED <<launch, files, parent>> PROVE HandoffInv'
  <1>1. process' \in ProcessRow /\ CopyIsApproved' /\ InputIsFrame' /\ StreamIsWritten'
    BY DeadProcess DEF HelperFails
  <1>2. pipe' \in [Channel -> PipeRow]
    BY ClosesFacts DEF HelperFails, HandoffInv, HandoffTypeOK, End
  <1> QED BY <1>1, <1>2 DEF HandoffInv, HandoffTypeOK

\* A step that leaves the process, what the pipe of the frame holds and what was
\* written of the frame as they are.
LEMMA AroundInv ==
  ASSUME HandoffInv, UNCHANGED <<launch, process>>, files' \in FileRow, parent' \in ParentRow,
         pipe' \in [Channel -> PipeRow], pipe'.boot.data = pipe.boot.data,
         launch.kind = "worker" => \A k \in 0..2 : IsWritten(k) => IsWritten(k)'
  PROVE  HandoffInv'
  <1>1. HandoffTypeOK'
    BY DEF HandoffInv, HandoffTypeOK
  <1>2. CopyIsApproved' /\ InputIsFrame'
    BY Zenon DEF HandoffInv, CopyIsApproved, InputIsFrame
  <1>3. Stream' = Stream
    BY DEF Stream
  <1>4. StreamIsWritten'
    BY <1>3 DEF HandoffInv, StreamIsWritten
  <1> QED BY <1>1, <1>2, <1>4 DEF HandoffInv

\* A step of the parent that fails the launch.
LEMMA FailsInv ==
  ASSUME HandoffInv, Fails, UNCHANGED <<launch, files>> PROVE HandoffInv'
  <1>1. HandoffTypeOK /\ parent' \in ParentRow /\ parent'.pc = "failed"
    BY DEF HandoffInv, HandoffTypeOK, Fails, ParentRow
  <1>2. pipe' \in [Channel -> PipeRow] /\ pipe'.boot.data = pipe.boot.data
    BY <1>1, ClosesFacts DEF Fails, HandoffTypeOK, End, Channel
  <1>3. CASE process.pc = "none"
    <2>1. process' = [process EXCEPT !.pc = "none"]
      BY <1>3 DEF Fails
    <2>2. process' = process
      BY <1>1, <1>3, <2>1 DEF HandoffTypeOK, ProcessRow
    <2>3. \A k \in 0..2 : IsWritten(k)'
      BY <1>1 DEF IsWritten, BeforeFrame
    <2>4. files' \in FileRow
      BY <1>1 DEF HandoffTypeOK
    <2> QED BY <1>1, <1>2, <2>2, <2>3, <2>4, AroundInv
  <1>4. CASE process.pc # "none"
    <2>1. process' = [process EXCEPT !.pc = "dead"]
      BY <1>4 DEF Fails
    <2> QED BY <1>1, <1>2, <2>1, DeadProcess DEF HandoffInv, HandoffTypeOK
  <1> QED BY <1>3, <1>4

\* An edit of the installed files touches neither the helper nor its pipes.
LEMMA FilesStep ==
  ASSUME HandoffInv, Rewrite \/ Rename PROVE HandoffInv'
  <1>1. HandoffTypeOK /\ files \in FileRow /\ UNCHANGED <<launch, parent, pipe, ready, process>>
    BY DEF HandoffInv, HandoffTypeOK, Rewrite, Rename
  <1>2. PICK new \in FileRow : files' = [new EXCEPT !.changes = @ + 1]
    <2>1. ASSUME NEW i \in Inode, NEW b \in 1..2
          PROVE  [files EXCEPT !.exe[i][b] = IF @ = 1 THEN 2 ELSE 1] \in FileRow
      <3> DEFINE e == [files.exe EXCEPT ![i][b] = IF @ = 1 THEN 2 ELSE 1]
      <3>1. e \in [Inode -> [1..2 -> {1, 2}]]
        <4>1. files.exe \in [Inode -> [1..2 -> {1, 2}]]
          BY <1>1 DEF FileRow
        <4> QED BY <4>1
      <3>2. [files EXCEPT !.exe[i][b] = IF @ = 1 THEN 2 ELSE 1] = [files EXCEPT !.exe = e]
        OBVIOUS
      <3> HIDE DEF e
      <3> QED BY <1>1, <3>1, <3>2, Zenon DEF FileRow
    <2>2. \A i \in Inode : [files EXCEPT !.text[i] = IF @ = 1 THEN 2 ELSE 1] \in FileRow
      BY <1>1, Zenon DEF FileRow
    <2>3. \A p \in {"requested", "allowed", "config"} :
             [files EXCEPT ![p] = IF @ = "own" THEN "other" ELSE "own"] \in FileRow
      BY <1>1 DEF FileRow, Inode
    <2>4. [files EXCEPT !.link = ~@] \in FileRow
      BY <1>1, Zenon DEF FileRow
    <2> QED BY <2>1, <2>2, <2>3, <2>4, Zenon DEF Rewrite, Rename, Changes
  <1>3. files' \in FileRow
    <2>1. new.changes + 1 \in Nat
      BY DEF FileRow
    <2> QED BY <1>2, <2>1 DEF FileRow
  <1> QED BY <1>1, <1>3, AroundInv DEF HandoffTypeOK, IsWritten

\* The steps of the parent before it writes, and after it has.
LEMMA ParentStep ==
  ASSUME HandoffInv,
         OpenProtectedConfig \/ BindProtectedConfig \/ WaitForReadyFile \/ TakeChild \/ ParentDies
  PROVE  HandoffInv'
  <1>1. HandoffTypeOK /\ UNCHANGED launch
    BY DEF HandoffInv, OpenProtectedConfig, BindProtectedConfig, WaitForReadyFile, TakeChild,
           ParentDies
  <1>2. CASE Fails /\ UNCHANGED files
    BY <1>1, <1>2, FailsInv
  <1>3. ASSUME NEW pc \in {"bind", "idle", "go", "done", "dead"},
               parent' = [parent EXCEPT !.pc = pc], UNCHANGED process, files' \in FileRow,
               pipe' \in [Channel -> PipeRow], pipe'.boot.data = pipe.boot.data,
               \/ parent.pc \in BeforeFrame /\ pc \in BeforeFrame
               \/ parent.pc = "released" /\ pc = "done"
               \/ pc = "dead"
        PROVE  HandoffInv'
    <2>1. parent' \in ParentRow /\ parent'.pc = pc
      BY <1>1, <1>3 DEF HandoffTypeOK, ParentRow, BeforeFrame
    <2>2. \A k \in 0..2 : IsWritten(k) => IsWritten(k)'
      BY <1>3, <2>1 DEF IsWritten, BeforeFrame
    <2> QED BY <1>1, <1>3, <2>1, <2>2, AroundInv
  <1> DEFINE quiet == pipe' \in [Channel -> PipeRow] /\ pipe'.boot.data = pipe.boot.data
  <1>4. /\ pipe' = Closes(pipe, {"parent"}) => quiet
        /\ UNCHANGED pipe => quiet
        /\ pipe' = [pipe EXCEPT !.boot.readers = @ \ {"parent"}] => quiet
    <2>1. pipe' = Closes(pipe, {"parent"}) => quiet
      BY <1>1, ClosesFacts DEF HandoffTypeOK, End, Channel
    <2>2. UNCHANGED pipe => quiet
      BY <1>1 DEF HandoffTypeOK
    <2>3. pipe' = [pipe EXCEPT !.boot.readers = @ \ {"parent"}] => quiet
      <3>1. {"parent"} \in SUBSET End /\ pipe \in [Channel -> PipeRow]
        BY <1>1 DEF HandoffTypeOK, End
      <3>2. /\ [pipe EXCEPT !.boot.readers = @ \ {"parent"}] \in [Channel -> PipeRow]
            /\ [pipe EXCEPT !.boot.readers = @ \ {"parent"}].boot.data = pipe.boot.data
        BY ONLY <3>1, PipeSet, Zenon
      <3> QED BY <3>2
    <2> QED BY <2>1, <2>2, <2>3
  <1>5. CASE OpenProtectedConfig
    <2>1. CASE /\ \E i \in OpenWithoutLinks : files' = [files EXCEPT !.held = i]
               /\ parent' = [parent EXCEPT !.pc = "bind"]
               /\ UNCHANGED <<pipe, process>>
      <3>1. files' \in FileRow
        BY <1>1, <2>1 DEF OpenWithoutLinks, HandoffTypeOK, FileRow
      <3> QED BY <1>3, <1>4, <1>5, <2>1, <3>1 DEF OpenProtectedConfig, BeforeFrame
    <2> QED BY <1>2, <1>5, <2>1 DEF OpenProtectedConfig
  <1>6. CASE BindProtectedConfig
    BY <1>1, <1>2, <1>3, <1>4, <1>6 DEF BindProtectedConfig, HandoffTypeOK, BeforeFrame
  <1>7. CASE WaitForReadyFile
    BY <1>1, <1>2, <1>3, <1>4, <1>7 DEF WaitForReadyFile, HandoffTypeOK, BeforeFrame
  <1>8. CASE TakeChild \/ ParentDies
    BY <1>1, <1>3, <1>4, <1>8 DEF TakeChild, ParentDies, HandoffTypeOK
  <1> QED BY <1>5, <1>6, <1>7, <1>8

\* A chunk of the request or of GO.
LEMMA ControlStep ==
  ASSUME HandoffInv, SendRequestFrame \/ SendGoMessage PROVE HandoffInv'
  <1>1. HandoffTypeOK /\ UNCHANGED <<launch, files>>
    BY DEF HandoffInv, SendRequestFrame, SendGoMessage
  <1>2. CASE Fails
    BY <1>1, <1>2, FailsInv
  <1>3. ASSUME NEW message \in {RequestFrame, Go}, NEW next \in {"ready", "released", "boot"},
               parent.pc \in {"request", "go"},
               launch.kind = "worker" => next # "released",
               pipe' = [pipe EXCEPT !["control"].data = Append(@, message[parent.sent + 1]),
                                    !["control"].writers = @],
               parent' = [pc |-> IF parent.sent + 1 = Len(message) THEN next ELSE parent.pc,
                          sent |-> IF parent.sent + 1 = Len(message) THEN 0 ELSE parent.sent + 1],
               UNCHANGED process
        PROVE  HandoffInv'
    <2>1. /\ Len(message) = 2 /\ message[1] \in Chunk /\ message[2] \in Chunk
          /\ parent.sent \in {0, 1}
      BY <1>1, <1>3 DEF RequestFrame, Go, Chunk, HandoffTypeOK, ParentRow
    <2>2. parent' \in ParentRow /\ parent'.pc \in {parent.pc, next}
          /\ (parent'.pc = "boot" => parent'.sent = 0)
      BY <1>3, <2>1 DEF ParentRow, BeforeFrame
    <2>3. pipe' \in [Channel -> PipeRow] /\ pipe'.boot.data = pipe.boot.data
      <3>1. /\ pipe \in [Channel -> PipeRow] /\ pipe.control.writers \in SUBSET End
            /\ "control" \in Channel /\ "boot" \in Channel \ {"control"}
        BY <1>1 DEF HandoffTypeOK, Channel, PipeRow
      <3>2. message[parent.sent + 1] \in Chunk
        BY <2>1
      <3> DEFINE x == message[parent.sent + 1]
                 w == pipe["control"].writers
      <3>3. pipe' = Wrote(pipe, "control", x, w)
        BY <1>3, Zenon DEF Wrote
      <3>4. w \in {{}, pipe["control"].writers}
        OBVIOUS
      <3> HIDE DEF x, w
      <3>5. x \in Chunk
        BY <3>2 DEF x
      <3>6. pipe' \in [Channel -> PipeRow] /\ \A d \in Channel \ {"control"} : pipe'[d] = pipe[d]
        BY ONLY <3>1, <3>3, <3>4, <3>5, PipeWrites
      <3> QED BY ONLY <3>1, <3>6
    <2>4. launch.kind = "worker" => \A k \in 0..2 : IsWritten(k) => IsWritten(k)'
      BY <1>3, <2>2 DEF IsWritten, BeforeFrame
    <2> QED BY <1>1, <1>3, <2>2, <2>3, <2>4, AroundInv DEF HandoffTypeOK
  <1>4. CASE SendRequestFrame
    BY <1>2, <1>3, <1>4, Zenon DEF SendRequestFrame, WriteBounded
  <1>5. CASE SendGoMessage
    <2>1. (IF launch.kind = "plain" THEN "released" ELSE "boot") \in {"released", "boot"}
          /\ (launch.kind = "worker" =>
                (IF launch.kind = "plain" THEN "released" ELSE "boot") # "released")
      OBVIOUS
    <2> QED BY <1>2, <1>3, <1>5, <2>1, Zenon DEF SendGoMessage, WriteBounded
  <1> QED BY <1>4, <1>5

\* A chunk of the bootstrap frame.
LEMMA FrameStep ==
  ASSUME HandoffInv, SendFrame PROVE HandoffInv'
  <1>1. HandoffTypeOK /\ UNCHANGED <<launch, files>> /\ parent.pc = "boot"
    BY DEF HandoffInv, SendFrame
  <1>2. CASE Fails
    BY <1>1, <1>2, FailsInv
  <1> DEFINE n == parent.sent
             last == n + 1 = Len(Frame)
             w == IF last /\ "boot" = "boot" THEN {}
                  ELSE pipe["boot"].writers
  <1>3. CASE /\ parent' = [pc |-> IF last THEN "released" ELSE parent.pc,
                           sent |-> IF last THEN 0 ELSE n + 1]
             /\ pipe' = [pipe EXCEPT !["boot"].data = Append(@, Frame[n + 1]),
                                     !["boot"].writers = w]
             /\ UNCHANGED process
    <2>1. n \in 0..1 /\ Len(Frame) = 2 /\ Frame[n + 1] \in Chunk
      BY <1>1 DEF HandoffTypeOK, ParentRow, Frame, Chunk
    <2>2. /\ parent' \in ParentRow
          /\ n = 0 => parent'.pc = "boot" /\ parent'.sent = 1
          /\ n = 1 => parent'.pc = "released"
      BY <1>1, <1>3, <2>1 DEF ParentRow
    <2>3. pipe' \in [Channel -> PipeRow] /\ pipe'.boot.data = Append(pipe.boot.data, Frame[n + 1])
      <3>1. w \in {{}, pipe["boot"].writers}
        BY Zenon
      <3>0. pipe' = Wrote(pipe, "boot", Frame[n + 1], w)
        BY <1>3, Zenon DEF Wrote
      <3>2. pipe \in [Channel -> PipeRow] /\ "boot" \in Channel
        BY <1>1 DEF HandoffTypeOK, Channel
      <3> HIDE DEF w
      <3>3. /\ pipe' \in [Channel -> PipeRow]
            /\ pipe'["boot"].data = Append(pipe["boot"].data, Frame[n + 1])
        BY ONLY <2>1, <3>0, <3>1, <3>2, PipeWrites
      <3> QED BY ONLY <3>3
    <2>4. HandoffTypeOK'
      BY <1>1, <1>3, <2>2, <2>3 DEF HandoffTypeOK
    <2>5. CopyIsApproved' /\ InputIsFrame'
      BY <1>1, <1>3, Zenon DEF HandoffInv, CopyIsApproved, InputIsFrame
    <2>6. ASSUME launch.kind = "worker", process.pc # "dead"
          PROVE  \E k \in 0..2 : IsWritten(k)' /\ Stream' = SubSeq(Frame, 1, k)
      <3>0. PICK k : k = n /\ k \in 0..1 /\ k + 1 \in 0..2
        BY <2>1
      <3>1. Stream = SubSeq(Frame, 1, k)
        BY <3>0, <1>1, <2>6, Zenon DEF HandoffInv, StreamIsWritten, IsWritten
      <3> DEFINE got == IF process.pc = "target" THEN process.got ELSE <<>>
      <3>2. got \in Seq(Chunk) /\ pipe.boot.data \in Seq(Chunk)
        BY <1>1 DEF HandoffTypeOK, ProcessRow, PipeRow, Channel
      <3>3. Stream = got \o pipe.boot.data
            /\ Stream' = got \o Append(pipe.boot.data, Frame[n + 1])
        BY <1>3, <2>3, Zenon DEF Stream
      <3> HIDE DEF got
      <3>4. Stream' = Stream \o <<Frame[k + 1]>>
        <4>1. Frame[k + 1] \in Chunk /\ Stream' = got \o Append(pipe.boot.data, Frame[k + 1])
          BY <2>1, <3>0, <3>3
        <4>2. got \o Append(pipe.boot.data, Frame[k + 1]) = (got \o pipe.boot.data) \o <<Frame[k + 1]>>
          <5>1. PICK b : b = pipe.boot.data /\ b \in Seq(Chunk)
            BY <3>2
          <5>2. PICK x \in Chunk : x = Frame[k + 1]
            BY <4>1
          <5>3. got \in Seq(Chunk) /\ b \in Seq(Chunk) /\ x \in Chunk
            BY <3>2, <5>1
          <5>4. got \o Append(b, x) = (got \o b) \o <<x>>
            BY ONLY <5>3
          <5> QED BY ONLY <5>1, <5>2, <5>4
        <4> QED BY ONLY <3>3, <4>1, <4>2
      <3>5. Stream' = SubSeq(Frame, 1, k + 1)
        BY <3>0, <3>1, <3>4, FramePrefixes
      <3>6. IsWritten(k + 1)'
        BY <2>1, <2>2, <3>0 DEF IsWritten, BeforeFrame
      <3> QED BY <3>0, <3>5, <3>6
    <2>7. StreamIsWritten'
      BY ONLY <1>1, <1>3, <2>6 DEF StreamIsWritten
    <2> QED BY <2>4, <2>5, <2>7 DEF HandoffInv
  <1> QED BY <1>2, <1>3, Zenon DEF SendFrame, WriteBounded

\* The helper is spawned, with empty pipes.
LEMMA PrepareInnerInv ==
  ASSUME HandoffInv, PrepareInner PROVE HandoffInv'
  <1>1. HandoffTypeOK /\ UNCHANGED <<launch, files>> /\ parent.pc = "idle"
    BY DEF HandoffInv, PrepareInner
  <1>2. CASE Fails
    BY <1>1, <1>2, FailsInv
  <1>3. CASE /\ parent' = [pc |-> "request", sent |-> 0]
             /\ pipe' = ParentDescriptors
             /\ process' = [process EXCEPT !.pc = "start"]
    <2>1. parent' \in ParentRow /\ parent'.pc = "request"
      BY <1>3 DEF ParentRow, BeforeFrame
    <2>2. /\ process' \in ProcessRow /\ process'.pc = "start"
          /\ process'.health = process.health /\ process'.stdin = process.stdin
      BY <1>1, <1>3, Zenon DEF HandoffTypeOK, ProcessRow, BeforeHealth
    <2>3. pipe' \in [Channel -> PipeRow] /\ pipe'.boot.data = <<>>
      <3>1. <<>> \in Seq(Chunk)
        OBVIOUS
      <3>2. NoPipe \in PipeRow
            /\ [NoPipe EXCEPT !.writers = {"parent"}, !.readers = {"helper"}] \in PipeRow
            /\ [NoPipe EXCEPT !.writers = {"parent"}, !.readers = {"parent"}] \in PipeRow
        BY <3>1, Zenon DEF NoPipe, PipeRow, End
      <3>3. NoPipe.data = <<>>
            /\ [NoPipe EXCEPT !.writers = {"parent"}, !.readers = {"parent"}].data = <<>>
        BY DEF NoPipe
      <3> QED BY <1>3, <3>2, <3>3 DEF ParentDescriptors, Channel
    <2>4. HandoffTypeOK'
      BY <1>1, <2>1, <2>2, <2>3 DEF HandoffTypeOK
    <2>5. CopyIsApproved' /\ InputIsFrame'
      BY <1>1, <2>2, Zenon DEF HandoffInv, CopyIsApproved, InputIsFrame, AfterHealth
    <2>6. Stream' = SubSeq(Frame, 1, 0) /\ IsWritten(0)'
      <3>1. Stream' = <<>>
        BY <2>2, <2>3 DEF Stream
      <3> QED BY <2>1, <3>1, FramePrefixes DEF IsWritten, BeforeFrame
    <2> QED BY <2>4, <2>5, <2>6 DEF HandoffInv, StreamIsWritten
  <1> QED BY <1>2, <1>3 DEF PrepareInner

\* The helper goes on to its next step.
HelperPc == BeforeHealth \cup {"health"} \cup AfterHealth

\* A step of the helper that only moves on keeps what it has read and copied.
LEMMA GoesTo ==
  ASSUME process \in ProcessRow, NEW pc \in HelperPc, HelperGoesTo(pc)
  PROVE  /\ process' \in ProcessRow /\ process'.pc = pc /\ process'.copy = process.copy
         /\ process'.from = process.from /\ process'.health = process.health
         /\ process'.stdin = process.stdin
  <1>1. <<>> \in Seq(Chunk)
    OBVIOUS
  <1> QED BY <1>1, Zenon DEF HelperGoesTo, ProcessRow, HelperPc

\* A step of the helper.
LEMMA HelperStep ==
  ASSUME HandoffInv, UNCHANGED <<launch, files, parent>>, process' \in ProcessRow,
         pipe' \in [Channel -> PipeRow], process.pc \in HelperPc, process'.pc \in HelperPc,
         launch.kind # "gateway" => pipe'.boot.data = pipe.boot.data,
         process'.stdin = process.stdin,
         launch.kind # "gateway" => process'.pc # "health" /\ process'.health = process.health,
         launch.kind = "gateway" /\ process'.pc \in AfterHealth => process'.health = Frame,
         process'.pc \in {"copy", "exec"} => process'.from \in Inode /\ launch.role # "HostBroker",
         process'.pc = "exec" => process'.copy = <<Approved, Approved>>
  PROVE  HandoffInv'
  <1>1. process.pc \notin {"target", "dead"} /\ process'.pc \notin {"target", "dead"}
    BY Zenon DEF HelperPc, BeforeHealth, AfterHealth
  <1>2. HandoffTypeOK'
    BY DEF HandoffInv, HandoffTypeOK
  <1>3. CopyIsApproved'
    BY DEF CopyIsApproved
  <1>4. InputIsFrame'
    BY <1>1, Zenon DEF HandoffInv, InputIsFrame
  <1>5. ASSUME launch.kind = "worker" PROVE Stream' = Stream
    BY <1>1, <1>5, Zenon DEF Stream
  <1>6. StreamIsWritten'
    <2>1. \A n \in 0..2 : IsWritten(n) => IsWritten(n)'
      BY DEF IsWritten
    <2> QED BY <1>1, <1>5, <2>1 DEF HandoffInv, StreamIsWritten
  <1> QED BY <1>2, <1>3, <1>4, <1>6, Zenon DEF HandoffInv

\* The helper checks something and goes on.
LEMMA CheckStep ==
  ASSUME HandoffInv, UNCHANGED <<launch, files, parent>>, NEW pc \in HelperPc, HelperGoesTo(pc),
         pipe' \in [Channel -> PipeRow], pipe'.boot.data = pipe.boot.data, process.pc \in HelperPc,
         pc \notin {"copy", "exec"},
         launch.kind # "gateway" => pc # "health",
         launch.kind = "gateway" /\ pc \in AfterHealth => process.pc \in AfterHealth
  PROVE  HandoffInv'
  <1>1. process \in ProcessRow
    BY DEF HandoffInv, HandoffTypeOK
  <1>2. /\ process' \in ProcessRow /\ process'.pc = pc
        /\ process'.health = process.health /\ process'.stdin = process.stdin
    BY <1>1, GoesTo, Zenon
  <1>3. launch.kind = "gateway" /\ process'.pc \in AfterHealth => process'.health = Frame
    BY <1>2, Zenon DEF HandoffInv, InputIsFrame
  <1> QED BY <1>2, <1>3, HelperStep, Zenon

\* Reporting ready, the lookup in the configuration and the hash of the executable.
LEMMA QuietSteps ==
  ASSUME HandoffInv, SendReady \/ AuthorizeByConfig \/ HashExecutable PROVE HandoffInv'
  <1>1. UNCHANGED <<launch, files, parent>> /\ pipe \in [Channel -> PipeRow]
    BY DEF HandoffInv, HandoffTypeOK, SendReady, AuthorizeByConfig, HashExecutable
  <1>2. CASE HelperFails
    BY <1>1, <1>2, HelperFailsInv
  <1>3. CASE SendReady /\ HelperGoesTo("go") /\ UNCHANGED pipe
    BY <1>1, <1>3, CheckStep DEF SendReady, HelperPc, BeforeHealth, AfterHealth
  <1>4. CASE AuthorizeByConfig /\ HelperGoesTo("hash") /\ UNCHANGED pipe
    BY <1>1, <1>4, CheckStep DEF AuthorizeByConfig, HelperPc, BeforeHealth, AfterHealth
  <1>5. CASE HashExecutable /\ HelperGoesTo("resolve") /\ UNCHANGED pipe
    BY <1>1, <1>5, CheckStep DEF HashExecutable, HelperPc, BeforeHealth, AfterHealth
  <1> QED BY <1>2, <1>3, <1>4, <1>5, Zenon DEF SendReady, AuthorizeByConfig, HashExecutable

\* The descriptors are opened anew.
LEMMA OpenStep ==
  ASSUME HandoffInv, OpenParentDescriptors PROVE HandoffInv'
  <1>1. UNCHANGED <<launch, files, parent>> /\ pipe \in [Channel -> PipeRow]
    BY DEF HandoffInv, HandoffTypeOK, OpenParentDescriptors
  <1>2. CASE HelperFails
    BY <1>1, <1>2, HelperFailsInv
  <1>3. CASE pipe' = OpenParentPipe /\ HelperGoesTo("request")
    <2> DEFINE r == IF "parent" \in pipe.boot.readers THEN pipe.boot.readers \cup {"helper"}
                    ELSE pipe.boot.readers
               new == [pipe.boot EXCEPT !.readers = r]
    <2>1. pipe.boot \in PipeRow
      BY <1>1 DEF Channel
    <2>2. r \in SUBSET End
      BY <2>1 DEF PipeRow, End
    <2>3. new \in PipeRow /\ new.data = pipe.boot.data
      <3> HIDE DEF r
      <3> QED BY <2>1, <2>2 DEF PipeRow
    <2>4. pipe' = [pipe EXCEPT !.boot = new]
      BY <1>3 DEF OpenParentPipe
    <2> HIDE DEF r, new
    <2>5. pipe' \in [Channel -> PipeRow] /\ pipe'.boot.data = pipe.boot.data
      BY <1>1, <2>3, <2>4 DEF Channel
    <2> QED BY <1>1, <1>3, <2>5, CheckStep
            DEF OpenParentDescriptors, HelperPc, BeforeHealth, AfterHealth
  <1> QED BY <1>2, <1>3 DEF OpenParentDescriptors

\* The helper reads a chunk of the control pipe.
LEMMA ControlReads ==
  ASSUME HandoffInv, ReadRequestFrame \/ ReadGo PROVE HandoffInv'
  <1>1. /\ UNCHANGED <<launch, files, parent>> /\ pipe \in [Channel -> PipeRow]
        /\ process \in ProcessRow /\ process.pc \in {"request", "go"}
    BY DEF HandoffInv, HandoffTypeOK, ReadRequestFrame, ReadGo
  <1>2. CASE HelperFails
    BY <1>1, <1>2, HelperFailsInv
  <1>3. ASSUME pipe.control.data # <<>>, pipe' = [pipe EXCEPT !["control"].data = Tail(@)]
        PROVE  /\ pipe' \in [Channel -> PipeRow] /\ pipe'.boot.data = pipe.boot.data
               /\ Append(process.got, Head(pipe.control.data)) \in Seq(Chunk)
    <2>1. "control" \in Channel /\ "boot" \in Channel \ {"control"} /\ pipe["control"] \in PipeRow
      BY <1>1 DEF Channel
    <2>2. pipe' \in [Channel -> PipeRow] /\ \A d \in Channel \ {"control"} : pipe'[d] = pipe[d]
      BY <1>1, <1>3, <2>1, PipeTaken, Zenon
    <2>3. Append(process.got, Head(pipe.control.data)) \in Seq(Chunk)
      BY <1>1, <1>3, <2>1 DEF PipeRow, ProcessRow
    <2> QED BY <2>1, <2>2, <2>3
  <1>4. ASSUME pipe.control.data # <<>>, pipe' = [pipe EXCEPT !["control"].data = Tail(@)],
               process' = [process EXCEPT !.got = Append(process.got, Head(pipe.control.data))]
        PROVE  HandoffInv'
    <2>1. /\ process' \in ProcessRow /\ process'.pc = process.pc
          /\ process'.health = process.health /\ process'.stdin = process.stdin
      <3> DEFINE g == Append(process.got, Head(pipe.control.data))
      <3>1. g \in Seq(Chunk) /\ process' = [process EXCEPT !.got = g]
        BY <1>3, <1>4
      <3> HIDE DEF g
      <3> QED BY <1>1, <3>1, Zenon DEF ProcessRow
    <2> QED BY <1>1, <1>3, <1>4, <2>1, HelperStep DEF HelperPc, BeforeHealth, AfterHealth
  <1>5. ASSUME pipe.control.data # <<>>, pipe' = [pipe EXCEPT !["control"].data = Tail(@)],
               NEW pc \in {"ack", "config", "health"}, HelperGoesTo(pc),
               pc = "config" => launch.kind # "gateway",
               pc = "health" => launch.kind = "gateway"
        PROVE  HandoffInv'
    BY <1>1, <1>3, <1>5, CheckStep DEF HelperPc, BeforeHealth, AfterHealth
  <1>6. CASE ReadRequestFrame
    BY <1>2, <1>4, <1>5, <1>6 DEF ReadRequestFrame, ReadExactBounded
  <1>7. CASE ReadGo
    <2> DEFINE pc == IF launch.kind = "gateway" THEN "health" ELSE "config"
    <2>1. /\ pc \in {"ack", "config", "health"}
          /\ pc = "config" => launch.kind # "gateway"
          /\ pc = "health" => launch.kind = "gateway"
      OBVIOUS
    <2>2. ReadExactBounded("control", Go, pc)
      BY <1>7 DEF ReadGo
    <2> HIDE DEF pc
    <2> QED BY <1>2, <1>4, <1>5, <2>1, <2>2 DEF ReadExactBounded
  <1> QED BY <1>6, <1>7

\* The target is resolved, copied and verified.
LEMMA CopySteps ==
  ASSUME HandoffInv, ResolveTarget \/ CopyBlock \/ VerifyCopy PROVE HandoffInv'
  <1>1. /\ UNCHANGED <<launch, files, parent>> /\ pipe \in [Channel -> PipeRow]
        /\ process \in ProcessRow /\ files \in FileRow /\ process.pc \in {"resolve", "copy"}
        /\ process.pc \in AfterHealth /\ process.pc \in HelperPc
    BY DEF HandoffInv, HandoffTypeOK, ResolveTarget, CopyBlock, VerifyCopy, AfterHealth, HelperPc
  <1>2. CASE HelperFails
    BY <1>1, <1>2, HelperFailsInv
  <1>3. ASSUME UNCHANGED pipe, process' \in ProcessRow, process'.pc \in {"copy", "exec"},
               process'.stdin = process.stdin, process'.health = process.health,
               process'.from \in Inode, launch.role # "HostBroker",
               process'.pc = "exec" => process'.copy = <<Approved, Approved>>
        PROVE  HandoffInv'
    <2>1. launch.kind = "gateway" => process'.health = Frame
      BY <1>1, <1>3, Zenon DEF HandoffInv, InputIsFrame
    <2> QED BY <1>1, <1>3, <2>1, HelperStep DEF HelperPc, AfterHealth
  <1>4. CASE ResolveTarget /\ ~HelperFails
    <2>1. /\ launch.role # "HostBroker" /\ files.allowed \in Inode /\ UNCHANGED pipe
          /\ process' = [process EXCEPT !.pc = "copy", !.from = files.allowed]
      BY <1>1, <1>4 DEF ResolveTarget, FileRow
    <2>2. /\ process' \in ProcessRow /\ process'.pc = "copy" /\ process'.from \in Inode
          /\ process'.stdin = process.stdin /\ process'.health = process.health
      BY <1>1, <2>1, Zenon DEF ProcessRow, AfterHealth
    <2> QED BY <1>3, <2>1, <2>2
  <1>5. CASE CopyBlock
    <2>1. process.from \in Inode /\ launch.role # "HostBroker" /\ process.pc = "copy" /\ UNCHANGED pipe
      BY <1>5 DEF HandoffInv, CopyIsApproved, CopyBlock
    <2> DEFINE c == Append(process.copy, files.exe[process.from][Len(process.copy) + 1])
    <2>2. c \in Seq(Nat)
      <3>1. process.copy \in Seq(Nat) /\ Len(process.copy) + 1 \in 1..2
        BY <1>1, <1>5 DEF ProcessRow, CopyBlock
      <3>2. files.exe[process.from] \in [1..2 -> {1, 2}]
        BY <1>1, <2>1 DEF FileRow
      <3>3. files.exe[process.from][Len(process.copy) + 1] \in Nat
        BY <3>1, <3>2
      <3> QED BY <3>1, <3>3
    <2>3. process' = [process EXCEPT !.copy = c]
      BY <1>5 DEF CopyBlock
    <2> HIDE DEF c
    <2>4. /\ process' \in ProcessRow /\ process'.pc = "copy" /\ process'.from \in Inode
          /\ process'.stdin = process.stdin /\ process'.health = process.health
      BY <1>1, <2>1, <2>2, <2>3, Zenon DEF ProcessRow
    <2> QED BY <1>3, <2>1, <2>4
  <1>6. CASE VerifyCopy /\ ~HelperFails
    <2>1. /\ process.from \in Inode /\ launch.role # "HostBroker" /\ Digest(process.copy) = Approved
          /\ Len(process.copy) = 2 /\ HelperGoesTo("exec") /\ UNCHANGED pipe
      BY <1>6 DEF HandoffInv, CopyIsApproved, VerifyCopy
    <2>2. process.copy = <<Approved, Approved>>
      <3>1. process.copy \in Seq(Nat)
        BY <1>1 DEF ProcessRow
      <3>2. process.copy[1] = 1 /\ process.copy[2] = 1
        BY <2>1 DEF Digest, Approved
      <3> QED BY <2>1, <3>1, <3>2 DEF Approved
    <2>3. "exec" \in HelperPc
      BY DEF HelperPc, AfterHealth
    <2>4. /\ process' \in ProcessRow /\ process'.pc = "exec" /\ process'.copy = process.copy
          /\ process'.from = process.from /\ process'.health = process.health
          /\ process'.stdin = process.stdin
      BY <1>1, <2>1, <2>3, GoesTo
    <2> QED BY <1>3, <2>1, <2>2, <2>4, Zenon
  <1> QED BY <1>2, <1>4, <1>5, <1>6

\* The helper of a gateway reads the frame.
LEMMA HealthSteps ==
  ASSUME HandoffInv, ReadHealthFrame PROVE HandoffInv'
  <1>1. /\ UNCHANGED <<launch, files, parent>> /\ pipe \in [Channel -> PipeRow]
        /\ process \in ProcessRow /\ process.pc = "health" /\ process.pc \in HelperPc
        /\ launch.kind = "gateway"
    BY DEF HandoffInv, HandoffTypeOK, InputIsFrame, ReadHealthFrame, HelperPc
  <1>2. CASE HelperFails
    BY <1>1, <1>2, HelperFailsInv
  <1>3. CASE /\ pipe.boot.data # <<>>
             /\ process' = [process EXCEPT !.got = Append(@, Head(pipe.boot.data))]
             /\ pipe' = [pipe EXCEPT !.boot.data = Tail(@)]
    <2>1. "boot" \in Channel /\ pipe["boot"] \in PipeRow
      BY <1>1 DEF Channel
    <2>2. pipe' \in [Channel -> PipeRow]
      BY <1>1, <1>3, <2>1, PipeTaken, Zenon
    <2> DEFINE g == Append(process.got, Head(pipe.boot.data))
    <2>3. g \in Seq(Chunk)
      BY <1>1, <1>3, <2>1 DEF PipeRow, ProcessRow
    <2>4. process' = [process EXCEPT !.got = g]
      BY <1>3
    <2> HIDE DEF g
    <2>5. process' \in ProcessRow /\ process'.pc = "health" /\ process'.stdin = process.stdin
      BY <1>1, <2>3, <2>4, Zenon DEF ProcessRow
    <2> QED BY <1>1, <2>2, <2>5, HelperStep DEF AfterHealth
  <1>4. CASE /\ process.got = Frame
             /\ process' = [process EXCEPT !.pc = "config", !.health = process.got]
             /\ UNCHANGED pipe
    <2>1. /\ process' \in ProcessRow /\ process'.pc = "config" /\ process'.stdin = process.stdin
          /\ process'.health = Frame
      BY <1>1, <1>4, Zenon DEF ProcessRow, AfterHealth
    <2> QED BY <1>1, <1>4, <2>1, HelperStep DEF HelperPc, AfterHealth
  <1> QED BY <1>2, <1>3, <1>4 DEF ReadHealthFrame

\* The copy is executed.
LEMMA ExecStep ==
  ASSUME HandoffInv, ExecTarget PROVE HandoffInv'
  <1>1. /\ UNCHANGED <<launch, files, parent>> /\ pipe \in [Channel -> PipeRow]
        /\ process \in ProcessRow /\ process.pc = "exec" /\ HandoffTypeOK
    BY DEF HandoffInv, HandoffTypeOK, ExecTarget
  <1>2. CASE HelperFails
    BY <1>1, <1>2, HelperFailsInv
  <1>3. CASE /\ process' = [process EXCEPT !.pc = "target", !.got = <<>>, !.stdin = GatewayStdin]
             /\ pipe' = WorkerStdin(Closes(pipe, {"helper"}))
    <2>1. <<>> \in Seq(Chunk)
      OBVIOUS
    <2>2. /\ process' \in ProcessRow /\ process'.pc = "target" /\ process'.got = <<>>
          /\ process'.stdin = process.health /\ process'.health = process.health
      BY <1>1, <1>3, <2>1, Zenon DEF ProcessRow, GatewayStdin
    <2>3. pipe' \in [Channel -> PipeRow] /\ pipe'.boot.data = pipe.boot.data
      <3> DEFINE q == Closes(pipe, {"helper"})
                 who == IF launch.kind = "worker" THEN {"target"} ELSE {}
      <3>1. q \in [Channel -> PipeRow] /\ q.boot.data = pipe.boot.data
        BY <1>1, ClosesFacts DEF End, Channel
      <3>2. pipe' = [q EXCEPT !.boot.readers = @ \cup who]
        BY <1>3 DEF WorkerStdin
      <3>3. who \in SUBSET End
        BY DEF End
      <3> HIDE DEF q, who
      <3>4. /\ [q EXCEPT !.boot.readers = @ \cup who] \in [Channel -> PipeRow]
            /\ [q EXCEPT !.boot.readers = @ \cup who].boot.data = q.boot.data
        BY ONLY <3>1, <3>3, PipeSet, Zenon
      <3> QED BY <3>1, <3>2, <3>4
    <2>4. HandoffTypeOK' /\ CopyIsApproved'
      BY <1>1, <2>2, <2>3 DEF HandoffTypeOK, CopyIsApproved
    <2>5. InputIsFrame'
      <3>1. <<>> \o Frame = Frame
        BY FramePrefixes
      <3> QED BY <1>1, <2>2, <3>1 DEF HandoffInv, InputIsFrame, AfterHealth
    <2>6. Stream' = Stream
      BY <1>1, <2>2, <2>3 DEF Stream
    <2>7. StreamIsWritten'
      <3>1. \A n \in 0..2 : IsWritten(n) => IsWritten(n)'
        BY <1>1 DEF IsWritten
      <3> QED BY <1>1, <2>2, <2>6, <3>1 DEF HandoffInv, StreamIsWritten
    <2> QED BY <2>4, <2>5, <2>7 DEF HandoffInv
  <1> QED BY <1>2, <1>3 DEF ExecTarget

\* The target reads a chunk of its input.
LEMMA ReadStep ==
  ASSUME HandoffInv, TargetReads PROVE HandoffInv'
  <1>1. /\ UNCHANGED <<launch, files, parent>> /\ pipe \in [Channel -> PipeRow]
        /\ process \in ProcessRow /\ process.pc = "target" /\ HandoffTypeOK
        /\ pipe.boot.data \in Seq(Chunk) /\ process.got \in Seq(Chunk)
        /\ process.stdin \in Seq(Chunk)
    BY DEF HandoffInv, HandoffTypeOK, TargetReads, ProcessRow, PipeRow, Channel
  <1>2. \A n \in 0..2 : IsWritten(n) => IsWritten(n)'
    BY <1>1 DEF IsWritten
  <1>3. CASE /\ launch.kind = "worker" /\ pipe.boot.data # <<>>
             /\ process' = [process EXCEPT !.got = Append(@, Head(pipe.boot.data))]
             /\ pipe' = [pipe EXCEPT !.boot.data = Tail(@)]
    <2>1. "boot" \in Channel
      BY DEF Channel
    <2>2. pipe' \in [Channel -> PipeRow] /\ pipe'.boot.data = Tail(pipe.boot.data)
      <3>1. /\ [pipe EXCEPT !["boot"].data = Tail(@)] \in [Channel -> PipeRow]
            /\ [pipe EXCEPT !["boot"].data = Tail(@)]["boot"].data = Tail(pipe["boot"].data)
        BY <1>1, <1>3, <2>1, PipeTaken, Zenon
      <3> QED BY <1>3, <3>1, Zenon
    <2> DEFINE g == Append(process.got, Head(pipe.boot.data))
    <2>3. g \in Seq(Chunk) /\ g \o Tail(pipe.boot.data) = process.got \o pipe.boot.data
      <3>1. PICK a \in Seq(Chunk), b \in Seq(Chunk) :
               a = process.got /\ b = pipe.boot.data /\ b # <<>>
        BY <1>1, <1>3
      <3>2. Append(a, Head(b)) \o Tail(b) = a \o b /\ Append(a, Head(b)) \in Seq(Chunk)
        <4>1. a \in Seq(Chunk) /\ b \in Seq(Chunk) /\ b # <<>>
          BY <3>1
        <4> QED BY ONLY <4>1
      <3> QED BY ONLY <3>1, <3>2, Zenon
    <2>4. process' = [process EXCEPT !.got = g]
      BY <1>3
    <2> HIDE DEF g
    <2>5. /\ process' \in ProcessRow /\ process'.pc = "target" /\ process'.got = g
          /\ process'.stdin = process.stdin /\ process'.health = process.health
      BY <1>1, <2>3, <2>4, Zenon DEF ProcessRow
    <2>6. HandoffTypeOK' /\ CopyIsApproved' /\ InputIsFrame'
      BY <1>1, <1>3, <2>2, <2>5, Zenon DEF HandoffInv, HandoffTypeOK, CopyIsApproved, InputIsFrame
    <2>7. Stream' = Stream
      BY <1>1, <2>2, <2>3, <2>5, Zenon DEF Stream
    <2>8. StreamIsWritten'
      BY <1>1, <1>2, <2>5, <2>7 DEF HandoffInv, StreamIsWritten
    <2> QED BY <2>6, <2>8 DEF HandoffInv
  <1>4. CASE /\ process.stdin # <<>>
             /\ process' = [process EXCEPT !.got = Append(@, Head(process.stdin)),
                                           !.stdin = Tail(@)]
             /\ UNCHANGED pipe
    <2> DEFINE g == Append(process.got, Head(process.stdin))
               t == Tail(process.stdin)
    <2>1. g \in Seq(Chunk) /\ t \in Seq(Chunk) /\ g \o t = process.got \o process.stdin
      BY <1>1, <1>4, MoveHead, Zenon
    <2>2. process' = [process EXCEPT !.got = g, !.stdin = t]
      BY <1>4
    <2>3. launch.kind = "gateway"
      BY <1>1, <1>4 DEF HandoffInv, InputIsFrame
    <2> HIDE DEF g, t
    <2>4. /\ process' \in ProcessRow /\ process'.pc = "target" /\ process'.got = g
          /\ process'.stdin = t
      BY <1>1, <2>1, <2>2, Zenon DEF ProcessRow
    <2>5. HandoffTypeOK' /\ CopyIsApproved' /\ StreamIsWritten'
      BY <1>1, <1>4, <2>3, <2>4 DEF HandoffTypeOK, CopyIsApproved, StreamIsWritten
    <2>6. InputIsFrame'
      BY <1>1, <2>1, <2>3, <2>4, Zenon DEF HandoffInv, InputIsFrame, AfterHealth
    <2> QED BY <2>5, <2>6 DEF HandoffInv
  <1> QED BY <1>3, <1>4 DEF TargetReads

\* The end of the launched process closes its ends of the pipes.
LEMMA ProcessDiesInv ==
  ASSUME HandoffInv, ProcessDies PROVE HandoffInv'
  <1>1. pipe' \in [Channel -> PipeRow]
    BY ClosesFacts DEF ProcessDies, HandoffInv, HandoffTypeOK, End
  <1>2. process' \in ProcessRow /\ CopyIsApproved' /\ InputIsFrame' /\ StreamIsWritten'
    BY DeadProcess DEF ProcessDies
  <1> QED BY <1>1, <1>2 DEF HandoffInv, HandoffTypeOK, ProcessDies

\* Before the launch nothing is written, copied or read.
LEMMA HandoffInitInv == HandoffInit => HandoffInv
  <1> SUFFICES ASSUME HandoffInit PROVE HandoffInv
    OBVIOUS
  <1>1. <<>> \in Seq(Chunk) /\ <<>> \in Seq(Nat)
    OBVIOUS
  <1>2. files \in FileRow
    <2> DEFINE x == [own |-> <<1, 1>>, other |-> <<2, 2>>]
               t == [own |-> 1, other |-> 2]
    <2>1. x \in [Inode -> [1..2 -> {1, 2}]]
      <3>1. <<1, 1>> \in [1..2 -> {1, 2}] /\ <<2, 2>> \in [1..2 -> {1, 2}]
        OBVIOUS
      <3> QED BY <3>1 DEF Inode
    <2>2. t \in [Inode -> {1, 2}]
      BY DEF Inode
    <2>3. files = [exe |-> x, config |-> "own", link |-> FALSE, text |-> t, held |-> "none",
                   requested |-> "own", allowed |-> "own", changes |-> 0]
      BY Zenon DEF HandoffInit
    <2>4. "own" \in Inode /\ FALSE \in BOOLEAN /\ "none" \in Inode \cup {"none"} /\ 0 \in Nat
      BY DEF Inode
    <2> HIDE DEF x, t
    <2> QED BY <2>1, <2>2, <2>3, <2>4 DEF FileRow
  <1>3. pipe \in [Channel -> PipeRow] /\ pipe.boot.data = <<>>
    <2>1. NoPipe \in PipeRow /\ NoPipe.data = <<>>
      BY <1>1 DEF NoPipe, PipeRow
    <2>2. pipe = [control |-> NoPipe, boot |-> NoPipe]
      BY Zenon DEF HandoffInit
    <2> QED BY <2>1, <2>2 DEF Channel
  <1>4. parent \in ParentRow /\ parent.pc = "open"
    BY Zenon DEF HandoffInit, ParentRow, BeforeFrame
  <1>5. /\ process \in ProcessRow /\ process.pc = "none" /\ process.health = <<>>
        /\ process.stdin = <<>>
    BY <1>1, Zenon DEF HandoffInit, ProcessRow, BeforeHealth
  <1>6. HandoffTypeOK
    BY <1>2, <1>3, <1>4, <1>5, Zenon DEF HandoffInit, HandoffTypeOK
  <1>7. CopyIsApproved /\ InputIsFrame
    BY <1>5 DEF CopyIsApproved, InputIsFrame, AfterHealth
  <1>8. IsWritten(0) /\ Stream = SubSeq(Frame, 1, 0)
    <2>1. Stream = <<>>
      BY <1>3, <1>5 DEF Stream
    <2> QED BY <1>4, <2>1, FramePrefixes DEF IsWritten, BeforeFrame
  <1> QED BY <1>6, <1>7, <1>8 DEF HandoffInv, StreamIsWritten

\* Every step of the handoff keeps the invariant.
LEMMA HandoffNextInv == HandoffInv /\ [HandoffNext]_handoffVars => HandoffInv'
  <1> SUFFICES ASSUME HandoffInv, [HandoffNext]_handoffVars PROVE HandoffInv'
    OBVIOUS
  <1>1. CASE UNCHANGED handoffVars
    BY <1>1, Zenon DEF handoffVars, HandoffInv, HandoffTypeOK, CopyIsApproved, InputIsFrame,
                StreamIsWritten, Stream, IsWritten
  <1>2. CASE HandoffNext
    BY <1>2, FilesStep, ParentStep, PrepareInnerInv, ControlStep, FrameStep, OpenStep, QuietSteps,
       ControlReads, CopySteps, HealthSteps, ExecStep, ReadStep, ProcessDiesInv DEF HandoffNext
  <1> QED BY <1>1, <1>2

\* Every reachable state has the invariant.
THEOREM HandoffInvariant == HandoffSpec => []HandoffInv
  BY HandoffInitInv, HandoffNextInv, PTL DEF HandoffSpec

\* What a target reads from its standard input (gateway_health_stdin,
\* set_worker_reader_blocking) is its own bootstrap frame.
THEOREM TargetReadsFrame == HandoffSpec => []TargetReadsItsFrame
  <1>1. ASSUME HandoffInv PROVE TargetReadsItsFrame
    <2> SUFFICES ASSUME process.pc = "target"
                 PROVE  LET input == process.got \o (IF launch.kind = "worker" THEN pipe.boot.data
                                                     ELSE process.stdin)
                        IN  /\ launch.kind = "gateway" => input = Frame
                            /\ launch.kind = "worker" =>
                                  /\ \E n \in 0..Len(Frame) : input = SubSeq(Frame, 1, n)
                                  /\ parent.pc \in {"released", "done"} => input = Frame
                            /\ launch.kind = "plain" => input = <<>>
      BY Zenon DEF TargetReadsItsFrame
    <2>1. launch.kind = "gateway" => process.got \o process.stdin = Frame
      BY <1>1, Zenon DEF HandoffInv, InputIsFrame
    <2>2. ASSUME launch.kind = "worker"
          PROVE  /\ \E n \in 0..Len(Frame) : process.got \o pipe.boot.data = SubSeq(Frame, 1, n)
                 /\ parent.pc \in {"released", "done"} => process.got \o pipe.boot.data = Frame
      <3>1. PICK n \in 0..2 : IsWritten(n) /\ Stream = SubSeq(Frame, 1, n)
        BY <1>1, <2>2 DEF HandoffInv, StreamIsWritten
      <3>2. Stream = process.got \o pipe.boot.data
        BY DEF Stream
      <3> QED BY <3>1, <3>2, FramePrefixes, Zenon DEF IsWritten
    <2>3. launch.kind = "plain" => process.got = <<>> /\ process.stdin = <<>>
      BY <1>1 DEF HandoffInv, InputIsFrame
    <2>4. <<>> \o <<>> = <<>>
      OBVIOUS
    <2> QED BY <2>1, <2>2, <2>3, <2>4, Zenon
  <1> QED BY <1>1, HandoffInvariant, PTL

\* What runs was approved by the launch and by the configuration (hash_and_copy,
\* protected_config_from_bootstrap).
THEOREM ExecsApproved == HandoffSpec => ExecIsApproved
  <1> DEFINE Step == /\ process.pc = "config" /\ process'.pc = "hash" =>
                           files.text[files.held] = Approved
                     /\ process.pc = "exec" /\ process'.pc = "target" =>
                           process'.copy = <<Approved, Approved>> /\ launch.role # "HostBroker"
  <1>1. ASSUME HandoffInv, [HandoffNext]_handoffVars PROVE [Step]_handoffVars
    <2>1. HandoffTypeOK /\ process \in ProcessRow
      BY <1>1 DEF HandoffInv, HandoffTypeOK
    <2>2. CASE UNCHANGED process
      BY <2>2
    <2>3. CASE process'.pc \in {"dead", "start"}
      BY <2>3, Zenon
    <2>4. CASE AuthorizeByConfig
      <3>1. HelperFails => process'.pc = "dead"
        BY <2>1 DEF HelperFails, ProcessRow
      <3> QED BY <2>3, <2>4, <3>1, Zenon DEF AuthorizeByConfig
    <2>5. CASE ExecTarget
      <3>1. process.copy = <<Approved, Approved>> /\ launch.role # "HostBroker"
        BY <1>1, <2>5 DEF HandoffInv, CopyIsApproved, ExecTarget
      <3>2. process.pc = "exec" /\ (process'.pc = "target" => process'.copy = process.copy)
        BY <2>1, <2>5, Zenon DEF ExecTarget, HelperFails, ProcessRow
      <3> QED BY <3>1, <3>2
    <2>6. CASE process.pc \notin {"config", "exec"}
      BY <2>6, Zenon
    <2>7. \/ UNCHANGED process \/ process'.pc \in {"dead", "start"} \/ AuthorizeByConfig \/ ExecTarget
          \/ process.pc \notin {"config", "exec"}
      <3>1. Fails => UNCHANGED process \/ process'.pc = "dead"
        <4>1. CASE Fails /\ process.pc = "none"
          BY <2>1, <4>1 DEF Fails, ProcessRow
        <4>2. CASE Fails /\ process.pc # "none"
          BY <2>1, <4>2 DEF Fails, ProcessRow
        <4> QED BY <4>1, <4>2
      <3>2. HelperFails \/ ProcessDies => process'.pc = "dead"
        BY <2>1 DEF HelperFails, ProcessDies, ProcessRow
      <3>3. HandoffNext \/ UNCHANGED process
        BY <1>1 DEF handoffVars
      <3>4. Rewrite \/ Rename \/ TakeChild \/ ParentDies => UNCHANGED process
        BY DEF Rewrite, Rename, TakeChild, ParentDies
      <3>5. OpenProtectedConfig \/ BindProtectedConfig \/ WaitForReadyFile
              => Fails \/ UNCHANGED process
        BY DEF OpenProtectedConfig, BindProtectedConfig, WaitForReadyFile
      <3>6. SendRequestFrame \/ SendGoMessage \/ SendFrame => Fails \/ UNCHANGED process
        BY DEF SendRequestFrame, SendGoMessage, SendFrame, WriteBounded
      <3>7. PrepareInner => Fails \/ process'.pc = "start"
        BY <2>1 DEF PrepareInner, ProcessRow
      <3>8. OpenParentDescriptors \/ ReadRequestFrame \/ SendReady \/ ReadGo \/ ReadHealthFrame
              \/ HashExecutable \/ ResolveTarget \/ CopyBlock \/ VerifyCopy \/ TargetReads
              => process.pc \notin {"config", "exec"}
        BY DEF OpenParentDescriptors, ReadRequestFrame, SendReady, ReadGo, ReadHealthFrame,
               HashExecutable, ResolveTarget, CopyBlock, VerifyCopy, TargetReads
      <3> QED BY <3>1, <3>2, <3>3, <3>4, <3>5, <3>6, <3>7, <3>8 DEF HandoffNext
    <2> QED BY <2>2, <2>3, <2>4, <2>5, <2>6, <2>7, Zenon
  <1> QED BY <1>1, HandoffInvariant, PTL DEF HandoffSpec, ExecIsApproved

-----------------------------------------------------------------------------
(* The process group of a portable child.  An armed authority means that   *)
(* the leader is not reaped, so the number of the group is not reused.     *)

GroupPc == {"validate", "observe", "held", "look", "check", "groupkill", "exit", "cleanup",
            "members", "reapchild", "gone", "abort", "killchild", "end"}
GroupResult == {"none", "ordinary", "uncertain", "error", "clean"}

GroupTypeOK ==
    /\ pgroup \in [leader : {"none", "alive", "zombie", "reaped"}, doomed : BOOLEAN,
                   kid : {"none", "alive", "doomed"}, forks : Nat, reused : BOOLEAN]
    /\ owned \in [pc : GroupPc, call : Calls \cup {"spawn"}, armed : BOOLEAN,
                  result : GroupResult]

\* An armed authority means that the leader is not reaped, and the number is
\* given to others only after that.
GroupInv ==
    /\ GroupTypeOK
    /\ owned.pc = "validate" => pgroup.leader = "none" /\ ~owned.armed
    /\ owned.armed => pgroup.leader \in {"alive", "zombie"}
    /\ pgroup.reused => pgroup.leader = "reaped"
    /\ GroupSignalIsOwned

\* A step of a call that leaves the authority as it is.
CallStep ==
    /\ owned' \in [pc : GroupPc \ {"validate"}, call : Calls \cup {"spawn"}, armed : BOOLEAN,
                   result : GroupResult]
    /\ owned'.armed = owned.armed

\* The steps that only move a group call on, or fail it.
LEMMA CallSteps ==
  ASSUME GroupTypeOK
  PROVE  /\ CallFails => CallStep
         /\ \A pc \in GroupPc \ {"validate"} : GroupGoes(pc) => CallStep
         /\ \A result \in GroupResult : Returns(result) \/ Ends(result) => CallStep
         /\ \A call \in Calls : Begin(call) => CallStep
  <1>1. \A pc \in GroupPc \ {"validate"} : GroupGoes(pc) => CallStep
    BY DEF GroupTypeOK, GroupGoes, CallStep, GroupPc
  <1>2. \A result \in GroupResult : Returns(result) \/ Ends(result) => CallStep
    BY Zenon DEF GroupTypeOK, Returns, Ends, CallStep, GroupPc
  <1>3. CallFails => CallStep
    BY <1>1, <1>2 DEF CallFails, GroupPc, GroupResult
  <1>4. \A call \in Calls : Begin(call) => CallStep
    <2> SUFFICES ASSUME NEW call \in Calls, Begin(call) PROVE CallStep
      OBVIOUS
    <2>1. PICK pc \in GroupPc \ {"validate"} :
              owned' = [owned EXCEPT !.call = call, !.result = "none", !.pc = pc]
      <3>1. CASE call \in {"try_wait", "wait"}
        <4>1. owned' = [owned EXCEPT !.call = call, !.result = "none", !.pc = "look"]
          BY <3>1, Zenon DEF Begin
        <4> QED BY <4>1, Zenon DEF GroupPc
      <3>2. CASE call = "terminate"
        <4>1. owned' = [owned EXCEPT !.call = call, !.result = "none",
                                     !.pc = IF owned.armed THEN "check" ELSE "gone"]
          BY <3>2 DEF Begin
        <4>2. (IF owned.armed THEN "check" ELSE "gone") \in GroupPc \ {"validate"}
          BY DEF GroupPc
        <4> QED BY <4>1, <4>2, Zenon
      <3>3. CASE call = "drop"
        <4>1. owned' = [owned EXCEPT !.call = call, !.result = "none",
                                     !.pc = IF owned.armed THEN "groupkill" ELSE "end"]
          BY <3>3 DEF Begin
        <4>2. (IF owned.armed THEN "groupkill" ELSE "end") \in GroupPc \ {"validate"}
          BY DEF GroupPc
        <4> QED BY <4>1, <4>2, Zenon
      <3> QED BY <3>1, <3>2, <3>3, Zenon DEF Calls
    <2> QED BY <2>1, Zenon DEF GroupTypeOK, CallStep, GroupResult
  <1> QED BY <1>1, <1>2, <1>3, <1>4

\* A step that leaves the group and the authority alone.
LEMMA QuietCall ==
  ASSUME GroupInv, UNCHANGED <<pgroup, reached>>, CallStep
  PROVE  GroupInv'
  BY DEF GroupInv, GroupTypeOK, CallStep, GroupSignalIsOwned

\* A signal under an armed authority reaches the group of the child.
LEMMA SignalOwned ==
  ASSUME GroupInv, owned.armed, SignalGroup, CallStep
  PROVE  GroupInv'
  <1>1. ~pgroup.reused /\ pgroup.leader \in {"alive", "zombie"}
    BY DEF GroupInv, GroupTypeOK
  <1>2. /\ reached' \in {"own", "nobody"}
        /\ pgroup' = [pgroup EXCEPT !.doomed = @ \/ pgroup.leader = "alive",
                                    !.kid = IF @ = "alive" THEN "doomed" ELSE @]
    BY <1>1 DEF SignalGroup
  <1>3. /\ pgroup' \in [leader : {"none", "alive", "zombie", "reaped"}, doomed : BOOLEAN,
                        kid : {"none", "alive", "doomed"}, forks : Nat, reused : BOOLEAN]
        /\ pgroup'.leader = pgroup.leader /\ pgroup'.reused = pgroup.reused
    BY <1>2, Zenon DEF GroupInv, GroupTypeOK
  <1> QED BY <1>1, <1>2, <1>3 DEF GroupInv, GroupTypeOK, CallStep, GroupSignalIsOwned

\* Every step of the supervisor and of the group keeps the invariant.
LEMMA GroupNextInv == ASSUME GroupInv, [GroupNext]_groupVars PROVE GroupInv'
  <1> USE DEF GroupPc, GroupResult
  <1>0. GroupTypeOK
    BY DEF GroupInv
  <1>1. CASE ForkKid
    <2>1. /\ pgroup' \in [leader : {"none", "alive", "zombie", "reaped"}, doomed : BOOLEAN,
                          kid : {"none", "alive", "doomed"}, forks : Nat, reused : BOOLEAN]
          /\ pgroup'.leader = pgroup.leader /\ pgroup'.reused = pgroup.reused
      <3>1. pgroup.forks + 1 \in Nat
        BY <1>0 DEF GroupTypeOK
      <3>2. pgroup' = [pgroup EXCEPT !.kid = "alive", !.forks = pgroup.forks + 1]
        BY <1>1 DEF ForkKid
      <3> QED BY <1>0, <3>1, <3>2, Zenon DEF GroupTypeOK
    <2> QED BY <1>1, <2>1 DEF GroupInv, GroupTypeOK, ForkKid, GroupSignalIsOwned
  <1>2. CASE LeaderEnds
    BY <1>2 DEF GroupInv, GroupTypeOK, LeaderEnds, GroupSignalIsOwned
  <1>3. CASE KidEnds
    BY <1>3 DEF GroupInv, GroupTypeOK, KidEnds, GroupSignalIsOwned
  <1>4. CASE Reuse
    BY <1>4, Zenon DEF GroupInv, GroupTypeOK, Reuse, GroupSignalIsOwned
  <1>5. CASE SpawnChild
    <2>1. CASE Ends("ordinary") /\ UNCHANGED <<pgroup, reached>>
      BY <1>0, <2>1, CallSteps, QuietCall
    <2>2. CASE /\ pgroup' = [pgroup EXCEPT !.leader = "alive"]
               /\ owned' = [owned EXCEPT !.pc = "observe", !.armed = TRUE]
               /\ UNCHANGED reached
      BY <1>5, <2>2, Zenon DEF GroupInv, GroupTypeOK, SpawnChild, GroupAt, GroupSignalIsOwned
    <2> QED BY <1>5, <2>1, <2>2 DEF SpawnChild
  <1>6. CASE SpawnVerify \/ CheckThenKill \/ WaitForChild \/ CleanupMembers \/ WaitGone
    <2>1. CallStep
      BY <1>0, <1>6, CallSteps
      DEF SpawnVerify, CheckThenKill, WaitForChild, CleanupMembers, WaitGone
    <2> QED BY <1>6, <2>1, QuietCall
            DEF SpawnVerify, CheckThenKill, WaitForChild, CleanupMembers, WaitGone
  <1>7. CASE Look
    <2>1. CASE UNCHANGED <<owned, pgroup, reached>>
      BY <2>1 DEF GroupInv, GroupTypeOK, GroupSignalIsOwned
    <2>2. CASE CallStep
      BY <1>7, <2>2, QuietCall DEF Look
    <2> QED BY <1>0, <1>7, <2>1, <2>2, CallSteps DEF Look
  <1>8. CASE KillGroup \/ CleanupSignal
    <2>1. CallStep
      BY <1>0, <1>8, CallSteps DEF KillGroup, CleanupSignal, GroupKill
    <2> QED BY <1>8, <2>1, QuietCall, SignalOwned DEF KillGroup, CleanupSignal, GroupKill
  <1>9. CASE ReapLeader
    BY <1>9, Zenon DEF GroupInv, GroupTypeOK, ReapLeader, GroupAt, GroupSignalIsOwned
  <1>10. CASE AbortChild
    BY <1>0, <1>10, CallSteps, QuietCall, SignalOwned DEF AbortChild
  <1>11. CASE DropKillsChild
    <2>1. CallStep
      BY <1>0, <1>11, CallSteps DEF DropKillsChild
    <2> QED BY <1>11, <2>1, Zenon DEF GroupInv, GroupTypeOK, CallStep, DropKillsChild, GroupSignalIsOwned
  <1>12. CASE \E call \in Calls : Begin(call)
    BY <1>0, <1>12, CallSteps, QuietCall, Zenon DEF Begin
  <1>13. CASE UNCHANGED groupVars
    BY <1>13 DEF GroupInv, GroupTypeOK, groupVars, GroupSignalIsOwned
  <1> QED BY <1>1, <1>2, <1>3, <1>4, <1>5, <1>6, <1>7, <1>8, <1>9, <1>10, <1>11, <1>12, <1>13
          DEF GroupNext

\* No signal of the watchdog ever reaches a group that took over the number.
THEOREM GroupSignalsOwned == GroupSpec => []GroupSignalIsOwned
  <1>1. GroupInit => GroupInv
    BY DEF GroupInit, GroupInv, GroupTypeOK, GroupPc, GroupResult, GroupSignalIsOwned
  <1>2. GroupInv => GroupSignalIsOwned
    BY DEF GroupInv
  <1> QED BY <1>1, <1>2, GroupNextInv, PTL DEF GroupSpec

================================================================================
