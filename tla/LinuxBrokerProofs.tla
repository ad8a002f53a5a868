-------------------------- MODULE LinuxBrokerProofs --------------------------
(***************************************************************************)
(* Safety of the launch broker for any requests and limits, and of the     *)
(* restart budget: the two parts whose properties count.                   *)
(***************************************************************************)
EXTENDS LinuxBroker, RestartBudget, FiniteSetTheorems, TLAPS

\* What the last append or effect of a handler at a established.
Fits(a, r, rec) ==
    /\ a = "start" => starts[r] = 0
    /\ a \in {"start", "wait", "bind", "bindfailed"} =>
         rec.state = "pending" /\ ~rec.job /\ ~rec.cancel
    /\ a \in {"retain", "commit", "cleanup"} => rec.state = "pending" /\ ~rec.cancel
    /\ a = "commit" => r \in acked
    /\ a = "cancel" => rec.state = "pending"
    /\ a \in {"cleanupstop", "stop", "drain", "confirm"} =>
         rec.state = "stoppending" /\ ~rec.cancel
    /\ a \in {"drain", "confirm"} => unit[r] = "gone"
    /\ a = "confirm" => group[r] = "empty"
    /\ a = "release" => rec.state = "stopped"

\* A handler runs only on a ledger that is not poisoned.
StepOK ==
    step.at \in Steps =>
        ~poisoned /\ step.req \in Request /\ Fits(step.at, step.req, records[step.req])

\* Memory and file agree unless an append was uncertain.
Agrees ==
    /\ step.at # "down" /\ ~poisoned => records = file.records
    /\ step.at = "down" => ~poisoned

\* What PID 1 knows of a unit, and its control group.
UnitsOK ==
    \A r \in Request :
        /\ starts[r] \in {0, 1}
        /\ starts[r] = 0 <=> unit[r] = "none"
        /\ unit[r] \in {"none", "queued"} => group[r] = "none"
        /\ unit[r] = "active" => group[r] = "populated"
        /\ file.records[r].state = "absent" => starts[r] = 0
        /\ r \in held \cup store => unit[r] \in {"active", "gone"}

\* A cancelled launch is still pending.
CancelOK == \A r \in Request : file.records[r].cancel => file.records[r].state = "pending"

\* The confirmed directories of launches that are not stopped are stored.
StoreOK ==
    \A r \in Request :
        /\ file.records[r].state = "committed" => r \in store
        /\ r \in acked /\ file.records[r].state # "stopped" => r \in store

\* Every line follows its predecessor, and the limits hold.
JournalOK ==
    /\ file.follows
    /\ file.lines * LineBytes <= MaxLedgerTransitions * MaxLineBytes
    /\ Cardinality(Present(file.records)) <= MaxLedgerRequests
    /\ Cardinality(Unresolved(file.records)) <= MaxActiveProcesses

\* The inductive invariant.
BrokerInv ==
    /\ BrokerTypeOK /\ StepOK /\ Agrees /\ UnitsOK /\ LiveIsRecorded
    /\ CancelOK /\ StoreOK /\ JournalOK

\* The part of the invariant that does not look at the running handler.
StateOK ==
    /\ file \in File /\ records \in [Request -> Record] /\ poisoned \in BOOLEAN
    /\ ~poisoned => records = file.records
    /\ UnitsOK /\ LiveIsRecorded /\ CancelOK /\ StoreOK /\ JournalOK

-----------------------------------------------------------------------------

\* parse_records accepts only lines that name a record of an unfinished
\* request, and only a reservation for an unknown one.
LEMMA FollowsFacts ==
    ASSUME NEW old \in Record, NEW new \in Record, Follows(old, new)
    PROVE  /\ new.state # "absent" /\ old.state # "stopped"
           /\ old.state = "absent" => new.state = "pending"
BY DEF Follows, Record

\* An append leaves a file whose records are the old ones or the old ones with
\* one more line, and a map that agrees with it unless it is poisoned.
LEMMA AppendFile ==
    ASSUME BrokerInv, NEW r \in Request, NEW rec \in Record,
           step.at # "down", ~poisoned, Follows(records[r], rec),
           Written(r, rec) \/ Interrupted(r, rec) \/ Refused
    PROVE  /\ file' \in File /\ records' \in [Request -> Record] /\ poisoned' \in BOOLEAN
           /\ file'.follows
           /\ file'.lines * LineBytes <= MaxLedgerTransitions * MaxLineBytes
           /\ file'.records \in {file.records, [file.records EXCEPT ![r] = rec]}
           /\ ~poisoned' => records' = file'.records
<1>1. /\ file \in File /\ file.follows /\ records = file.records
      /\ records \in [Request -> Record] /\ poisoned = FALSE
      /\ file.lines * LineBytes <= MaxLedgerTransitions * MaxLineBytes
  BY DEF BrokerInv, BrokerTypeOK, Agrees, JournalOK
<1>2. /\ file.records \in [Request -> Record] /\ file.lines \in Nat
      /\ file.damage \in {"none", "torn", "glued"} /\ file.ended \in BOOLEAN
  BY <1>1 DEF File
<1>3. ASSUME NEW e \in BOOLEAN
      PROVE  /\ Line(r, rec, e) \in File
             /\ Line(r, rec, e).follows
             /\ Line(r, rec, e).lines = file.lines + 1
             /\ Line(r, rec, e).records = [file.records EXCEPT ![r] = rec]
  BY <1>1, <1>2 DEF Line, File
<1>4. /\ [file EXCEPT !.damage = "torn"] \in File
      /\ [file EXCEPT !.damage = "torn"].follows
      /\ [file EXCEPT !.damage = "torn"].lines = file.lines
      /\ [file EXCEPT !.damage = "torn"].records = file.records
  BY <1>1, <1>2 DEF File
<1>5. CASE Written(r, rec)
  BY <1>1, <1>2, <1>3, <1>5, Zenon DEF Written, HasRoom
<1>6. CASE Interrupted(r, rec)
  BY <1>1, <1>2, <1>3, <1>4, <1>6, Zenon DEF Interrupted, HasRoom
<1>7. CASE Refused
  BY <1>1, <1>7, Zenon DEF Refused, ledgerVars
<1> QED BY <1>5, <1>6, <1>7

\* The limits over an append: only a reservation, which has been admitted,
\* adds to the requests and to the unresolved launches.
LEMMA AppendLimits ==
    ASSUME BrokerInv, NEW r \in Request, NEW rec \in Record,
           step.at # "down", ~poisoned, Follows(records[r], rec),
           file'.records \in {file.records, [file.records EXCEPT ![r] = rec]},
           records[r].state = "absent" =>
             /\ Cardinality(Present(records)) < MaxLedgerRequests
             /\ Cardinality(Unresolved(records)) < MaxActiveProcesses
    PROVE  /\ Cardinality(Present(file'.records)) <= MaxLedgerRequests
           /\ Cardinality(Unresolved(file'.records)) <= MaxActiveProcesses
<1> DEFINE new == [file.records EXCEPT ![r] = rec]
<1>1. /\ records = file.records /\ records \in [Request -> Record]
      /\ Cardinality(Present(file.records)) <= MaxLedgerRequests
      /\ Cardinality(Unresolved(file.records)) <= MaxActiveProcesses
  BY DEF BrokerInv, BrokerTypeOK, Agrees, JournalOK
<1>2. /\ rec.state # "absent" /\ records[r].state # "stopped"
      /\ records[r].state = "absent" => rec.state = "pending"
  BY <1>1, FollowsFacts
<1>3. /\ IsFiniteSet(Present(records)) /\ IsFiniteSet(Unresolved(records))
  BY BrokerConstants, FS_Subset DEF Present, Unresolved
<1>4. /\ Cardinality(Present(records)) \in Nat /\ Cardinality(Unresolved(records)) \in Nat
  BY <1>3, FS_CardinalityType
<1>5. CASE records[r].state = "absent"
  <2>1. /\ Present(new) = Present(records) \cup {r}
        /\ Unresolved(new) = Unresolved(records) \cup {r}
        /\ r \notin Present(records) /\ r \notin Unresolved(records)
    BY <1>1, <1>2, <1>5 DEF Present, Unresolved
  <2>2. /\ Cardinality(Present(new)) = Cardinality(Present(records)) + 1
        /\ Cardinality(Unresolved(new)) = Cardinality(Unresolved(records)) + 1
    BY <1>3, <2>1, FS_AddElement
  <2> QED BY <1>1, <1>4, <1>5, <2>2, BrokerConstants
<1>6. CASE records[r].state # "absent"
  <2>1. Present(new) = Present(records) /\ Unresolved(new) \subseteq Unresolved(records)
    BY <1>1, <1>2, <1>6 DEF Present, Unresolved
  <2>2. /\ Cardinality(Unresolved(new)) <= Cardinality(Unresolved(records))
        /\ IsFiniteSet(Unresolved(new))
    BY <1>3, <2>1, FS_Subset
  <2>3. Cardinality(Unresolved(new)) \in Nat
    BY <2>2, FS_CardinalityType
  <2> QED BY <1>1, <1>4, <2>1, <2>2, <2>3, BrokerConstants
<1> QED BY <1>5, <1>6

\* An append by a running handler keeps everything but what the handler's next
\* step needs, if the record is one the handler may write: a committed launch
\* is stored, a stopped one has no process, a cancelled one is pending.
LEMMA AppendState ==
    ASSUME BrokerInv, NEW r \in Request, NEW rec \in Record,
           step.at # "down", ~poisoned, Follows(records[r], rec),
           Written(r, rec) \/ Interrupted(r, rec) \/ Refused,
           UNCHANGED <<held, acked, store, systemVars>>,
           records[r].state = "absent" =>
             /\ Cardinality(Present(records)) < MaxLedgerRequests
             /\ Cardinality(Unresolved(records)) < MaxActiveProcesses,
           rec.state = "committed" => r \in store,
           rec.state = "stopped" => ~Live(r),
           rec.cancel => rec.state = "pending"
    PROVE  StateOK'
<1>1. /\ file' \in File /\ records' \in [Request -> Record] /\ poisoned' \in BOOLEAN
      /\ file'.follows
      /\ file'.lines * LineBytes <= MaxLedgerTransitions * MaxLineBytes
      /\ file'.records \in {file.records, [file.records EXCEPT ![r] = rec]}
      /\ ~poisoned' => records' = file'.records
  BY AppendFile
<1>2. /\ Cardinality(Present(file'.records)) <= MaxLedgerRequests
      /\ Cardinality(Unresolved(file'.records)) <= MaxActiveProcesses
  BY <1>1, AppendLimits
<1>3. JournalOK'
  BY <1>1, <1>2 DEF JournalOK, Present, Unresolved
<1>4. records = file.records /\ records \in [Request -> Record]
  BY DEF BrokerInv, BrokerTypeOK, Agrees
<1>5. /\ rec.state # "absent" /\ records[r].state # "stopped"
      /\ records[r].state = "absent" => rec.state = "pending"
  BY <1>4, FollowsFacts
<1>6. \A q \in Request : \/ file'.records[q] = file.records[q]
                         \/ q = r /\ file'.records[q] = rec
  BY <1>1, <1>4
<1>7. UnitsOK'
  BY <1>5, <1>6 DEF BrokerInv, UnitsOK, systemVars
<1>8. LiveIsRecorded'
  BY <1>4, <1>5, <1>6 DEF BrokerInv, LiveIsRecorded, Live, Unresolved, systemVars, Record
<1>9. CancelOK'
  BY <1>6 DEF BrokerInv, CancelOK
<1>10. StoreOK'
  BY <1>4, <1>5, <1>6 DEF BrokerInv, StoreOK
<1> QED BY <1>1, <1>3, <1>7, <1>8, <1>9, <1>10 DEF StateOK

\* The records the handlers write.
LEMMA WrittenRecords ==
    ASSUME BrokerInv, NEW r \in Request
    PROVE  LET rec == records[r]
               reserved == [Absent EXCEPT !.state = "pending"]
               bound == [rec EXCEPT !.job = TRUE]
               cancelled == [rec EXCEPT !.cancel = TRUE]
           IN
           /\ reserved \in Record /\ reserved.state = "pending"
           /\ ~reserved.job /\ ~reserved.cancel
           /\ bound \in Record /\ bound.state = rec.state
           /\ bound.job /\ bound.cancel = rec.cancel
           /\ cancelled \in Record /\ cancelled.state = rec.state
           /\ cancelled.job = rec.job /\ cancelled.cancel
           /\ \A s \in {"committed", "stoppending", "stopped"} :
                /\ With(r, s) \in Record /\ With(r, s).state = s
                /\ With(r, s).job = rec.job /\ With(r, s).cancel = rec.cancel
<1> DEFINE rec == records[r]
<1>1. rec \in Record
  BY DEF BrokerInv, BrokerTypeOK
<1>2. LET reserved == [Absent EXCEPT !.state = "pending"]
      IN  /\ reserved \in Record /\ reserved.state = "pending"
          /\ ~reserved.job /\ ~reserved.cancel
  BY Zenon DEF Absent, Record
<1>3. LET bound == [rec EXCEPT !.job = TRUE]
      IN  /\ bound \in Record /\ bound.state = rec.state
          /\ bound.job /\ bound.cancel = rec.cancel
  BY <1>1, Zenon DEF Record
<1>4. LET cancelled == [rec EXCEPT !.cancel = TRUE]
      IN  /\ cancelled \in Record /\ cancelled.state = rec.state
          /\ cancelled.job = rec.job /\ cancelled.cancel
  BY <1>1, Zenon DEF Record
<1>5. ASSUME NEW s \in {"committed", "stoppending", "stopped"}
      PROVE  /\ With(r, s) \in Record /\ With(r, s).state = s
             /\ With(r, s).job = rec.job /\ With(r, s).cancel = rec.cancel
  BY <1>1 DEF Record, With
<1> QED BY <1>2, <1>3, <1>4, <1>5

\* A step that changes neither the ledger, the directories nor PID 1.
LEMMA QuietState ==
    ASSUME BrokerInv, step.at # "down",
           UNCHANGED <<ledgerVars, held, acked, store, systemVars>>
    PROVE  StateOK'
BY DEF BrokerInv, BrokerTypeOK, Agrees, StateOK, ledgerVars, systemVars, UnitsOK,
       LiveIsRecorded, Live, CancelOK, StoreOK, JournalOK, Present, Unresolved

\* The handler returns, or goes on to a step its record fits.
Resumes(rs) ==
    \/ step' = Idle
    \/ \E a \in Steps, r \in Request : step' = At(a, r) /\ ~poisoned' /\ Fits(a, r, rs[r])'

\* The two halves of the invariant.
LEMMA Assemble ==
    ASSUME StateOK', BrokerTypeOK, Resumes(records),
           active' \subseteq Request, held' \subseteq Request, acked' \subseteq held',
           store' \subseteq Request,
           unit' \in [Request -> {"none", "queued", "active", "gone"}],
           group' \in [Request -> {"none", "populated", "empty"}],
           starts' \in [Request -> Nat]
    PROVE  BrokerInv'
<1>1. step' \in {Idle, Down} \cup [at : Steps, req : Request]
  BY DEF Resumes, At
<1>2. step'.at # "down"
  BY DEF Resumes, At, Idle, Steps
<1>3. StepOK'
  <2>1. CASE step' = Idle
    BY <2>1 DEF StepOK, Idle, At, Steps
  <2>2. ASSUME NEW a \in Steps, NEW r \in Request,
               step' = At(a, r), ~poisoned', Fits(a, r, records[r])'
        PROVE  StepOK'
    BY <2>2 DEF StepOK, At
  <2> QED BY <2>1, <2>2 DEF Resumes
<1> QED BY <1>1, <1>2, <1>3 DEF StateOK, BrokerInv, BrokerTypeOK, Agrees

\* An append that a handler goes on from.
LEMMA PersistInv ==
    ASSUME BrokerInv, NEW r \in Request, NEW rec \in Record, NEW next,
           step.at # "down", ~poisoned, Follows(records[r], rec),
           Persist(r, rec, next),
           next = Idle \/ \E a \in Steps : next = At(a, r) /\ Fits(a, r, rec),
           UNCHANGED <<heldVars, systemVars>>,
           records[r].state = "absent" =>
             /\ Cardinality(Present(records)) < MaxLedgerRequests
             /\ Cardinality(Unresolved(records)) < MaxActiveProcesses,
           rec.state \notin {"committed", "stopped"},
           rec.cancel => rec.state = "pending"
    PROVE  BrokerInv'
<1>1. StateOK'
  <2>1. Written(r, rec) \/ Interrupted(r, rec) \/ Refused
    BY DEF Persist
  <2>2. UNCHANGED <<held, acked, store, systemVars>>
    BY DEF heldVars
  <2> QED BY <2>1, <2>2, AppendState
<1>2. records \in [Request -> Record] /\ poisoned = FALSE
  BY DEF BrokerInv, BrokerTypeOK
<1>3. Resumes(records)
  <2>1. CASE step' = Idle
    BY <2>1 DEF Resumes
  <2>2. CASE Written(r, rec) /\ step' = next /\ next # Idle
    <3>1. PICK a \in Steps : next = At(a, r) /\ Fits(a, r, rec)
      BY <2>2
    <3>2. records'[r] = rec /\ poisoned' = FALSE
      BY <1>2, <2>2 DEF Written
    <3>3. Fits(a, r, records[r])'
      BY <3>1, <3>2 DEF Fits, heldVars, systemVars
    <3> QED BY <2>2, <3>1, <3>2, <3>3 DEF Resumes
  <2> QED BY <2>1, <2>2 DEF Persist
<1> QED BY <1>1, <1>3, Assemble DEF BrokerInv, BrokerTypeOK, heldVars, systemVars

\* A step of a handler that only moves on, or only takes a slot.
LEMMA QuietInv ==
    ASSUME BrokerInv, step.at # "down",
           UNCHANGED <<ledgerVars, held, acked, store, systemVars>>,
           active' \subseteq Request,
           \/ step' = Idle
           \/ \E a \in Steps, r \in Request :
                step' = At(a, r) /\ ~poisoned /\ Fits(a, r, records[r])
    PROVE  BrokerInv'
<1>1. StateOK'
  BY QuietState
<1>2. Resumes(records)
  BY DEF Resumes, Fits, ledgerVars, systemVars
<1> QED BY <1>1, <1>2, Assemble DEF BrokerInv, BrokerTypeOK, systemVars

\* A step that leaves the ledger and the directories to themselves.
LEMMA SystemInv ==
    ASSUME BrokerInv, step.at # "down", UNCHANGED <<ledgerVars, held, acked, store>>,
           active' \subseteq Request, UnitsOK', LiveIsRecorded', Resumes(records),
           unit' \in [Request -> {"none", "queued", "active", "gone"}],
           group' \in [Request -> {"none", "populated", "empty"}],
           starts' \in [Request -> Nat]
    PROVE  BrokerInv'
<1>1. StateOK'
  BY DEF BrokerInv, BrokerTypeOK, Agrees, StateOK, ledgerVars, CancelOK, StoreOK,
         JournalOK, Present, Unresolved
<1> QED BY <1>1, Assemble DEF BrokerInv, BrokerTypeOK

\* What a handler can rely on when it takes its next step.
LEMMA HandlerFacts ==
    ASSUME BrokerInv, NEW a \in Steps, NEW r \in Request, step = At(a, r)
    PROVE  /\ step.at # "down" /\ poisoned = FALSE /\ Fits(a, r, records[r])
           /\ records = file.records /\ records[r] \in Record
<1>1. step.at = a /\ step.req = r /\ step.at # "down"
  BY DEF At, Steps
<1> QED BY <1>1 DEF BrokerInv, BrokerTypeOK, StepOK, Agrees

\* What a handler that begins can rely on.
LEMMA HealthyFacts ==
    ASSUME BrokerInv, NEW r \in Request, Healthy
    PROVE  /\ step.at # "down" /\ poisoned = FALSE
           /\ records = file.records /\ records[r] \in Record
<1>1. step.at # "down"
  BY DEF Healthy, Idle, At
<1> QED BY <1>1 DEF BrokerInv, BrokerTypeOK, Agrees, Healthy

-----------------------------------------------------------------------------

\* The empty ledger satisfies the invariant.
LEMMA InitInv ==
    ASSUME Init
    PROVE  BrokerInv
<1>1. Absent \in Record /\ Absent.state = "absent" /\ ~Absent.cancel
  BY DEF Absent, Record
<1>2. /\ EmptyFile \in File /\ EmptyFile.follows /\ EmptyFile.lines = 0
      /\ EmptyFile.records = [r \in Request |-> Absent]
  BY <1>1 DEF EmptyFile, File
<1>3. BrokerTypeOK
  BY <1>1, <1>2, Zenon DEF Init, BrokerTypeOK
<1>4. step.at = "idle"
  BY DEF Init, Idle, At
<1>5. StepOK /\ Agrees
  BY <1>2, <1>4 DEF Init, StepOK, Agrees, Steps
<1>6. UnitsOK /\ CancelOK /\ StoreOK
  BY <1>1, <1>2 DEF Init, UnitsOK, CancelOK, StoreOK
<1>7. LiveIsRecorded
  BY DEF Init, LiveIsRecorded, Live
<1>8. JournalOK
  <2>1. Present(file.records) = {} /\ Unresolved(file.records) = {}
    BY <1>1, <1>2 DEF Init, Present, Unresolved
  <2>2. \A m, n \in Nat : 0 * m <= m * n /\ 0 <= m * n
    OBVIOUS
  <2>3. file.lines * LineBytes <= MaxLedgerTransitions * MaxLineBytes
    BY <1>2, <2>2, BrokerConstants DEF Init
  <2>4. Cardinality({}) = 0
    BY FS_EmptySet
  <2> QED BY <1>2, <2>1, <2>3, <2>4, BrokerConstants DEF Init, JournalOK
<1> QED BY <1>3, <1>5, <1>6, <1>7, <1>8 DEF BrokerInv

\* A reservation is admitted under both limits, and nothing was started for it.
LEMMA ReserveInv ==
    ASSUME BrokerInv, NEW r \in Request, Reserve(r)
    PROVE  BrokerInv'
<1> DEFINE rec == [Absent EXCEPT !.state = "pending"]
<1>1. /\ step.at # "down" /\ ~poisoned /\ records = file.records /\ records[r] \in Record
  BY HealthyFacts, Zenon DEF Reserve
<1>2. rec \in Record /\ rec.state = "pending" /\ ~rec.job /\ ~rec.cancel
  BY WrittenRecords, Zenon
<1>3. /\ records[r].state = "absent" /\ Admits(r)
      /\ Persist(r, rec, At("start", r)) /\ UNCHANGED <<heldVars, systemVars>>
  BY DEF Reserve
<1>4. Follows(records[r], rec)
  BY <1>2, <1>3 DEF Follows
<1>5. Fits("start", r, rec)
  BY <1>1, <1>2, <1>3 DEF Fits, BrokerInv, UnitsOK
<1>6. \E a \in Steps : At("start", r) = At(a, r) /\ Fits(a, r, rec)
  BY <1>5 DEF Steps
<1> HIDE DEF rec
<1> QED BY <1>1, <1>2, <1>3, <1>4, <1>6, PersistInv DEF Admits

\* A late commit finds the directory of its launch stored.
LEMMA LaunchAgainInv ==
    ASSUME BrokerInv, NEW r \in Request, LaunchAgain(r)
    PROVE  BrokerInv'
<1> DEFINE rec == With(r, "committed")
<1>1. /\ step.at # "down" /\ ~poisoned /\ records = file.records /\ records[r] \in Record
      /\ step' = Idle
  BY HealthyFacts, Zenon DEF LaunchAgain, Healthy
<1>2. UNCHANGED <<held, acked, store, systemVars>> /\ active' \subseteq Request
  BY DEF LaunchAgain, BrokerInv, BrokerTypeOK
<1>3. CASE UNCHANGED ledgerVars
  BY <1>1, <1>2, <1>3, QuietInv
<1>4. CASE /\ records[r].state = "pending"
           /\ Written(r, rec) \/ Interrupted(r, rec)
  <2>1. /\ rec \in Record /\ rec.state = "committed"
        /\ rec.job = records[r].job /\ rec.cancel = records[r].cancel
    BY WrittenRecords, Zenon
  <2>2. r \in acked /\ ~rec.cancel
    BY <2>1, Zenon DEF LaunchAgain, RequireContainment
  <2>3. r \in store
    BY <1>1, <1>4, <2>2 DEF BrokerInv, StoreOK
  <2>4. Follows(records[r], rec)
    BY <1>4, <2>1 DEF Follows
  <2> HIDE DEF rec
  <2>5. StateOK'
    BY <1>1, <1>2, <1>4, <2>1, <2>2, <2>3, <2>4, AppendState
  <2>6. Resumes(records)
    BY <1>1 DEF Resumes
  <2> QED BY <1>2, <2>5, <2>6, Assemble DEF BrokerInv, BrokerTypeOK, systemVars
<1> QED BY <1>3, <1>4 DEF LaunchAgain

\* The one start of a reservation: its unit was unknown to PID 1.
LEMMA StartInv ==
    ASSUME BrokerInv, NEW r \in Request, Start(r)
    PROVE  BrokerInv'
<1>1. /\ step.at # "down" /\ poisoned = FALSE /\ Fits("start", r, records[r])
      /\ records = file.records
  BY HandlerFacts, Zenon DEF Start, Steps
<1>2. /\ starts[r] = 0 /\ unit[r] = "none" /\ group[r] = "none"
      /\ r \in Unresolved(file.records)
  BY <1>1 DEF Fits, BrokerInv, UnitsOK, Unresolved
<1>3. UNCHANGED <<ledgerVars, heldVars, group>> /\ active' \subseteq Request
  BY DEF Start, BrokerInv, BrokerTypeOK, heldVars
<1>4. CASE UNCHANGED <<unit, starts>> /\ step' = Idle
  BY <1>1, <1>3, <1>4, QuietInv DEF heldVars, systemVars
<1>5. CASE /\ unit' = [unit EXCEPT ![r] = "queued"]
           /\ starts' = [starts EXCEPT ![r] = @ + 1]
           /\ step' \in {At("wait", r), Idle}
  <2>1. /\ unit' \in [Request -> {"none", "queued", "active", "gone"}]
        /\ group' \in [Request -> {"none", "populated", "empty"}]
        /\ starts' \in [Request -> Nat]
    BY <1>3, <1>5 DEF BrokerInv, BrokerTypeOK
  <2>2. /\ unit'[r] = "queued" /\ starts'[r] = 1
        /\ \A q \in Request : q # r => unit'[q] = unit[q] /\ starts'[q] = starts[q]
    BY <1>2, <1>5 DEF BrokerInv, BrokerTypeOK
  <2>3. UnitsOK'
    <3>1. UnitsOK /\ file.records[r].state # "absent" /\ r \notin held \cup store
      BY <1>2 DEF BrokerInv, UnitsOK, Unresolved
    <3>2. UNCHANGED <<file, held, store, group>>
      BY <1>3 DEF ledgerVars, heldVars
    <3> QED BY <1>2, <2>2, <3>1, <3>2 DEF UnitsOK
  <2>4. LiveIsRecorded'
    BY <1>2, <1>3, <2>2 DEF BrokerInv, LiveIsRecorded, Live, Unresolved, ledgerVars
  <2>5. Fits("wait", r, records[r])'
    BY <1>1, <1>3 DEF Fits, ledgerVars
  <2>6. Resumes(records)
    BY <1>1, <1>3, <1>5, <2>5 DEF Resumes, Steps, ledgerVars
  <2> QED BY <1>1, <1>3, <2>1, <2>3, <2>4, <2>6, SystemInv DEF heldVars
<1> QED BY <1>4, <1>5 DEF Start

\* Waiting changes nothing.
LEMMA WaitInv ==
    ASSUME BrokerInv, NEW r \in Request, Wait(r)
    PROVE  BrokerInv'
<1>1. /\ step.at # "down" /\ poisoned = FALSE /\ Fits("wait", r, records[r])
  BY HandlerFacts, Zenon DEF Wait, Steps
<1>2. Fits("bind", r, records[r]) /\ Fits("bindfailed", r, records[r])
  BY <1>1 DEF Fits
<1>3. \E a \in Steps, q \in Request :
        step' = At(a, q) /\ ~poisoned /\ Fits(a, q, records[q])
  BY <1>1, <1>2 DEF Wait, Steps
<1> QED BY <1>1, <1>3, QuietInv DEF Wait, heldVars, BrokerInv, BrokerTypeOK

\* The job is bound once, to a launch that is still pending.
LEMMA BindInv ==
    ASSUME BrokerInv, NEW r \in Request, Bind(r)
    PROVE  BrokerInv'
<1> DEFINE rec == [records[r] EXCEPT !.job = TRUE]
<1>1. PICK a \in {"bind", "bindfailed"} :
        /\ step = At(a, r)
        /\ Persist(r, rec, At("retain", r)) \/ Persist(r, rec, Idle)
  BY DEF Bind
<1>2. step.at # "down" /\ poisoned = FALSE /\ Fits(a, r, records[r])
  BY <1>1, HandlerFacts, Zenon DEF Steps
<1>3. records[r].state = "pending" /\ ~records[r].job /\ ~records[r].cancel
  BY <1>2 DEF Fits
<1>4. /\ rec \in Record /\ rec.state = records[r].state
      /\ rec.job /\ rec.cancel = records[r].cancel
  BY WrittenRecords, Zenon
<1>5. Follows(records[r], rec)
  BY <1>3, <1>4, Zenon DEF Follows
<1>6. Fits("retain", r, rec)
  BY <1>3, <1>4 DEF Fits
<1>7. \E b \in Steps : At("retain", r) = At(b, r) /\ Fits(b, r, rec)
  BY <1>6 DEF Steps
<1>8. UNCHANGED <<heldVars, systemVars>>
  BY DEF Bind
<1> HIDE DEF rec
<1>9. CASE Persist(r, rec, At("retain", r))
  BY <1>2, <1>3, <1>4, <1>5, <1>7, <1>8, <1>9, PersistInv
<1>10. CASE Persist(r, rec, Idle)
  BY <1>2, <1>3, <1>4, <1>5, <1>8, <1>10, PersistInv, Zenon
<1> QED BY <1>1, <1>9, <1>10

\* Only the directory of a running unit is held and stored.
LEMMA RetainInv ==
    ASSUME BrokerInv, NEW r \in Request, Retain(r)
    PROVE  BrokerInv'
<1>1. /\ step.at # "down" /\ poisoned = FALSE /\ Fits("retain", r, records[r])
      /\ records = file.records
  BY HandlerFacts, Zenon DEF Retain, Steps
<1>2. records[r].state = "pending" /\ ~records[r].cancel
  BY <1>1 DEF Fits
<1>3. /\ UNCHANGED <<ledgerVars, active, systemVars>>
      /\ held' \subseteq Request /\ acked' \subseteq held' /\ store' \subseteq Request
      /\ held \subseteq held' /\ store \subseteq store'
      /\ held' # held \/ store' # store => unit[r] = "active"
      /\ held' \subseteq held \cup {r} /\ store' \subseteq store \cup {r}
      /\ acked' \subseteq acked \cup {r}
      /\ r \in acked' => r \in store' \/ r \in acked
  BY DEF Retain, BrokerInv, BrokerTypeOK
<1>4. StateOK'
  <2>1. UnitsOK'
    BY <1>3 DEF BrokerInv, UnitsOK, ledgerVars, systemVars
  <2>2. StoreOK'
    BY <1>1, <1>2, <1>3 DEF BrokerInv, StoreOK, ledgerVars
  <2> QED BY <1>1, <1>3, <2>1, <2>2, Zenon
       DEF BrokerInv, BrokerTypeOK, StateOK, ledgerVars, systemVars, LiveIsRecorded, Live,
           CancelOK, JournalOK, Present, Unresolved
<1>5. Resumes(records)
  <2>1. Fits("cleanup", r, records[r])'
    BY <1>2, <1>3, Zenon DEF Fits, ledgerVars
  <2>2. r \in acked' => Fits("commit", r, records[r])'
    BY <1>2, <1>3, Zenon DEF Fits, ledgerVars
  <2> QED BY <1>1, <1>3, <2>1, <2>2 DEF Retain, Resumes, Steps, ledgerVars
<1> QED BY <1>3, <1>4, <1>5, Assemble DEF BrokerInv, BrokerTypeOK, systemVars

\* A launch is committed after its directory is confirmed in the store.
LEMMA CommitInv ==
    ASSUME BrokerInv, NEW r \in Request, Commit(r)
    PROVE  BrokerInv'
<1> DEFINE rec == With(r, "committed")
<1>1. /\ step.at # "down" /\ poisoned = FALSE /\ Fits("commit", r, records[r])
      /\ records = file.records
  BY HandlerFacts, Zenon DEF Commit, Steps
<1>2. records[r].state = "pending" /\ ~records[r].cancel /\ r \in acked
  BY <1>1 DEF Fits
<1>3. /\ rec \in Record /\ rec.state = "committed"
      /\ rec.job = records[r].job /\ rec.cancel = records[r].cancel
  BY WrittenRecords, Zenon
<1>4. r \in store
  BY <1>1, <1>2 DEF BrokerInv, StoreOK
<1>5. Follows(records[r], rec)
  BY <1>2, <1>3 DEF Follows
<1>6. /\ UNCHANGED <<held, acked, store, systemVars>> /\ active' \subseteq Request
      /\ Written(r, rec) \/ Interrupted(r, rec) \/ Refused
      /\ step' = Idle \/ (Refused /\ step' = At("cleanup", r))
  BY DEF Commit, BrokerInv, BrokerTypeOK
<1> HIDE DEF rec
<1>7. StateOK'
  BY <1>1, <1>2, <1>3, <1>4, <1>5, <1>6, AppendState, Zenon
<1>8. Resumes(records)
  <2>1. CASE step' = Idle
    BY <2>1 DEF Resumes
  <2>2. CASE Refused /\ step' = At("cleanup", r)
    <3>1. Fits("cleanup", r, records[r])'
      BY <1>2, <2>2 DEF Fits, Refused, ledgerVars
    <3> QED BY <1>1, <2>2, <3>1 DEF Resumes, Steps, Refused, ledgerVars
  <2> QED BY <1>6, <2>1, <2>2
<1> QED BY <1>6, <1>7, <1>8, Assemble DEF BrokerInv, BrokerTypeOK, systemVars

\* A launch that was not acknowledged goes from pending to stopping.
LEMMA CleanupInv ==
    ASSUME BrokerInv, NEW r \in Request, Cleanup(r)
    PROVE  BrokerInv'
<1> DEFINE rec == With(r, "stoppending")
<1>1. step.at # "down" /\ poisoned = FALSE /\ Fits("cleanup", r, records[r])
  BY HandlerFacts, Zenon DEF Cleanup, Steps
<1>2. records[r].state = "pending" /\ ~records[r].cancel
  BY <1>1 DEF Fits
<1>3. /\ rec \in Record /\ rec.state = "stoppending"
      /\ rec.job = records[r].job /\ rec.cancel = records[r].cancel
  BY WrittenRecords, Zenon
<1>4. Follows(records[r], rec)
  BY <1>2, <1>3 DEF Follows
<1>5. Fits("cleanupstop", r, rec)
  BY <1>2, <1>3, Zenon DEF Fits
<1>6. \E a \in Steps : At("cleanupstop", r) = At(a, r) /\ Fits(a, r, rec)
  BY <1>5 DEF Steps
<1>7. Persist(r, rec, At("cleanupstop", r)) /\ UNCHANGED <<heldVars, systemVars>>
  BY DEF Cleanup
<1> HIDE DEF rec
<1> QED BY <1>1, <1>2, <1>3, <1>4, <1>6, <1>7, PersistInv, Zenon

\* A cancellation is recorded on a pending launch only.
LEMMA CancelPendingInv ==
    ASSUME BrokerInv, NEW r \in Request, CancelPending(r)
    PROVE  BrokerInv'
<1> DEFINE rec == [records[r] EXCEPT !.cancel = TRUE]
<1>1. step.at # "down" /\ poisoned = FALSE
  BY HealthyFacts, Zenon DEF CancelPending
<1>2. records[r].state = "pending" /\ UNCHANGED <<heldVars, systemVars>>
  BY DEF CancelPending
<1>3. CASE ~records[r].cancel /\ Persist(r, rec, At("cancel", r))
  <2>1. /\ rec \in Record /\ rec.state = records[r].state
        /\ rec.job = records[r].job /\ rec.cancel
    BY WrittenRecords, Zenon
  <2>2. Follows(records[r], rec)
    BY <1>2, <1>3, <2>1, Zenon DEF Follows
  <2>3. Fits("cancel", r, rec)
    BY <1>2, <2>1 DEF Fits
  <2>4. \E a \in Steps : At("cancel", r) = At(a, r) /\ Fits(a, r, rec)
    BY <2>3 DEF Steps
  <2> HIDE DEF rec
  <2> QED BY <1>1, <1>2, <1>3, <2>1, <2>2, <2>4, PersistInv, Zenon
<1>4. CASE step' = At("cancel", r) /\ UNCHANGED ledgerVars
  <2>1. Fits("cancel", r, records[r])
    BY <1>2, Zenon DEF Fits
  <2>2. \E a \in Steps, q \in Request :
          step' = At(a, q) /\ ~poisoned /\ Fits(a, q, records[q])
    BY <1>1, <1>4, <2>1 DEF Steps
  <2> QED BY <1>1, <1>2, <1>4, <2>2, QuietInv, Zenon DEF heldVars, BrokerInv, BrokerTypeOK
<1> QED BY <1>3, <1>4 DEF CancelPending

\* Cancelling a queued job leaves no group.
LEMMA CancelJobInv ==
    ASSUME BrokerInv, NEW r \in Request, CancelJob(r)
    PROVE  BrokerInv'
<1>1. step.at # "down" /\ step' = Idle
  BY HandlerFacts, Zenon DEF CancelJob, Steps
<1>2. UNCHANGED <<ledgerVars, heldVars, group, starts>>
  BY DEF CancelJob
<1>3. CASE UNCHANGED unit
  BY <1>1, <1>2, <1>3, QuietInv, Zenon DEF heldVars, systemVars, BrokerInv, BrokerTypeOK
<1>4. CASE unit[r] = "queued" /\ unit' = [unit EXCEPT ![r] = "gone"]
  <2>1. /\ unit' \in [Request -> {"none", "queued", "active", "gone"}]
        /\ unit'[r] = "gone" /\ \A q \in Request : q # r => unit'[q] = unit[q]
    BY <1>4 DEF BrokerInv, BrokerTypeOK
  <2>2. UnitsOK'
    BY <1>2, <1>4, <2>1 DEF BrokerInv, UnitsOK, ledgerVars, heldVars
  <2>3. LiveIsRecorded'
    BY <1>2, <1>4, <2>1, Zenon DEF BrokerInv, LiveIsRecorded, Live, Unresolved, ledgerVars
  <2>4. Resumes(records)
    BY <1>1 DEF Resumes
  <2> QED BY <1>1, <1>2, <2>1, <2>2, <2>3, <2>4, SystemInv, Zenon
       DEF heldVars, BrokerInv, BrokerTypeOK
<1> QED BY <1>3, <1>4 DEF CancelJob

\* A stop that finds its unit gone knows that it once ran, since its directory
\* is held.
LEMMA BeginStopInv ==
    ASSUME BrokerInv, NEW r \in Request, BeginStop(r)
    PROVE  BrokerInv'
<1> DEFINE rec == With(r, "stoppending")
           next == IF Inspect(r) THEN At("stop", r)
                   ELSE IF Retired(r) THEN At("confirm", r) ELSE At("drain", r)
<1>1. /\ step.at # "down" /\ poisoned = FALSE /\ records = file.records
      /\ records[r] \in Record
  BY HealthyFacts, Zenon DEF BeginStop
<1>2. r \in held /\ UNCHANGED <<heldVars, systemVars>>
  BY DEF BeginStop, RequireLocalContainment
<1>3. unit[r] \in {"active", "gone"}
  BY <1>2 DEF BrokerInv, UnitsOK
<1>4. ASSUME NEW x, x.state = "stoppending", ~x.cancel
      PROVE  \E a \in Steps : next = At(a, r) /\ Fits(a, r, x)
  <2>1. CASE unit[r] = "active"
    BY <1>4, <2>1 DEF Fits, Steps, Inspect
  <2>2. CASE unit[r] = "gone" /\ Retired(r)
    BY <1>4, <2>2 DEF Fits, Steps, Retired, Inspect
  <2>3. CASE unit[r] = "gone" /\ ~Retired(r)
    BY <1>4, <2>3 DEF Fits, Steps, Inspect
  <2> QED BY <1>3, <2>1, <2>2, <2>3
<1>5. CASE records[r].state = "committed" /\ Persist(r, rec, next)
  <2>1. /\ rec \in Record /\ rec.state = "stoppending"
        /\ rec.job = records[r].job /\ rec.cancel = records[r].cancel
    BY WrittenRecords, Zenon
  <2>2. ~records[r].cancel
    BY <1>1, <1>5, Zenon DEF BrokerInv, CancelOK
  <2>3. Follows(records[r], rec)
    BY <1>5, <2>1, Zenon DEF Follows
  <2> HIDE DEF rec, next
  <2>4. \E a \in Steps : next = At(a, r) /\ Fits(a, r, rec)
    BY <1>4, <2>1, <2>2
  <2> QED BY <1>1, <1>2, <1>5, <2>1, <2>2, <2>3, <2>4, PersistInv, Zenon
<1>6. CASE records[r].state = "stoppending" /\ step' = next /\ UNCHANGED ledgerVars
  <2>1. ~records[r].cancel
    BY <1>1, <1>6, Zenon DEF BrokerInv, CancelOK
  <2> HIDE DEF next
  <2>2. \E a \in Steps, q \in Request :
          step' = At(a, q) /\ ~poisoned /\ Fits(a, q, records[q])
    BY <1>1, <1>4, <1>6, <2>1
  <2> QED BY <1>1, <1>2, <1>6, <2>2, QuietInv, Zenon DEF heldVars, BrokerInv, BrokerTypeOK
<1> QED BY <1>5, <1>6, Zenon DEF BeginStop

\* The three ways to empty a group.
LEMMA KillInv ==
    ASSUME BrokerInv, NEW r \in Request, NEW a \in {"stop", "cleanupstop", "drain"},
           step = At(a, r), Kill(r), step' # Idle => unit[r] \in {"active", "gone"},
           UNCHANGED <<ledgerVars, held, acked, store, starts>>, active' \subseteq Request
    PROVE  BrokerInv'
<1>1. /\ step.at # "down" /\ poisoned = FALSE /\ Fits(a, r, records[r])
      /\ records = file.records
  BY HandlerFacts, Zenon DEF Steps
<1>2. CASE step' = Idle /\ UNCHANGED <<unit, group>>
  BY <1>1, <1>2, QuietInv DEF systemVars
<1>3. CASE Emptied(r) /\ step' = At("confirm", r)
  <2>1. unit[r] \in {"active", "gone"}
    BY <1>3 DEF At, Idle
  <2>2. /\ unit' \in [Request -> {"none", "queued", "active", "gone"}]
        /\ group' \in [Request -> {"none", "populated", "empty"}]
        /\ unit'[r] = "gone" /\ group'[r] = "empty"
        /\ \A q \in Request : q # r => unit'[q] = unit[q] /\ group'[q] = group[q]
    BY <1>3 DEF Emptied, BrokerInv, BrokerTypeOK
  <2>3. UnitsOK'
    BY <2>1, <2>2, Zenon DEF BrokerInv, UnitsOK, ledgerVars
  <2>4. LiveIsRecorded'
    BY <2>2, Zenon DEF BrokerInv, LiveIsRecorded, Live, Unresolved, ledgerVars
  <2>5. Fits("confirm", r, records[r])'
    BY <1>1, <2>2, Zenon DEF Fits, ledgerVars
  <2>6. Resumes(records)
    BY <1>1, <1>3, <2>5, Zenon DEF Resumes, Steps, ledgerVars
  <2> QED BY <1>1, <2>2, <2>3, <2>4, <2>6, SystemInv, Zenon DEF BrokerInv, BrokerTypeOK
<1> QED BY <1>2, <1>3 DEF Kill

\* Each of the three stops needs a unit that ran.
LEMMA StopsInv ==
    ASSUME BrokerInv, NEW r \in Request, StopLive(r) \/ CleanupStop(r) \/ StopRetained(r)
    PROVE  BrokerInv'
<1>1. active \subseteq Request
  BY DEF BrokerInv, BrokerTypeOK
<1>2. CASE StopLive(r)
  BY <1>1, <1>2, KillInv DEF StopLive
<1>3. CASE CleanupStop(r)
  BY <1>1, <1>3, KillInv DEF CleanupStop, heldVars
<1>4. CASE StopRetained(r)
  <2>1. Fits("drain", r, records[r])
    BY <1>4, HandlerFacts, Zenon DEF StopRetained, Steps
  <2> QED BY <1>1, <1>4, <2>1, KillInv, Zenon DEF StopRetained, heldVars, Fits
<1> QED BY <1>2, <1>3, <1>4

\* A launch is marked stopped only with its unit gone and its group empty.
LEMMA ConfirmInv ==
    ASSUME BrokerInv, NEW r \in Request, Confirm(r)
    PROVE  BrokerInv'
<1> DEFINE rec == With(r, "stopped")
<1>1. /\ step.at # "down" /\ poisoned = FALSE /\ Fits("confirm", r, records[r])
      /\ records = file.records /\ records \in [Request -> Record]
  BY HandlerFacts, Zenon DEF Confirm, Steps, BrokerInv, BrokerTypeOK
<1>2. /\ records[r].state = "stoppending" /\ ~records[r].cancel /\ ~Live(r)
  BY <1>1 DEF Fits, Live
<1>3. /\ rec \in Record /\ rec.state = "stopped"
      /\ rec.job = records[r].job /\ rec.cancel = records[r].cancel
  BY WrittenRecords, Zenon
<1>4. Follows(records[r], rec)
  BY <1>2, <1>3, Zenon DEF Follows
<1>5. /\ UNCHANGED <<held, acked, store, systemVars>> /\ active' \subseteq Request
      /\ Written(r, rec) \/ Interrupted(r, rec) \/ Refused
      /\ step' = Idle \/ (Written(r, rec) /\ step' = At("release", r))
  BY DEF Confirm, BrokerInv, BrokerTypeOK
<1> HIDE DEF rec
<1>6. StateOK'
  BY <1>1, <1>2, <1>3, <1>4, <1>5, AppendState, Zenon
<1>7. Resumes(records)
  <2>1. CASE step' = Idle
    BY <2>1 DEF Resumes
  <2>2. CASE Written(r, rec) /\ step' = At("release", r)
    <3>1. records'[r] = rec /\ poisoned' = FALSE
      BY <1>1, <2>2 DEF Written
    <3>2. Fits("release", r, records[r])'
      BY <1>3, <3>1 DEF Fits
    <3> QED BY <2>2, <3>1, <3>2 DEF Resumes, Steps
  <2> QED BY <1>5, <2>1, <2>2
<1> QED BY <1>5, <1>6, <1>7, Assemble DEF BrokerInv, BrokerTypeOK, systemVars

\* A stop of a stopped launch changes nothing before the release.
LEMMA StopAgainInv ==
    ASSUME BrokerInv, NEW r \in Request, StopAgain(r)
    PROVE  BrokerInv'
<1>1. step.at # "down" /\ poisoned = FALSE
  BY HealthyFacts, Zenon DEF StopAgain
<1>2. Fits("release", r, records[r])
  BY Zenon DEF Fits, StopAgain
<1>3. \E a \in Steps, q \in Request :
        step' = At(a, q) /\ ~poisoned /\ Fits(a, q, records[q])
  BY <1>1, <1>2, Zenon DEF StopAgain, Steps
<1> QED BY <1>1, <1>3, QuietInv, Zenon DEF StopAgain, heldVars, BrokerInv, BrokerTypeOK

\* Only the directory of a stopped launch leaves the store.
LEMMA ReleaseInv ==
    ASSUME BrokerInv, NEW r \in Request, Release(r)
    PROVE  BrokerInv'
<1>1. /\ step.at # "down" /\ poisoned = FALSE /\ Fits("release", r, records[r])
      /\ records = file.records
  BY HandlerFacts, Zenon DEF Release, Steps
<1>2. file.records[r].state = "stopped"
  BY <1>1, Zenon DEF Fits
<1>3. /\ UNCHANGED <<ledgerVars, active, systemVars>>
      /\ held' \subseteq held /\ acked' \subseteq held' /\ acked' \subseteq acked
      /\ store' \subseteq store /\ store \ {r} \subseteq store'
  BY DEF Release, BrokerInv, BrokerTypeOK
<1>4. StateOK'
  <2>1. UnitsOK'
    BY <1>3, Zenon DEF BrokerInv, UnitsOK, ledgerVars, systemVars
  <2>2. StoreOK'
    BY <1>2, <1>3 DEF BrokerInv, StoreOK, ledgerVars
  <2> QED BY <1>1, <1>3, <2>1, <2>2, Zenon
       DEF BrokerInv, BrokerTypeOK, StateOK, ledgerVars, systemVars, LiveIsRecorded, Live,
           CancelOK, JournalOK, Present, Unresolved
<1>5. Resumes(records)
  BY DEF Release, Resumes
<1> QED BY <1>3, <1>4, <1>5, Assemble DEF BrokerInv, BrokerTypeOK, systemVars

\* PID 1 and the processes move while the broker stands anywhere or is down.
LEMMA ManagerInv ==
    ASSUME BrokerInv, NEW r \in Request, Manager(r)
    PROVE  BrokerInv'
<1>1. UNCHANGED <<ledgerVars, step, heldVars, starts>>
  BY DEF Manager, JobRuns, JobDropped, LeaderExits, GroupDrains
<1>2. /\ unit \in [Request -> {"none", "queued", "active", "gone"}]
      /\ group \in [Request -> {"none", "populated", "empty"}]
  BY DEF BrokerInv, BrokerTypeOK
<1>3. /\ unit' \in [Request -> {"none", "queued", "active", "gone"}]
      /\ group' \in [Request -> {"none", "populated", "empty"}]
      /\ \A q \in Request : q # r => unit'[q] = unit[q] /\ group'[q] = group[q]
      /\ \/ unit[r] = "queued" /\ unit'[r] = "active" /\ group'[r] = "populated"
         \/ unit[r] = "queued" /\ unit'[r] = "gone" /\ group'[r] = group[r]
         \/ unit[r] = "active" /\ unit'[r] = "gone" /\ group'[r] \in {group[r], "empty"}
         \/ unit[r] = "gone" /\ unit'[r] = "gone" /\ group'[r] = "empty"
  <2>1. CASE JobRuns(r)
    BY <1>2, <2>1 DEF JobRuns
  <2>2. CASE JobDropped(r)
    BY <1>2, <2>2 DEF JobDropped
  <2>3. CASE LeaderExits(r)
    BY <1>2, <2>3 DEF LeaderExits
  <2>4. CASE GroupDrains(r)
    BY <1>2, <2>4 DEF GroupDrains
  <2> QED BY <2>1, <2>2, <2>3, <2>4, Zenon DEF Manager
<1>4. UnitsOK'
  BY <1>1, <1>3 DEF BrokerInv, UnitsOK, ledgerVars, heldVars
<1>5. LiveIsRecorded'
  BY <1>1, <1>3, Zenon DEF BrokerInv, LiveIsRecorded, Live, Unresolved, ledgerVars
<1>6. \A q \in Request : /\ unit[q] = "gone" => unit'[q] = "gone"
                         /\ unit[q] = "gone" /\ group[q] = "empty" => group'[q] = "empty"
  BY <1>3, Zenon
<1>7. StepOK'
  BY <1>1, <1>6, Zenon DEF BrokerInv, StepOK, Fits, ledgerVars, heldVars
<1> QED BY <1>1, <1>3, <1>4, <1>5, <1>7, Zenon
     DEF BrokerInv, BrokerTypeOK, Agrees, ledgerVars, heldVars, CancelOK, StoreOK,
         JournalOK, Present, Unresolved

\* A death forgets the memory of the broker and nothing else.
LEMMA CrashInv ==
    ASSUME BrokerInv, Crash
    PROVE  BrokerInv'
<1>1. step'.at = "down" /\ step' = Down
  BY DEF Crash, Down, At
<1>2. StepOK' /\ Agrees'
  BY <1>1, Zenon DEF Crash, StepOK, Agrees, Steps
<1>3. Absent \in Record
  BY DEF Absent, Record
<1>4. BrokerTypeOK'
  BY <1>1, <1>3, Zenon DEF Crash, BrokerInv, BrokerTypeOK, systemVars
<1>5. UnitsOK'
  BY Zenon DEF Crash, BrokerInv, UnitsOK, systemVars
<1>6. LiveIsRecorded' /\ CancelOK' /\ StoreOK' /\ JournalOK'
  BY Zenon DEF Crash, BrokerInv, LiveIsRecorded, Live, CancelOK, StoreOK, JournalOK,
         Present, Unresolved, systemVars
<1> QED BY <1>2, <1>4, <1>5, <1>6 DEF BrokerInv

\* A restart takes its records from the file and only directories of the store.
LEMMA OpenInv ==
    ASSUME BrokerInv, Open
    PROVE  BrokerInv'
<1>1. step.at = "down" /\ poisoned = FALSE /\ step'.at = "idle"
  BY Zenon DEF Open, Down, Idle, At, BrokerInv, BrokerTypeOK, Agrees
<1>2. /\ UNCHANGED <<file, poisoned, active, store, systemVars>>
      /\ records' = file.records /\ step' = Idle
      /\ held' \subseteq store /\ acked' = held'
  BY Zenon DEF Open
<1>3. BrokerTypeOK'
  BY <1>2 DEF BrokerInv, BrokerTypeOK, File, systemVars
<1>4. StepOK' /\ Agrees'
  BY <1>1, <1>2 DEF StepOK, Agrees, Steps
<1>5. UnitsOK' /\ StoreOK'
  BY <1>2, Zenon DEF BrokerInv, UnitsOK, StoreOK, systemVars
<1>6. LiveIsRecorded' /\ CancelOK' /\ JournalOK'
  BY <1>2, Zenon DEF BrokerInv, LiveIsRecorded, Live, CancelOK, JournalOK, Present, Unresolved,
              systemVars
<1> QED BY <1>3, <1>4, <1>5, <1>6 DEF BrokerInv

\* Every step keeps the invariant.
LEMMA NextInv ==
    ASSUME BrokerInv, [Next]_vars
    PROVE  BrokerInv'
<1>1. CASE UNCHANGED vars
  <2>1. BrokerTypeOK' /\ Agrees' /\ CancelOK' /\ StoreOK'
    BY <1>1, Zenon DEF vars, BrokerInv, BrokerTypeOK, Agrees, CancelOK, StoreOK
  <2>2. StepOK'
    BY <1>1, Zenon DEF vars, BrokerInv, StepOK, Fits
  <2>3. UnitsOK'
    BY <1>1, Zenon DEF vars, BrokerInv, UnitsOK
  <2>4. LiveIsRecorded' /\ JournalOK'
    BY <1>1, Zenon DEF vars, BrokerInv, LiveIsRecorded, Live, JournalOK, Present, Unresolved
  <2> QED BY <2>1, <2>2, <2>3, <2>4 DEF BrokerInv
<1>2. ASSUME NEW r \in Request, Launches(r)
      PROVE  BrokerInv'
  BY <1>2, ReserveInv, LaunchAgainInv, StartInv, WaitInv, BindInv, RetainInv, CommitInv,
     CleanupInv DEF Launches
<1>3. ASSUME NEW r \in Request, Stops(r)
      PROVE  BrokerInv'
  BY <1>3, CancelPendingInv, CancelJobInv, BeginStopInv, StopsInv, ConfirmInv,
     StopAgainInv, ReleaseInv DEF Stops
<1>4. CASE OpenRefused
  BY <1>1, <1>4 DEF OpenRefused
<1> QED BY <1>1, <1>2, <1>3, <1>4, ManagerInv, CrashInv, OpenInv DEF Next

\* The number of processes is that of the unresolved records at most.
LEMMA InvBounds ==
    ASSUME BrokerInv
    PROVE  ProcessesAreBounded
<1> DEFINE live == {r \in Request : Live(r)}
<1>1. live \subseteq Unresolved(file.records)
  BY DEF BrokerInv, LiveIsRecorded
<1>2. IsFiniteSet(Unresolved(file.records))
  BY BrokerConstants, FS_Subset DEF Unresolved
<1>3. IsFiniteSet(live) /\ Cardinality(live) <= Cardinality(Unresolved(file.records))
  BY <1>1, <1>2, FS_Subset
<1>4. Cardinality(live) \in Nat /\ Cardinality(Unresolved(file.records)) \in Nat
  BY <1>2, <1>3, FS_CardinalityType
<1>5. Cardinality(Unresolved(file.records)) <= MaxActiveProcesses
  BY DEF BrokerInv, JournalOK
<1> HIDE DEF live
<1>6. Cardinality(live) <= MaxActiveProcesses
  BY <1>3, <1>4, <1>5, BrokerConstants
<1> QED BY <1>6 DEF ProcessesAreBounded, live

\* What the invariant says of the launches.
LEMMA InvFacts ==
    ASSUME BrokerInv
    PROVE  OneStartPerLaunch /\ LiveIsRecorded /\ ProcessesAreBounded /\ CommittedIsStored
<1>1. OneStartPerLaunch
  BY DEF BrokerInv, UnitsOK, OneStartPerLaunch
<1>2. CommittedIsStored
  BY DEF BrokerInv, StoreOK, CommittedIsStored
<1> QED BY <1>1, <1>2, InvBounds DEF BrokerInv

\* For any requests and limits, with the broker dying at any point and any
\* answer of PID 1 lost: a launch is started at most once, whatever may run has
\* an unfinished record on disk, the processes of all incarnations stay within
\* the admission limit, and the directory of a committed launch is in the
\* descriptor store (handle_launch_at_deadline, lifecycle_at_deadline).
THEOREM BrokerCorrect ==
    Spec => [](OneStartPerLaunch /\ LiveIsRecorded /\ ProcessesAreBounded /\ CommittedIsStored)
<1>1. Init => BrokerInv
  BY InitInv
<1>2. BrokerInv /\ [Next]_vars => BrokerInv'
  BY NextInv
<1>3. BrokerInv => OneStartPerLaunch /\ LiveIsRecorded /\ ProcessesAreBounded /\ CommittedIsStored
  BY InvFacts
<1> QED BY <1>1, <1>2, <1>3, PTL DEF Spec

\* The byte limit keeps the number of lines within the limit of the reopen
\* exactly when the lines are of the maximal size.
LEMMA InvReopens ==
    ASSUME BrokerInv, LineBytes = MaxLineBytes
    PROVE  ReopenRestores
<1>1. \A m, n \in Nat, b \in Nat \ {0} : m * b <= n * b => m <= n
  OBVIOUS
<1>2. file.lines \in Nat /\ file.lines * LineBytes <= MaxLedgerTransitions * LineBytes
  BY DEF BrokerInv, BrokerTypeOK, JournalOK, File
<1>3. file.lines <= MaxLedgerTransitions
  BY <1>1, <1>2, BrokerConstants
<1>4. file.damage = "none" => Opens(file)
  BY <1>3 DEF Opens, BrokerInv, JournalOK
<1>5. step.at = "down" => step = Down
  BY DEF BrokerInv, BrokerTypeOK, Steps, Idle, Down, At
<1>6. step # Down /\ ~poisoned => records = file.records
  BY <1>5 DEF BrokerInv, Agrees
<1> QED BY <1>4, <1>6 DEF ReopenRestores

\* When every line has the maximal size, any journal without a cut-off append
\* reopens, and to the records the broker works with (append, parse_records).
\* Without the first assumption broker_journal shows a journal that does not.
THEOREM FullLinesReopen ==
    ASSUME LineBytes = MaxLineBytes
    PROVE  Spec => []ReopenRestores
<1>1. Init => BrokerInv
  BY InitInv
<1>2. BrokerInv /\ [Next]_vars => BrokerInv'
  BY NextInv
<1>3. BrokerInv => ReopenRestores
  BY InvReopens
<1> QED BY <1>1, <1>2, <1>3, PTL DEF Spec

-----------------------------------------------------------------------------

\* What an append may do to a cancelled launch.
LEMMA AppendCancel ==
    ASSUME BrokerInv, NEW r \in Request, NEW rec \in Record, records = file.records,
           Written(r, rec) \/ Interrupted(r, rec) \/ Refused,
           records[r].cancel => rec.cancel /\ rec.state # "committed"
    PROVE  \A q \in Request : file.records[q].cancel =>
             file'.records[q].cancel /\ file'.records[q].state # "committed"
<1>1. file \in File /\ file.records \in [Request -> Record]
  BY DEF BrokerInv, BrokerTypeOK, File
<1>2. /\ Line(r, rec, TRUE).records = [file.records EXCEPT ![r] = rec]
      /\ Line(r, rec, FALSE).records = [file.records EXCEPT ![r] = rec]
      /\ [file EXCEPT !.damage = "torn"].records = file.records
  BY <1>1 DEF Line, File
<1>3. file'.records \in {file.records, [file.records EXCEPT ![r] = rec]}
  <2>1. CASE Written(r, rec)
    BY <1>2, <2>1, Zenon DEF Written
  <2>2. CASE Interrupted(r, rec)
    BY <1>2, <2>2, Zenon DEF Interrupted
  <2>3. CASE Refused
    BY <2>3 DEF Refused, ledgerVars
  <2> QED BY <2>1, <2>2, <2>3
<1>4. \A q \in Request : file.records[q].cancel => file.records[q].state # "committed"
  BY DEF BrokerInv, CancelOK
<1> QED BY <1>1, <1>3, <1>4, Zenon

\* The appends of the handlers.
LEMMA HandlerCancel ==
    ASSUME BrokerInv, NEW r \in Request, Launches(r) \/ Stops(r), ~UNCHANGED file
    PROVE  \A q \in Request : file.records[q].cancel =>
             file'.records[q].cancel /\ file'.records[q].state # "committed"
<1> DEFINE reserved == [Absent EXCEPT !.state = "pending"]
           bound == [records[r] EXCEPT !.job = TRUE]
           cancelled == [records[r] EXCEPT !.cancel = TRUE]
           Appends(rec) == Written(r, rec) \/ Interrupted(r, rec) \/ Refused
<1>1. records = file.records /\ records[r] \in Record
  <2>1. CASE Healthy
    BY <2>1, HealthyFacts, Zenon
  <2>2. CASE \E a \in Steps : step = At(a, r)
    BY <2>2, HandlerFacts, Zenon
  <2> QED BY <2>1, <2>2, Zenon DEF Launches, Stops, Reserve, LaunchAgain, Start, Wait, Bind, Retain,
       Commit, Cleanup, CancelPending, CancelJob, BeginStop, StopLive, CleanupStop,
       StopRetained, Confirm, StopAgain, Release, Steps
<1>2. records[r].cancel => records[r].state = "pending"
  BY <1>1 DEF BrokerInv, CancelOK
<1>3. /\ reserved \in Record /\ bound \in Record /\ cancelled \in Record
      /\ With(r, "committed") \in Record /\ With(r, "stoppending") \in Record
      /\ With(r, "stopped") \in Record
      /\ bound.state = records[r].state /\ bound.cancel = records[r].cancel
      /\ cancelled.state = records[r].state /\ cancelled.cancel
      /\ With(r, "stoppending").state = "stoppending"
      /\ With(r, "stoppending").cancel = records[r].cancel
      /\ With(r, "stopped").state = "stopped"
      /\ With(r, "stopped").cancel = records[r].cancel
  BY WrittenRecords
<1> HIDE DEF reserved, bound, cancelled
<1>4. \/ Appends(reserved) /\ records[r].state = "absent"
      \/ Appends(With(r, "committed")) /\ ~records[r].cancel
      \/ Appends(bound) \/ Appends(cancelled)
      \/ Appends(With(r, "stoppending")) \/ Appends(With(r, "stopped"))
  <2>1. CASE Reserve(r)
    BY <2>1, Zenon DEF Reserve, Persist, reserved
  <2>2. CASE LaunchAgain(r)
    BY <2>2, Zenon DEF LaunchAgain, ledgerVars
  <2>3. CASE Bind(r)
    BY <2>3 DEF Bind, Persist, bound
  <2>4. CASE Commit(r)
    <3>1. Fits("commit", r, records[r])
      BY <2>4, HandlerFacts, Zenon DEF Commit, Steps
    <3> QED BY <2>4, <3>1, Zenon DEF Commit, Fits
  <2>5. CASE Cleanup(r)
    BY <2>5, Zenon DEF Cleanup, Persist
  <2>6. CASE CancelPending(r)
    BY <2>6 DEF CancelPending, Persist, cancelled, ledgerVars
  <2>7. CASE BeginStop(r)
    BY <2>7, Zenon DEF BeginStop, Persist, ledgerVars
  <2>8. CASE Confirm(r)
    BY <2>8, Zenon DEF Confirm
  <2>9. CASE Start(r) \/ Wait(r) \/ Retain(r) \/ CancelJob(r) \/ StopLive(r)
               \/ CleanupStop(r) \/ StopRetained(r) \/ StopAgain(r) \/ Release(r)
    BY <2>9, Zenon DEF Start, Wait, Retain, CancelJob, StopLive, CleanupStop, StopRetained,
         StopAgain, Release, ledgerVars
  <2> QED BY <2>1, <2>2, <2>3, <2>4, <2>5, <2>6, <2>7, <2>8, <2>9, Zenon DEF Launches, Stops
<1>5. CASE Appends(reserved) /\ records[r].state = "absent"
  BY <1>1, <1>2, <1>3, <1>5, AppendCancel, Zenon
<1>6. CASE Appends(With(r, "committed")) /\ ~records[r].cancel
  BY <1>1, <1>3, <1>6, AppendCancel, Zenon
<1>7. CASE Appends(bound)
  BY <1>1, <1>2, <1>3, <1>7, AppendCancel, Zenon
<1>8. CASE Appends(cancelled)
  BY <1>1, <1>2, <1>3, <1>8, AppendCancel, Zenon
<1>9. CASE Appends(With(r, "stoppending"))
  BY <1>1, <1>3, <1>9, AppendCancel, Zenon
<1>10. CASE Appends(With(r, "stopped"))
  BY <1>1, <1>3, <1>10, AppendCancel, Zenon
<1> QED BY <1>4, <1>5, <1>6, <1>7, <1>8, <1>9, <1>10, Zenon

\* A cancellation on disk is never taken back and its launch never committed,
\* by no handler and over no restart (request_pending_stop).
THEOREM CancelledForGood == Spec => CancelledStaysCancelled
<1>1. Init => BrokerInv
  BY InitInv
<1>2. BrokerInv /\ [Next]_vars => BrokerInv'
  BY NextInv
<1>3. BrokerInv /\ [Next]_vars =>
        [\A r \in Request : file.records[r].cancel =>
           file'.records[r].cancel /\ file'.records[r].state # "committed"]_vars
  <2> SUFFICES ASSUME BrokerInv, Next
               PROVE  \A r \in Request : file.records[r].cancel =>
                        file'.records[r].cancel /\ file'.records[r].state # "committed"
    OBVIOUS
  <2>1. CASE UNCHANGED file
    BY <2>1 DEF BrokerInv, CancelOK
  <2>2. CASE ~UNCHANGED file
    <3>1. PICK r \in Request : Launches(r) \/ Stops(r)
      BY <2>2, Zenon DEF Next, Crash, Open, OpenRefused, vars, Manager, JobRuns, JobDropped,
           LeaderExits, GroupDrains, ledgerVars
    <3> QED BY <2>2, <3>1, HandlerCancel
  <2> QED BY <2>1, <2>2
<1> QED BY <1>1, <1>2, <1>3, PTL DEF Spec, CancelledStaysCancelled

-----------------------------------------------------------------------------
(* The restart budget, for every budget, window and number of daemon        *)
(* restarts.  The invariant ties a row of the current epoch to the real     *)
(* time of its start, so that a row that is no longer counted or is deleted *)
(* belongs to a start that has left the window.  What was counted when a    *)
(* start was admitted bounds what is counted when it is recorded, because   *)
(* in between rows only leave the window.                                   *)

RowsAreStamped ==
    \A e \in events : /\ e.epoch <= epoch
                      /\ e.epoch = epoch => e.at = opened + e.elapsed
                      /\ e.at <= now

AdmittedInBudget == row.state = "Admitted" => Cardinality(Counted(Elapsed)) < Budget

BInv == /\ BudgetTypeOK /\ RowsAreStamped /\ Recent \subseteq events
        /\ TableIsBounded /\ AdmittedInBudget

\* Initially nothing has been started.
LEMMA BudgetInitInv == BudgetInit => BInv
<1> SUFFICES ASSUME BudgetInit PROVE BInv
  OBVIOUS
<1>1. IsFiniteSet({}) /\ Cardinality({}) = 0
  BY FS_EmptySet
<1>2. TableIsBounded
  BY <1>1, BudgetAssumption DEF BudgetInit, TableIsBounded
<1>3. BudgetTypeOK /\ RowsAreStamped /\ Recent \subseteq events /\ AdmittedInBudget
  BY DEF BudgetInit, BudgetTypeOK, Row, RowsAreStamped, Recent, AdmittedInBudget
<1>4. QED
  BY <1>2, <1>3 DEF BInv

\* The row of a start is stamped with the time since the store was opened, and
\* what is left of the table beside it is what was counted.
LEMMA RecordedRows ==
    ASSUME BInv, RecordRestart
    PROVE  LET event == [epoch |-> epoch, elapsed |-> Elapsed, id |-> row.attempts + 1,
                         at |-> now]
           IN  /\ events' = Counted(Elapsed) \cup {event}
               /\ startTimes' = startTimes \cup {event}
<1> DEFINE own == {e.elapsed : e \in {e \in events : e.epoch = epoch}}
           observed == CHOOSE t \in own \cup {Elapsed} : \A u \in own \cup {Elapsed} : u <= t
<1>1. Elapsed \in Nat /\ \A u \in own : u \in Nat /\ u <= Elapsed
  BY DEF BInv, BudgetTypeOK, RowsAreStamped, Event, Elapsed
<1>2. \A t \in own \cup {Elapsed} : (\A u \in own \cup {Elapsed} : u <= t) => t = Elapsed
  BY <1>1
<1>3. \A u \in own \cup {Elapsed} : u <= Elapsed
  BY <1>1
<1>4. observed = Elapsed
  BY <1>2, <1>3
<1>5. /\ events' = {e \in events : e.epoch = epoch => e.elapsed >= Monus(Elapsed, Window)}
                    \cup {[epoch |-> epoch, elapsed |-> Elapsed, id |-> row.attempts + 1,
                           at |-> now]}
      /\ startTimes' = startTimes \cup {[epoch |-> epoch, elapsed |-> Elapsed,
                                 id |-> row.attempts + 1, at |-> now]}
  BY <1>4, Zenon DEF RecordRestart
<1>6. QED
  BY <1>5 DEF Counted

\* What is counted is finite, and only shrinks while time passes.
LEMMA CountedShrinks ==
    ASSUME BInv, Tick
    PROVE  /\ Cardinality(Counted(Elapsed)') <= Cardinality(Counted(Elapsed))
           /\ Cardinality(Counted(Elapsed)') \in Nat /\ Cardinality(Counted(Elapsed)) \in Nat
<1> USE BudgetAssumption
<1>1. IsFiniteSet(Counted(Elapsed)) /\ Cardinality(Counted(Elapsed)) \in Nat
  BY FS_Subset, FS_CardinalityType DEF BInv, TableIsBounded, Counted
<1>2. Counted(Elapsed)' \subseteq Counted(Elapsed)
  BY DEF Tick, BInv, BudgetTypeOK, Counted, Elapsed, Monus, Event
<1>3. QED
  BY <1>1, <1>2, FS_Subset, FS_CardinalityType

\* Every step keeps the invariant.
LEMMA BudgetNextInv == ASSUME BInv, [BudgetNext]_budgetVars PROVE BInv'
<1> USE BudgetAssumption
<1>1. CASE Tick
  <2>1. BudgetTypeOK' /\ RowsAreStamped'
    BY <1>1 DEF Tick, BInv, BudgetTypeOK, RowsAreStamped, Event
  <2>2. Recent' \subseteq events' /\ TableIsBounded'
    BY <1>1 DEF Tick, BInv, BudgetTypeOK, Recent, TableIsBounded, Event
  <2>3. AdmittedInBudget'
    BY <1>1, CountedShrinks DEF Tick, BInv, AdmittedInBudget
  <2>4. QED
    BY <2>1, <2>2, <2>3 DEF BInv
<1>2. CASE Reopen
  <2>1. row' \in Row /\ row'.state # "Admitted"
    BY <1>2 DEF Reopen, BInv, BudgetTypeOK, Row
  <2>2. BudgetTypeOK' /\ RowsAreStamped'
    BY <1>2, <2>1 DEF Reopen, BInv, BudgetTypeOK, RowsAreStamped, Event
  <2>3. Recent' \subseteq events' /\ TableIsBounded' /\ AdmittedInBudget'
    BY <1>2, <2>1 DEF Reopen, BInv, Recent, TableIsBounded, AdmittedInBudget
  <2>4. QED
    BY <2>2, <2>3 DEF BInv
<1>3. CASE Exits \/ Exhaust \/ Admit \/ MarkStarting
  <2> row \in Row /\ wall \in Nat
    BY DEF BInv, BudgetTypeOK
  <2>1. Exits \/ Exhaust => row' \in Row
    BY DEF Exits, Exhaust, Row
  <2>2. Admit => row' \in Row
    BY Zenon DEF Admit, Row
  <2>3. MarkStarting => row' \in Row
    BY DEF MarkStarting, Row
  <2>4. /\ UNCHANGED <<now, epoch, opened, events, startTimes>> /\ wall' = wall
        /\ row' \in Row
    BY <1>3, <2>1, <2>2, <2>3 DEF Exits, Exhaust, Admit, MarkStarting
  <2>5. BudgetTypeOK' /\ RowsAreStamped' /\ Recent' \subseteq events' /\ TableIsBounded'
    BY <2>4, Zenon DEF BInv, BudgetTypeOK, RowsAreStamped, Recent, TableIsBounded
  <2>6. row'.state = "Admitted" => Admit
    BY <1>3 DEF Exits, Exhaust, MarkStarting, BInv, BudgetTypeOK, Row
  <2>7. AdmittedInBudget'
    BY <2>4, <2>6 DEF Admit, AdmittedInBudget, Counted, Elapsed
  <2>8. QED
    BY <2>5, <2>7 DEF BInv
<1>4. CASE RecordRestart
  <2> DEFINE event == [epoch |-> epoch, elapsed |-> Elapsed, id |-> row.attempts + 1,
                       at |-> now]
  <2>1. /\ events' = Counted(Elapsed) \cup {event} /\ startTimes' = startTimes \cup {event}
        /\ UNCHANGED <<now, wall, epoch, opened>>
    BY <1>4, RecordedRows, Zenon DEF RecordRestart
  <2>2. event \in Event /\ Elapsed \in Nat /\ now = opened + Elapsed
    BY DEF BInv, BudgetTypeOK, Row, Event, Elapsed
  <2>3. Counted(Elapsed) \subseteq events
    BY DEF Counted
  <2>4. row' \in Row /\ row'.state # "Admitted"
    BY <1>4 DEF RecordRestart, BInv, BudgetTypeOK, Row
  <2>5. BudgetTypeOK' /\ AdmittedInBudget'
    BY <2>1, <2>2, <2>3, <2>4 DEF BInv, BudgetTypeOK, AdmittedInBudget
  <2>6. RowsAreStamped'
    BY <2>1, <2>2, <2>3 DEF BInv, BudgetTypeOK, RowsAreStamped
  <2>7. Recent' \subseteq events'
    <3>1. ASSUME NEW s \in Recent PROVE s \in Counted(Elapsed)
      BY <2>2, <3>1
      DEF BInv, BudgetTypeOK, RowsAreStamped, Recent, Counted, Event, Monus
    <3>2. QED
      BY <2>1, <3>1 DEF Recent
  <2>8. TableIsBounded'
    <3>1. IsFiniteSet(Counted(Elapsed)) /\ Cardinality(Counted(Elapsed)) \in Nat
      BY <2>3, FS_Subset, FS_CardinalityType, Zenon DEF BInv, TableIsBounded
    <3>2. /\ IsFiniteSet(Counted(Elapsed) \cup {event})
          /\ Cardinality(Counted(Elapsed) \cup {event}) <= Cardinality(Counted(Elapsed)) + 1
      <4> DEFINE S == Counted(Elapsed)
      <4>1. IsFiniteSet(S) /\ Cardinality(S) \in Nat
        BY <3>1
      <4> HIDE DEF S
      <4>2. /\ IsFiniteSet(S \cup {event})
            /\ Cardinality(S \cup {event}) = IF event \in S THEN Cardinality(S)
                                             ELSE Cardinality(S) + 1
        BY <4>1, FS_AddElement, Zenon
      <4>3. Cardinality(S \cup {event}) <= Cardinality(S) + 1
        BY <4>1, <4>2
      <4> QED
        BY <4>2, <4>3, Zenon DEF S
    <3>3. Cardinality(Counted(Elapsed)) < Budget
      BY <1>4 DEF RecordRestart, BInv, AdmittedInBudget
    <3>4. Cardinality(Counted(Elapsed) \cup {event}) \in Nat
      BY <3>2, FS_CardinalityType
    <3>5. QED
      BY <2>1, <3>1, <3>2, <3>3, <3>4 DEF TableIsBounded
  <2>9. QED
    BY <2>5, <2>6, <2>7, <2>8 DEF BInv
<1>5. CASE UNCHANGED budgetVars
  <2>1. BudgetTypeOK' /\ RowsAreStamped'
    BY <1>5 DEF budgetVars, BInv, BudgetTypeOK, RowsAreStamped
  <2>2. Recent' \subseteq events' /\ TableIsBounded'
    BY <1>5 DEF budgetVars, BInv, Recent, TableIsBounded
  <2>3. AdmittedInBudget'
    BY <1>5 DEF budgetVars, BInv, AdmittedInBudget, Counted, Elapsed
  <2>4. QED
    BY <2>1, <2>2, <2>3 DEF BInv
<1>6. QED
  BY <1>1, <1>2, <1>3, <1>4, <1>5 DEF BudgetNext

\* For every budget and window, however often the daemon is restarted and
\* whatever the wall clock does: no window holds more starts than the budget,
\* and the table holds no more rows than the budget.
THEOREM RestartBudgetCorrect == BudgetSpec => [](BudgetTypeOK /\ BudgetHolds /\ TableIsBounded)
<1>1. BInv => BudgetTypeOK /\ BudgetHolds /\ TableIsBounded
  <2> SUFFICES ASSUME BInv PROVE BudgetHolds
    BY DEF BInv
  <2>1. /\ IsFiniteSet(events) /\ Cardinality(events) <= Budget
        /\ Recent \subseteq events
    BY DEF BInv, TableIsBounded
  <2>2. IsFiniteSet(Recent) /\ Cardinality(Recent) <= Cardinality(events)
    BY <2>1, FS_Subset
  <2>3. Cardinality(Recent) \in Nat /\ Cardinality(events) \in Nat
    BY <2>1, <2>2, FS_CardinalityType
  <2>4. QED
    BY <2>1, <2>2, <2>3, BudgetAssumption DEF BudgetHolds
<1>2. QED
  BY <1>1, BudgetInitInv, BudgetNextInv, PTL DEF BudgetSpec
=============================================================================
