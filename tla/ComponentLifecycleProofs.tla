----------------------- MODULE ComponentLifecycleProofs -----------------------
(***************************************************************************)
(* One component never has two live processes, for any set of launches.    *)
(* The invariant says what the supervisor knows about the launch it has in *)
(* hand at each place of a pass: until the launch call, and once it is     *)
(* being settled, the process is gone; in between its intent is unsettled. *)
(* A stronger one ties the component row to the launch intents, so that a  *)
(* row naming a process is backed by its launch.                           *)
(*                                                                         *)
(* Two parts around it follow, which share no variable with it or with     *)
(* each other: the removal of the Windows service, where a delete meets a  *)
(* stopped service, and the staging of the releases a component starts     *)
(* from.                                                                   *)
(***************************************************************************)
EXTENDS ComponentLifecycle, WindowsService, ReleaseStage, TLAPS

NoProcessYet == {"admit", "starting", "launch", "clean"}
IntentOpen   == {"admit", "starting", "launch", "proof", "running", "identify", "activate",
                 "insert", "abort", "adopt", "adopt_identity"}

InHand ==
    /\ sup.pc \in NoProcessYet => sup.n \in Launches /\ procs[sup.n] = "gone"
    /\ sup.pc \in IntentOpen => sup.n \in Launches /\ intents[sup.n] # "cleaned"

OneUnsettled == \A m, n \in Unsettled : m = n

LInv == LifecycleTypeOK /\ LiveIsTracked /\ OneUnsettled /\ InHand

SupType == [pc : Place, mode : DesiredMode, handle : Ref, n : Ref, why : Why,
            initialized : BOOLEAN]
RowType == [state : ComponentState, nonce : Ref, pid : Ref, identity : Ref, adoptable : BOOLEAN]

\* Ends of a pass and of the process are well typed and have nothing in hand.
LEMMA RestType ==
    ASSUME LifecycleTypeOK
    PROVE  /\ Down \in SupType /\ Down.pc = "down"
           /\ Done(sup) \in SupType /\ Done(sup).pc \in {"end", "identities"}
           /\ \A h \in Ref : /\ Done([sup EXCEPT !.handle = h]) \in SupType
                             /\ Done([sup EXCEPT !.handle = h]).pc \in {"end", "identities"}
<1>1. Down \in SupType /\ Down.pc = "down"
  BY DEF Down, SupType, Place, DesiredMode, Ref, Why
<1>2. Done(sup) \in SupType /\ Done(sup).pc \in {"end", "identities"}
  BY Zenon DEF LifecycleTypeOK, Done, SupType, Place, Ref, Why
<1>3. ASSUME NEW h \in Ref
      PROVE  /\ Done([sup EXCEPT !.handle = h]) \in SupType
             /\ Done([sup EXCEPT !.handle = h]).pc \in {"end", "identities"}
  BY Zenon DEF LifecycleTypeOK, Done, SupType, Place, Ref, Why
<1>4. QED
  BY <1>1, <1>2, <1>3

\* A step that settles a launch leaves a well-typed supervisor at "clean".
LEMMA SettleType ==
    ASSUME NEW s \in SupType, NEW n \in Ref, NEW why \in Why, Settle(s, why, n)
    PROVE  sup' \in SupType /\ sup'.pc = "clean" /\ sup'.n = n
  BY Zenon DEF Settle, SupType, Place

\* A row that a step writes is well typed.
LEMMA RowWritten ==
    ASSUME record \in RowType, NEW state \in ComponentState, NEW n \in Ref, NEW pid \in Ref,
           Put(state, n, pid)
    PROVE  record' \in RowType
  BY DEF RowType, Put, Ref

\* So is one in which only the state, or only the identity changes.
LEMMA RowChanged ==
    ASSUME record \in RowType, NEW n \in Ref, NEW state \in ComponentState
    PROVE  /\ [record EXCEPT !.state = state] \in RowType
           /\ [record EXCEPT !.identity = n, !.nonce = n, !.pid = n] \in RowType
  BY Zenon DEF RowType

\* Initially no intent is unsettled and no process lives.
LEMMA LifecycleInitInv == LifecycleInit => LInv
  BY LifecycleAssumption
  DEF LifecycleInit, LInv, LifecycleTypeOK, LiveIsTracked, OneUnsettled, InHand, Unsettled,
      Alive, Down, NoProcessYet, IntentOpen, LaunchIntentState, ComponentState, Ref,
      DesiredMode, Place, Why

\* A step that touches neither intents nor processes, and leaves the pass at a
\* place with nothing in hand, keeps the invariant.
LEMMA QuietStep ==
    ASSUME LInv, LifecycleTypeOK', UNCHANGED <<intents, procs>>,
           sup'.pc \notin NoProcessYet \cup IntentOpen
    PROVE  LInv'
  BY DEF LInv, LiveIsTracked, OneUnsettled, InHand, Unsettled, Alive

\* So does one that starts to settle a launch whose process is gone.
LEMMA SettleStep ==
    ASSUME LInv, LifecycleTypeOK', intents' = intents, NEW n \in Launches,
           \/ procs' = [procs EXCEPT ![n] = "gone"]
           \/ procs' = procs /\ procs[n] = "gone",
           sup'.pc = "clean", sup'.n = n
    PROVE  LInv'
  BY DEF LInv, LifecycleTypeOK, LiveIsTracked, OneUnsettled, InHand, Unsettled, Alive,
     NoProcessYet, IntentOpen

\* Every step keeps the invariant.
LEMMA LifecycleNextInv == ASSUME LInv, [LifecycleNext]_lifecycleVars PROVE LInv'
<1> USE LifecycleAssumption
<1>0. /\ LifecycleTypeOK /\ sup \in SupType /\ record \in RowType
      /\ sup.handle \in Ref /\ sup.n \in Ref /\ record.pid \in Ref /\ record.nonce \in Ref
      /\ record.identity \in Ref
      /\ Launches \subseteq Ref /\ None \in Ref
  BY DEF LInv, LifecycleTypeOK, SupType, RowType, Ref
<1>1. CASE Open \/ Crash
  <2>1. UNCHANGED <<intents, procs, record, desiredMode>>
    BY <1>1 DEF Open, Crash, NoStore
  <2>2. sup'.pc \in {"recover", "down"} /\ LifecycleTypeOK'
    BY <1>1, <1>0, <2>1, RestType
    DEF Open, Crash, Goto, Die, LifecycleTypeOK, Place, SupType
  <2> QED
    BY <2>1, <2>2, QuietStep DEF NoProcessYet, IntentOpen
<1>2. CASE ProcessExits \/ SetMode
  BY <1>2 DEF ProcessExits, SetMode, NoStore, Gone, LInv, LifecycleTypeOK, LiveIsTracked,
     OneUnsettled, InHand, Unsettled, Alive
<1>3. CASE AdoptIdentity
  <2>1. UNCHANGED <<intents, procs, desiredMode>>
    BY <1>3 DEF AdoptIdentity
  <2>2. sup' \in SupType /\ sup'.pc \in {"end", "identities"}
    BY <1>3, <1>0, RestType DEF AdoptIdentity, Retain
  <2>3. "Quarantined" \in ComponentState
    BY DEF ComponentState
  <2>4. record' \in RowType
    <3>1. CASE Identify(sup.n)
      BY <3>1, <1>0, <2>3, RowChanged, Zenon DEF Identify
    <3>2. CASE Put("Quarantined", sup.n, sup.n)
      BY <3>2, <1>0, <2>3, RowWritten
    <3>3. QED
      BY <1>3, <3>1, <3>2 DEF AdoptIdentity, Retain
  <2>5. LifecycleTypeOK'
    BY <1>0, <2>1, <2>2, <2>4 DEF LifecycleTypeOK, SupType, RowType
  <2> QED
    BY <2>1, <2>2, <2>5, QuietStep DEF NoProcessYet, IntentOpen
<1>4. CASE ReconcileIdentities
  <2>1. UNCHANGED <<intents, procs, desiredMode>>
    BY <1>4 DEF ReconcileIdentities
  <2>2. sup' \in SupType /\ sup'.pc \in {"mode", "clear"}
    <3>1. "mode" \in Place /\ "clear" \in Place /\ "stale" \in Why
      BY DEF Place, Why
    <3>2. QED
      BY <1>4, <1>0, <3>1, Zenon DEF ReconcileIdentities, Goto, SupType
  <2>3. record' \in RowType
    BY <1>4, <1>0, RowWritten DEF ReconcileIdentities, Put, ComponentState
  <2>4. LifecycleTypeOK'
    BY <1>0, <2>1, <2>2, <2>3 DEF LifecycleTypeOK, SupType, RowType
  <2> QED
    BY <2>1, <2>2, <2>4, QuietStep DEF NoProcessYet, IntentOpen
<1>5. CASE Clear
  <2>1. UNCHANGED <<intents, procs, desiredMode>>
    BY <1>5 DEF Clear
  <2>2. "Quarantined" \in ComponentState /\ "record" \in Place
    BY DEF ComponentState, Place
  <2>3. sup' \in SupType /\ sup'.pc \in {"end", "identities", "record", "down"}
    <3>1. CASE sup' = [sup EXCEPT !.pc = "record"]
      BY <3>1, <1>0, <2>2 DEF SupType
    <3>2. CASE sup' = Done(sup) \/ sup' = Done([sup EXCEPT !.handle = sup.n]) \/ sup' = Down
      BY <3>2, <1>0, RestType
    <3>3. QED
      BY <1>5, <3>1, <3>2 DEF Clear, Retain, Die
  <2>4. record' \in RowType
    <3>1. CASE record' = [record EXCEPT !.identity = None, !.nonce = None, !.pid = None]
      BY <3>1, <1>0, <2>2, RowChanged, Zenon
    <3>2. CASE Put("Quarantined", sup.n, sup.n)
      BY <3>2, <1>0, <2>2, RowWritten
    <3>3. QED
      BY <1>5, <3>1, <3>2 DEF Clear, Retain
  <2>5. LifecycleTypeOK'
    BY <1>0, <2>1, <2>3, <2>4 DEF LifecycleTypeOK, SupType, RowType
  <2> QED
    BY <2>1, <2>3, <2>5, QuietStep DEF NoProcessYet, IntentOpen
<1>6. CASE Record
  <2>1. UNCHANGED <<intents, procs, desiredMode>>
    BY <1>6 DEF Record
  <2>2. sup' \in SupType
        /\ sup'.pc \in {"end", "identities", "clear", "decide", "mode", "down"}
    <3>1. CASE sup.why = "recovered" /\ Retain(sup.n)
      BY <3>1, <1>0, RestType DEF Retain
    <3>2. CASE sup' = Done(sup) \/ sup' = Down
      BY <3>2, <1>0, RestType
    <3>3. CASE \/ sup' = [sup EXCEPT !.pc = "clear"]
               \/ sup' = [sup EXCEPT !.pc = "decide", !.n = None]
               \/ sup' = [sup EXCEPT !.pc = "mode", !.why = "none"]
      <4>1. {"clear", "decide", "mode"} \subseteq Place /\ "none" \in Why
        BY DEF Place, Why
      <4>2. QED
        BY <3>3, <1>0, <4>1, Zenon DEF SupType
    <3>4. QED
      BY <1>6, <3>1, <3>2, <3>3 DEF Record
  <2>3. record' \in RowType
    BY <1>6, <1>0, RowWritten DEF Record, Retain, Put, ComponentState
  <2>4. LifecycleTypeOK'
    BY <1>0, <2>1, <2>2, <2>3 DEF LifecycleTypeOK, SupType, RowType
  <2> QED
    BY <2>1, <2>2, <2>4, QuietStep DEF NoProcessYet, IntentOpen
<1>7. CASE ReadMode
  <2>1. UNCHANGED <<intents, procs>>
    BY <1>7 DEF ReadMode, NoStore
  <2>2. sup'.pc \in {"inspect"} /\ LifecycleTypeOK'
    BY ZenonT(60), <1>7, <1>0, RestType
    DEF ReadMode, NoStore, LifecycleTypeOK, SupType, Place, Ref, ComponentState, Why
  <2> QED
    BY <2>1, <2>2, QuietStep DEF NoProcessYet, IntentOpen
<1>8. CASE EndPass
  <2>1. UNCHANGED <<intents, procs>>
    BY <1>8 DEF EndPass, NoStore
  <2>2. sup'.pc \in {"mode"} /\ LifecycleTypeOK'
    BY <1>8, <1>0, RestType
    DEF EndPass, NoStore, Goto, DesiredMode, LifecycleTypeOK, SupType, Place, Ref, ComponentState, Why
  <2> QED
    BY <2>1, <2>2, QuietStep DEF NoProcessYet, IntentOpen
<1>9. CASE Act
  <2>1. UNCHANGED <<intents, procs>>
    BY <1>9 DEF Act
  <2>2. sup'.pc \in {"end", "identities", "stop", "prepare"} /\ LifecycleTypeOK'
    BY <1>9, <1>0, RestType
    DEF Act, Observed, Put, Goto, LifecycleTypeOK, SupType, Place, Ref, ComponentState, Why
  <2> QED
    BY <2>1, <2>2, QuietStep DEF NoProcessYet, IntentOpen
<1>10. CASE RecoverIntents
  <2>1. UNCHANGED <<intents, desiredMode>>
    BY <1>10 DEF RecoverIntents
  <2>2. CASE Unsettled = {} /\ sup' = Done(sup) /\ UNCHANGED <<procs, record>>
    <3>1. sup' \in SupType /\ sup'.pc \in {"end", "identities"}
      BY <2>2, <1>0, RestType
    <3>2. LifecycleTypeOK'
      BY <1>0, <2>1, <2>2, <3>1 DEF LifecycleTypeOK, SupType
    <3>3. QED
      BY <2>1, <2>2, <3>1, <3>2, QuietStep DEF NoProcessYet, IntentOpen
  <2>3. ASSUME NEW n \in Unsettled,
               RecoverPrepared(n) \/ RecoverFails(n) \/ Retire(n) \/ Reopen(n)
        PROVE  LInv'
    <3>1. n \in Launches /\ n \in Ref /\ intents[n] # "cleaned"
      BY DEF Unsettled, Ref
    <3>2. /\ {"stop", "adopt", "clean"} \subseteq Place
          /\ {"prepared", "recovered"} \subseteq Why
          /\ "Quarantined" \in ComponentState
      BY DEF Place, Why, ComponentState
    <3>3. record' \in RowType
      <4>1. \/ record' = record
            \/ \E pid \in {None, record.pid, n} : Put("Quarantined", n, pid)
        BY <2>3 DEF RecoverPrepared, RecoverFails, Retire, Reopen, Retain
      <4>2. QED
        BY <4>1, <1>0, <3>1, <3>2, RowWritten
    <3>4. CASE \/ Gone(n) /\ Settle(sup, "prepared", n)
               \/ Gone(n) /\ Settle(sup, "recovered", n)
      <4>1. sup' \in SupType /\ sup'.pc = "clean" /\ sup'.n = n
        BY <3>4, <1>0, <3>1, <3>2, SettleType
      <4>2. procs' = [procs EXCEPT ![n] = "gone"]
        BY <3>4 DEF Gone
      <4>3. LifecycleTypeOK'
        BY <1>0, <2>1, <3>1, <3>3, <4>1, <4>2 DEF LifecycleTypeOK, SupType, RowType
      <4>4. QED
        BY <2>1, <3>1, <4>1, <4>2, <4>3, SettleStep, Zenon
    <3>5. CASE sup' = [sup EXCEPT !.pc = "adopt", !.n = n] /\ UNCHANGED procs
      <4>1. sup' \in SupType /\ sup'.pc = "adopt" /\ sup'.n = n
        BY <3>5, <1>0, <3>1, <3>2, Zenon DEF SupType
      <4>2. LifecycleTypeOK'
        BY <1>0, <2>1, <3>3, <3>5, <4>1 DEF LifecycleTypeOK, SupType, RowType
      <4>3. QED
        BY <2>1, <3>1, <3>5, <4>1, <4>2
        DEF LInv, LiveIsTracked, OneUnsettled, InHand, Unsettled, Alive, NoProcessYet
    <3>6. CASE /\ \/ sup' = Done(sup) \/ sup' = Done([sup EXCEPT !.handle = n])
                  \/ sup' = [sup EXCEPT !.handle = n, !.pc = "stop"]
               /\ UNCHANGED procs
      <4>1. sup' \in SupType /\ sup'.pc \in {"end", "identities", "stop"}
        <5>1. CASE sup' = Done(sup) \/ sup' = Done([sup EXCEPT !.handle = n])
          BY <5>1, <1>0, <3>1, RestType
        <5>2. CASE sup' = [sup EXCEPT !.handle = n, !.pc = "stop"]
          BY <5>2, <1>0, <3>1, <3>2, Zenon DEF SupType
        <5>3. QED
          BY <3>6, <5>1, <5>2
      <4>2. LifecycleTypeOK'
        BY <1>0, <2>1, <3>3, <3>6, <4>1 DEF LifecycleTypeOK, SupType, RowType
      <4>3. QED
        BY <2>1, <3>6, <4>1, <4>2, QuietStep DEF NoProcessYet, IntentOpen
    <3>7. QED
      BY <2>3, <3>4, <3>5, <3>6
      DEF RecoverPrepared, RecoverFails, Retire, Reopen, Retain
  <2>4. QED
    BY <1>10, <2>2, <2>3 DEF RecoverIntents
<1>11. CASE Adopt
  BY <1>11, <1>0, RestType
  DEF Adopt, Retain, Put, Goto, LInv, LifecycleTypeOK, LiveIsTracked, OneUnsettled, InHand, Unsettled, Alive,
      NoProcessYet, IntentOpen, LaunchIntentState, ComponentState, SupType, Place, Ref, Why
<1>12. CASE Clean
  <2>1. /\ UNCHANGED <<procs, desiredMode>>
        /\ sup.n \in Launches /\ procs[sup.n] = "gone"
    BY <1>12 DEF Clean, LInv, InHand, NoProcessYet
  <2>2. /\ {"record", "clear"} \subseteq Place /\ "Quarantined" \in ComponentState
    BY DEF Place, ComponentState
  <2>3. /\ sup' \in SupType
        /\ sup'.pc \in {"end", "identities", "record", "clear", "down"}
    <3>1. CASE \/ sup' = [sup EXCEPT !.pc = "record", !.handle = None]
               \/ sup' = [sup EXCEPT !.pc = "clear"]
      BY <3>1, <1>0, <2>2, Zenon DEF SupType
    <3>2. CASE sup' = Done(sup) \/ sup' = Done([sup EXCEPT !.handle = sup.n]) \/ sup' = Down
      BY <3>2, <1>0, RestType
    <3>3. QED
      BY <1>12, <3>1, <3>2 DEF Clean, Die
  <2>4. record' \in RowType
    BY <1>12, <1>0, <2>2, RowWritten DEF Clean, Put
  <2>5. CASE intents' = [intents EXCEPT ![sup.n] = "cleaned"]
    <3>1. LifecycleTypeOK'
      BY <1>0, <2>1, <2>3, <2>4, <2>5
      DEF LifecycleTypeOK, SupType, RowType, LaunchIntentState
    <3>2. QED
      BY <2>1, <2>3, <2>5, <3>1
      DEF LInv, LifecycleTypeOK, LiveIsTracked, OneUnsettled, InHand, Unsettled, Alive,
          NoProcessYet, IntentOpen
  <2>6. CASE UNCHANGED intents
    <3>1. LifecycleTypeOK'
      BY <1>0, <2>1, <2>3, <2>4, <2>6 DEF LifecycleTypeOK, SupType, RowType
    <3>2. QED
      BY <2>1, <2>3, <2>6, <3>1, QuietStep DEF NoProcessYet, IntentOpen
  <2>7. QED
    BY <1>12, <2>5, <2>6 DEF Clean
<1>13. CASE Inspect
  <2>1. UNCHANGED <<intents, procs, desiredMode>>
    BY <1>13 DEF Inspect
  <2>2. "decide" \in Place /\ "exited" \in Why /\ "Quarantined" \in ComponentState
    BY DEF Place, Why, ComponentState
  <2>3. record' \in RowType
    BY <1>13, <1>0, <2>2, RowWritten DEF Inspect, Put
  <2>4. CASE Goto("decide") \/ sup' = Done(sup)
    <3>1. sup' \in SupType /\ sup'.pc \in {"decide", "end", "identities"}
      <4>1. CASE Goto("decide")
        BY <4>1, <1>0, <2>2 DEF Goto, SupType
      <4>2. CASE sup' = Done(sup)
        BY <4>2, <1>0, RestType
      <4>3. QED
        BY <2>4, <4>1, <4>2
    <3>2. LifecycleTypeOK'
      BY <1>0, <2>1, <2>3, <3>1 DEF LifecycleTypeOK, SupType, RowType
    <3>3. QED
      BY <2>1, <3>1, <3>2, QuietStep DEF NoProcessYet, IntentOpen
  <2>5. CASE /\ sup.handle # None /\ sup.handle \notin Alive
             /\ Settle([sup EXCEPT !.handle = None], "exited", sup.handle)
    <3>1. sup.handle \in Launches /\ procs[sup.handle] = "gone"
      BY <2>5, <1>0 DEF Alive, Ref, LifecycleTypeOK
    <3>2. [sup EXCEPT !.handle = None] \in SupType
      BY <1>0 DEF SupType
    <3>3. sup' \in SupType /\ sup'.pc = "clean" /\ sup'.n = sup.handle
      BY <2>5, <1>0, <2>2, <3>2, SettleType
    <3>4. LifecycleTypeOK'
      BY <1>0, <2>1, <2>3, <3>3 DEF LifecycleTypeOK, SupType, RowType
    <3>5. QED
      BY <2>1, <3>1, <3>3, <3>4, SettleStep
  <2>6. QED
    BY <1>13, <2>4, <2>5 DEF Inspect
<1>14. CASE Stop
  <2>1. UNCHANGED <<intents, desiredMode>>
    BY <1>14 DEF Stop
  <2>2. "stop" \in Why /\ {"Quarantined", "Stopped"} \subseteq ComponentState
    BY DEF Why, ComponentState
  <2>3. record' \in RowType
    <3>1. \/ record' = record \/ record' = [record EXCEPT !.state = "Quarantined"]
          \/ Put("Stopped", None, None) \/ Put("Quarantined", sup.handle, sup.handle)
      BY <1>14 DEF Stop
    <3>2. QED
      BY <3>1, <1>0, <2>2, RowWritten, RowChanged, Zenon
  <2>4. CASE sup' = Done(sup) /\ UNCHANGED procs
    <3>1. sup' \in SupType /\ sup'.pc \in {"end", "identities"}
      BY <2>4, <1>0, RestType
    <3>2. LifecycleTypeOK'
      BY <1>0, <2>1, <2>3, <2>4, <3>1 DEF LifecycleTypeOK, SupType, RowType
    <3>3. QED
      BY <2>1, <2>4, <3>1, <3>2, QuietStep DEF NoProcessYet, IntentOpen
  <2>5. CASE sup.handle # None /\ Gone(sup.handle) /\ Settle(sup, "stop", sup.handle)
    <3>1. sup.handle \in Launches /\ procs' = [procs EXCEPT ![sup.handle] = "gone"]
      BY <2>5, <1>0 DEF Ref, Gone
    <3>2. sup' \in SupType /\ sup'.pc = "clean" /\ sup'.n = sup.handle
      BY <2>5, <1>0, <2>2, SettleType
    <3>3. LifecycleTypeOK'
      BY <1>0, <2>1, <2>3, <3>1, <3>2 DEF LifecycleTypeOK, SupType, RowType
    <3>4. QED
      BY <2>1, <3>1, <3>2, <3>3, SettleStep, Zenon
  <2>6. QED
    BY <1>14, <2>4, <2>5 DEF Stop
<1>15. CASE Prepare
  <2>1. UNCHANGED <<record, procs, desiredMode>>
    BY <1>15, Zenon DEF Prepare
  <2>2. CASE (Die \/ sup' = Done(sup)) /\ UNCHANGED intents
    <3>1. sup' \in SupType /\ sup'.pc \in {"down", "end", "identities"}
      BY <2>2, <1>0, RestType DEF Die
    <3>2. LifecycleTypeOK'
      BY <1>0, <2>1, <2>2, <3>1 DEF LifecycleTypeOK, SupType
    <3>3. QED
      BY <2>1, <2>2, <3>1, <3>2, QuietStep DEF NoProcessYet, IntentOpen
  <2>3. ASSUME Unsettled = {}, NEW n \in Launches \ Alive,
               intents' = [intents EXCEPT ![n] = "prepared"],
               sup' = [sup EXCEPT !.pc = "admit", !.n = n]
        PROVE  LInv'
    <3>1. "admit" \in Place /\ n \in Ref /\ procs[n] = "gone"
      BY <1>0 DEF Place, Alive, LifecycleTypeOK, Ref
    <3>2. sup' \in SupType /\ sup'.pc = "admit" /\ sup'.n = n
      BY <2>3, <1>0, <3>1, Zenon DEF SupType
    <3>3. LifecycleTypeOK'
      BY <1>0, <2>1, <2>3, <3>2 DEF LifecycleTypeOK, SupType, LaunchIntentState
    <3>4. QED
      BY <2>1, <2>3, <3>1, <3>2, <3>3
      DEF LInv, LifecycleTypeOK, LiveIsTracked, OneUnsettled, InHand, Unsettled, Alive
  <2>4. QED
    BY <1>15, <2>2, <2>3, Zenon DEF Prepare
<1>16. CASE Admit
  <2>1. UNCHANGED <<procs, desiredMode>>
    BY <1>16 DEF Admit
  <2>2. CASE Put("Quarantined", sup.n, None) /\ Die /\ UNCHANGED intents
    <3>1. record' \in RowType
      BY <2>2, <1>0, RowWritten DEF ComponentState
    <3>2. sup' \in SupType /\ sup'.pc = "down"
      BY <2>2, <1>0, RestType DEF Die, Down
    <3>3. LifecycleTypeOK'
      BY <1>0, <2>1, <2>2, <3>1, <3>2 DEF LifecycleTypeOK, SupType, RowType
    <3>4. QED
      BY <2>1, <2>2, <3>2, <3>3, QuietStep DEF NoProcessYet, IntentOpen
  <2>3. CASE UNCHANGED record
    BY <1>16, <1>0, <2>3, RestType
    DEF Admit, Goto, Die, LInv, LifecycleTypeOK, LiveIsTracked, OneUnsettled, InHand, Unsettled,
        Alive, NoProcessYet, IntentOpen, LaunchIntentState, ComponentState, SupType, Place, Ref,
        Why
  <2>4. QED
    BY <1>16, <2>2, <2>3 DEF Admit
<1>17. CASE MarkStarting
  BY <1>17, <1>0, RestType
  DEF MarkStarting, Put, Goto, LInv, LifecycleTypeOK, LiveIsTracked, OneUnsettled, InHand, Unsettled, Alive,
      NoProcessYet, IntentOpen, LaunchIntentState, ComponentState, SupType, Place, Ref, Why
<1>18. CASE Launch
  <2>1. /\ UNCHANGED <<intents, desiredMode>>
        /\ sup.n \in Launches /\ procs[sup.n] = "gone" /\ intents[sup.n] # "cleaned"
    BY <1>18 DEF Launch, LInv, InHand, NoProcessYet, IntentOpen
  <2>2. "proof" \in Place /\ "failed" \in Why /\ "Quarantined" \in ComponentState
    BY DEF Place, Why, ComponentState
  <2>3. record' \in RowType
    <3>1. record' = record \/ Put("Quarantined", sup.n, None)
      BY <1>18 DEF Launch
    <3>2. QED
      BY <3>1, <1>0, <2>2, RowWritten
  <2>4. CASE Settle(sup, "failed", sup.n) /\ UNCHANGED procs
    <3>1. sup' \in SupType /\ sup'.pc = "clean" /\ sup'.n = sup.n
      BY <2>4, <1>0, <2>2, SettleType
    <3>2. LifecycleTypeOK'
      BY <1>0, <2>1, <2>3, <2>4, <3>1 DEF LifecycleTypeOK, SupType, RowType
    <3>3. QED
      BY <2>1, <2>4, <3>1, <3>2, SettleStep
  <2>5. ASSUME NEW p \in {"alive", "gone"}, procs' = [procs EXCEPT ![sup.n] = p],
               Goto("proof") \/ sup' = Done(sup)
        PROVE  LInv'
    <3>1. /\ sup' \in SupType /\ sup'.pc \in {"proof", "end", "identities"}
          /\ sup'.pc = "proof" => sup'.n = sup.n
      <4>1. CASE Goto("proof")
        BY <4>1, <1>0, <2>2 DEF Goto, SupType
      <4>2. CASE sup' = Done(sup)
        BY <4>2, <1>0, RestType
      <4>3. QED
        BY <2>5, <4>1, <4>2
    <3>2. LifecycleTypeOK'
      BY <1>0, <2>1, <2>3, <2>5, <3>1 DEF LifecycleTypeOK, SupType, RowType
    <3>3. QED
      BY <2>1, <2>5, <3>1, <3>2
      DEF LInv, LifecycleTypeOK, LiveIsTracked, OneUnsettled, InHand, Unsettled, Alive,
          NoProcessYet, IntentOpen
  <2>6. QED
    BY <1>18, <2>4, <2>5 DEF Launch
<1>19. CASE RecordProof
  BY <1>19, <1>0, RestType
  DEF RecordProof, Goto, LInv, LifecycleTypeOK, LiveIsTracked, OneUnsettled, InHand, Unsettled, Alive,
      NoProcessYet, IntentOpen, LaunchIntentState, ComponentState, SupType, Place, Ref, Why
<1>20. CASE MarkRunning
  BY <1>20, <1>0, RestType
  DEF MarkRunning, Put, Goto, LInv, LifecycleTypeOK, LiveIsTracked, OneUnsettled, InHand, Unsettled, Alive,
      NoProcessYet, IntentOpen, LaunchIntentState, ComponentState, SupType, Place, Ref, Why
<1>21. CASE PersistIdentity
  <2>1. UNCHANGED <<intents, procs, desiredMode>> /\ sup.pc = "identify"
    BY <1>21 DEF PersistIdentity
  <2>2. {"activate", "abort"} \subseteq Place /\ "Quarantined" \in ComponentState
    BY DEF Place, ComponentState
  <2>3. /\ sup' \in SupType /\ sup'.pc \in {"activate", "abort"}
        /\ sup'.n = sup.n
    BY <1>21, <1>0, <2>2 DEF PersistIdentity, Goto, SupType
  <2>4. record' \in RowType
    BY <1>21, <1>0, <2>2, RowChanged, Zenon DEF PersistIdentity, Identify
  <2>5. LifecycleTypeOK'
    BY <1>0, <2>1, <2>3, <2>4 DEF LifecycleTypeOK, SupType, RowType
  <2> QED
    BY <2>1, <2>3, <2>5, Zenon
    DEF LInv, LiveIsTracked, OneUnsettled, InHand, Unsettled, Alive, NoProcessYet, IntentOpen
<1>22. CASE Activate
  BY <1>22, <1>0, RestType
  DEF Activate, Goto, LInv, LifecycleTypeOK, LiveIsTracked, OneUnsettled, InHand, Unsettled, Alive,
      NoProcessYet, IntentOpen, LaunchIntentState, ComponentState, SupType, Place, Ref, Why
<1>23. CASE Insert
  BY <1>23, <1>0, RestType
  DEF Insert, Goto, NoStore, LInv, LifecycleTypeOK, LiveIsTracked, OneUnsettled, InHand, Unsettled, Alive,
      NoProcessYet, IntentOpen, LaunchIntentState, ComponentState, SupType, Place, Ref, Why
<1>24. CASE Abort
  <2>1. UNCHANGED <<intents, desiredMode>> /\ sup.n \in Launches
    BY <1>24 DEF Abort, LInv, InHand, IntentOpen
  <2>2. "abort" \in Why /\ "Quarantined" \in ComponentState
    BY DEF Why, ComponentState
  <2>3. record' \in RowType
    BY <1>24, <1>0, <2>2, RowWritten DEF Abort, Put
  <2>4. CASE Die /\ UNCHANGED procs
    <3>1. sup' \in SupType /\ sup'.pc = "down"
      BY <2>4, <1>0, RestType DEF Die
    <3>2. LifecycleTypeOK'
      BY <1>0, <2>1, <2>3, <2>4, <3>1 DEF LifecycleTypeOK, SupType, RowType
    <3>3. QED
      BY <2>1, <2>4, <3>1, <3>2, QuietStep DEF NoProcessYet, IntentOpen
  <2>5. CASE Gone(sup.n) /\ Settle(sup, "abort", sup.n)
    <3>1. procs' = [procs EXCEPT ![sup.n] = "gone"]
      BY <2>5 DEF Gone
    <3>2. sup' \in SupType /\ sup'.pc = "clean" /\ sup'.n = sup.n
      BY <2>5, <1>0, <2>2, SettleType
    <3>3. LifecycleTypeOK'
      BY <1>0, <2>1, <2>3, <3>1, <3>2 DEF LifecycleTypeOK, SupType, RowType
    <3>4. QED
      BY <2>1, <3>1, <3>2, <3>3, SettleStep, Zenon
  <2>6. QED
    BY <1>24, <2>4, <2>5 DEF Abort
<1>25. CASE UNCHANGED lifecycleVars
  BY <1>25 DEF lifecycleVars, LInv, LifecycleTypeOK, LiveIsTracked, OneUnsettled, InHand,
     Unsettled, Alive
<1>26. QED
  BY <1>1, <1>2, <1>3, <1>4, <1>5, <1>6, <1>7, <1>8, <1>9, <1>10, <1>11, <1>12, <1>13, <1>14, <1>15, <1>16, <1>17, <1>18, <1>19, <1>20, <1>21, <1>22, <1>23, <1>24, <1>25
  DEF LifecycleNext, SupervisorStep, StartStep

\* For every set of launches: the types are kept, a live process always has an
\* unsettled intent, and two processes of the component never live at once.
THEOREM ComponentHasOneProcess ==
    LifecycleSpec => [](LifecycleTypeOK /\ LiveIsTracked /\ OneProcess)
<1>1. LInv => LifecycleTypeOK /\ LiveIsTracked /\ OneProcess
  BY DEF LInv, LiveIsTracked, OneUnsettled, OneProcess
<1>2. QED
  BY <1>1, LifecycleInitInv, LifecycleNextInv, PTL DEF LifecycleSpec

-----------------------------------------------------------------------------
(* The row and the handle.  A row that shows a process as up names the one  *)
(* unsettled launch, and so does the handle; between recovery and the end   *)
(* of a pass they are the same, except while a launch is being started or   *)
(* settled, when the row is about to be written.                            *)

\* The row says that a process is up.
Shows == record.state \in {"Running", "Suspect", "Paused"} /\ record.pid # None
\* It is the one whose handle is held.
Backed == Shows => sup.handle = record.pid

Starting == {"prepare", "admit", "starting", "launch", "proof", "running", "identify",
              "activate", "insert", "abort"}
RowInv ==
    /\ Shows => Unsettled \subseteq {record.pid}
    /\ sup.handle # None => Unsettled \subseteq {sup.handle}
    /\ sup.pc \in Starting \cup {"down", "recover", "adopt", "adopt_identity"} => sup.handle = None
    /\ sup.pc \in {"down", "recover"} => ~sup.initialized
    /\ sup.pc \in {"mode", "inspect", "decide", "end"} => Backed
    /\ sup.pc \in {"prepare", "admit"} => ~Shows
    /\ sup.pc \in {"activate", "insert"} => record.pid = sup.n
    /\ sup.pc = "identities" => Backed \/ (sup.handle = None /\ Unsettled = {})
    /\ sup.pc \in {"clean", "clear", "record"} /\ sup.why = "recovered"
          => Unsettled \subseteq {sup.n}

\* A row that a step writes has the state and the process that it was given.
LEMMA RowMoves ==
    ASSUME LifecycleTypeOK
    PROVE  /\ \A s, n, p : Put(s, n, p) => record'.state = s /\ record'.pid = p
           /\ \A n : Identify(n) => record'.pid = n /\ record'.state = record.state
           /\ \A s : /\ [record EXCEPT !.state = s].state = s
                     /\ [record EXCEPT !.state = s].pid = record.pid
           /\ [record EXCEPT !.identity = None, !.nonce = None, !.pid = None].pid = None
<1>1. \A s, n, p : Put(s, n, p) => record'.state = s /\ record'.pid = p
  BY DEF LifecycleTypeOK, Put
<1>2. ASSUME NEW n PROVE Identify(n) => record'.pid = n /\ record'.state = record.state
  BY DEF LifecycleTypeOK, Identify
<1>3. ASSUME NEW s
      PROVE  [record EXCEPT !.state = s].state = s /\ [record EXCEPT !.state = s].pid = record.pid
  BY DEF LifecycleTypeOK
<1>4. [record EXCEPT !.identity = None, !.nonce = None, !.pid = None].pid = None
  BY DEF LifecycleTypeOK
<1> QED
  BY <1>1, <1>2, <1>3, <1>4

\* A step that moves on, settles a launch or ends keeps the handle.
LEMMA SupMoves ==
    ASSUME LifecycleTypeOK
    PROVE  /\ \A pc : Goto(pc) => /\ sup'.pc = pc /\ sup'.handle = sup.handle /\ sup'.n = sup.n
                                  /\ sup'.why = sup.why /\ sup'.initialized = sup.initialized
           /\ Done(sup).handle = sup.handle /\ Done(sup).why = "none"
           /\ Done(sup).pc = IF sup.initialized THEN "end" ELSE "identities"
           /\ \A h : /\ Done([sup EXCEPT !.handle = h]).handle = h
                     /\ Done([sup EXCEPT !.handle = h]).why = "none"
                     /\ Done([sup EXCEPT !.handle = h]).pc \in {"end", "identities"}
           /\ \A why, n : Settle(sup, why, n) =>
                 /\ sup'.pc = "clean" /\ sup'.handle = sup.handle /\ sup'.n = n
                 /\ sup'.why = why
           /\ Down.pc = "down" /\ Down.handle = None /\ ~Down.initialized
<1>1. ASSUME NEW pc, Goto(pc)
      PROVE  /\ sup'.pc = pc /\ sup'.handle = sup.handle /\ sup'.n = sup.n
             /\ sup'.why = sup.why /\ sup'.initialized = sup.initialized
  BY <1>1 DEF LifecycleTypeOK, Goto
<1>2. /\ Done(sup).handle = sup.handle /\ Done(sup).why = "none"
      /\ Done(sup).pc = IF sup.initialized THEN "end" ELSE "identities"
  BY DEF LifecycleTypeOK, Done
<1>3. ASSUME NEW h
      PROVE  /\ Done([sup EXCEPT !.handle = h]).handle = h
             /\ Done([sup EXCEPT !.handle = h]).why = "none"
             /\ Done([sup EXCEPT !.handle = h]).pc \in {"end", "identities"}
  BY DEF LifecycleTypeOK, Done
<1>4. ASSUME NEW why, NEW n, Settle(sup, why, n)
      PROVE  sup'.pc = "clean" /\ sup'.handle = sup.handle /\ sup'.n = n /\ sup'.why = why
  BY <1>4 DEF LifecycleTypeOK, Settle
<1>5. Down.pc = "down" /\ Down.handle = None /\ ~Down.initialized
  BY DEF Down
<1> QED
  BY <1>1, <1>2, <1>3, <1>4, <1>5

\* A step after which the row names no process that is up.
LEMMA RowQuiet ==
    ASSUME RowInv, ~Shows', Unsettled' \subseteq Unsettled,
           sup'.handle = None \/ sup'.handle = sup.handle \/ Unsettled' \subseteq {sup'.handle},
           sup'.pc \notin Starting \cup {"recover", "adopt", "adopt_identity"},
           sup'.pc = "down" => sup'.handle = None /\ ~sup'.initialized,
           sup'.pc \in {"clean", "clear", "record"} /\ sup'.why = "recovered"
              => Unsettled' \subseteq {sup'.n}
    PROVE  RowInv'
  BY DEF RowInv, Backed, Starting

\* Recovery of the intents: only a launch that was unsettled gets a handle.
LEMMA RowRecoverIntents == ASSUME LInv, RowInv, RecoverIntents PROVE RowInv'
<1>1. /\ LifecycleTypeOK /\ sup.handle \in Ref /\ sup.n \in Ref /\ record.pid \in Ref
      /\ record.identity \in Ref /\ None \in Ref /\ Launches \subseteq Ref
  BY DEF LInv, LifecycleTypeOK, Ref
<1>2. sup.handle = None /\ ~sup.initialized /\ Unsettled' = Unsettled
  BY DEF RecoverIntents, RowInv, Unsettled
<1>3. CASE Unsettled = {} /\ sup' = Done(sup) /\ UNCHANGED <<procs, record>>
  BY <1>1, <1>2, <1>3, SupMoves DEF RowInv, Shows, Backed, Starting
<1>4. ASSUME NEW n \in Unsettled,
             RecoverPrepared(n) \/ RecoverFails(n) \/ Retire(n) \/ Reopen(n)
      PROVE  RowInv'
  <2>1. n \in Launches /\ Unsettled \subseteq {n}
    BY DEF LInv, OneUnsettled, Unsettled
  <2>2. CASE RecoverPrepared(n)
    BY <1>1, <1>2, <2>1, <2>2, RowMoves, SupMoves
    DEF RecoverPrepared, RowInv, Shows, Backed, Starting
  <2>3. CASE RecoverFails(n)
    BY <1>1, <1>2, <2>1, <2>3, RowMoves, SupMoves
    DEF RecoverFails, RowInv, Shows, Backed, Starting
  <2>4. CASE Retire(n)
    <3>1. sup'.pc = "stop" /\ sup'.handle = n
      BY <1>1, <2>4 DEF Retire, LifecycleTypeOK
    <3> QED
      BY <1>1, <1>2, <2>1, <2>4, <3>1, RowMoves, RowQuiet DEF Retire, Shows, Starting
  <2>5. CASE Reopen(n)
    <3>1. CASE Retain(n)
      BY <1>1, <1>2, <2>1, <3>1, RowMoves, SupMoves, RowQuiet DEF Retain, Shows, Starting
    <3>2. CASE sup' = [sup EXCEPT !.pc = "adopt", !.n = n] /\ UNCHANGED record
      <4>1. sup'.pc = "adopt" /\ sup'.handle = None
        BY <1>1, <1>2, <3>2 DEF LifecycleTypeOK
      <4> QED
        BY <1>2, <3>2, <4>1 DEF RowInv, Shows
    <3>3. CASE Gone(n) /\ Settle(sup, "recovered", n) /\ UNCHANGED record
      BY <1>1, <1>2, <2>1, <3>3, SupMoves DEF RowInv, Shows, Backed, Starting
    <3>4. CASE sup' = Done([sup EXCEPT !.handle = n]) /\ UNCHANGED record
      BY <1>1, <1>2, <2>1, <3>4, SupMoves DEF RowInv, Shows, Backed, Starting
    <3> QED
      BY <2>5, <3>1, <3>2, <3>3, <3>4 DEF Reopen
  <2> QED
    BY <1>4, <2>2, <2>3, <2>4, <2>5
<1> QED
  BY <1>3, <1>4 DEF RecoverIntents

\* A row without a handle is cleared or quarantined before the first pass.
LEMMA RowReconcileIdentities == ASSUME LInv, RowInv, ReconcileIdentities PROVE RowInv'
<1>1. /\ LifecycleTypeOK /\ sup.handle \in Ref /\ sup.n \in Ref /\ record.pid \in Ref
      /\ record.identity \in Ref /\ None \in Ref /\ Launches \subseteq Ref
  BY DEF LInv, LifecycleTypeOK, Ref
<1>2. Unsettled' = Unsettled /\ sup.pc = "identities"
  BY DEF ReconcileIdentities, Unsettled
<1>3. CASE Goto("mode") /\ UNCHANGED record
           /\ (sup.handle # None \/ Unsettled # {} \/ record.pid = None)
  BY <1>1, <1>2, <1>3, SupMoves DEF RowInv, Shows, Backed, Starting
<1>4. CASE sup' = [sup EXCEPT !.pc = "clear", !.why = "stale"] /\ UNCHANGED record
  <2>1. sup'.pc = "clear" /\ sup'.why = "stale" /\ sup'.handle = sup.handle
    BY <1>1, <1>4 DEF LifecycleTypeOK
  <2> QED
    BY <1>2, <1>4, <2>1 DEF RowInv, Shows, Starting
<1>5. CASE Goto("mode") /\ \E n, pid : Put("Quarantined", n, pid)
  BY <1>1, <1>2, <1>5, RowMoves, SupMoves, RowQuiet DEF Shows, Starting
<1> QED
  BY <1>3, <1>4, <1>5 DEF ReconcileIdentities

\* An intent is cleaned, or its row is quarantined.
LEMMA RowClean == ASSUME LInv, RowInv, Clean PROVE RowInv'
<1>1. /\ LifecycleTypeOK /\ sup.handle \in Ref /\ sup.n \in Ref /\ record.pid \in Ref
      /\ record.identity \in Ref /\ None \in Ref /\ Launches \subseteq Ref
  BY DEF LInv, LifecycleTypeOK, Ref
<1>2. sup.n \in Launches /\ Unsettled' \subseteq Unsettled
  BY DEF Clean, LInv, LifecycleTypeOK, InHand, NoProcessYet, Unsettled
<1>3. sup.why = "recovered" => Unsettled \subseteq {sup.n}
  BY DEF Clean, RowInv
<1>4. CASE UNCHANGED record /\ sup' = [sup EXCEPT !.pc = "record", !.handle = None]
  <2>1. sup'.pc = "record" /\ sup'.why = sup.why /\ sup'.handle = None /\ sup'.n = sup.n
    BY <1>1, <1>4 DEF LifecycleTypeOK
  <2> QED
    BY <1>2, <1>3, <1>4, <2>1 DEF RowInv, Shows, Starting
<1>5. CASE UNCHANGED record /\ sup' = [sup EXCEPT !.pc = "clear"]
  <2>1. sup'.pc = "clear" /\ sup'.why = sup.why /\ sup'.handle = sup.handle /\ sup'.n = sup.n
    BY <1>1, <1>5 DEF LifecycleTypeOK
  <2> QED
    BY <1>2, <1>3, <1>5, <2>1 DEF RowInv, Shows, Starting
<1>6. CASE (\E pid : Put("Quarantined", sup.n, pid)) /\ (sup' = Done(sup) \/ sup' = Down)
  BY <1>1, <1>2, <1>6, RowMoves, SupMoves, RowQuiet DEF Shows, Starting
<1>7. CASE /\ sup.why = "recovered" /\ Put("Quarantined", sup.n, sup.n)
           /\ sup' = Done([sup EXCEPT !.handle = sup.n])
  BY <1>1, <1>2, <1>3, <1>7, RowMoves, SupMoves, RowQuiet DEF Shows, Starting
<1> QED
  BY <1>4, <1>5, <1>6, <1>7 DEF Clean, Die

\* The identity is cleared, or the row is quarantined.
LEMMA RowClear == ASSUME LInv, RowInv, Clear PROVE RowInv'
<1>1. /\ LifecycleTypeOK /\ sup.handle \in Ref /\ sup.n \in Ref /\ record.pid \in Ref
      /\ record.identity \in Ref /\ None \in Ref /\ Launches \subseteq Ref
  BY DEF LInv, LifecycleTypeOK, Ref
<1>2. Unsettled' = Unsettled /\ (sup.why = "recovered" => Unsettled \subseteq {sup.n})
  BY DEF Clear, RowInv, Unsettled
<1>3. CASE /\ record' = [record EXCEPT !.identity = None, !.nonce = None, !.pid = None]
           /\ sup' = Done(sup) \/ sup' = [sup EXCEPT !.pc = "record"]
  <2>1. ~Shows'
    BY <1>1, <1>3, RowMoves DEF Shows
  <2>2. CASE sup' = Done(sup)
    BY <1>1, <1>2, <2>1, <2>2, SupMoves, RowQuiet DEF Starting
  <2>3. CASE sup' = [sup EXCEPT !.pc = "record"]
    <3>1. sup'.pc = "record" /\ sup'.why = sup.why /\ sup'.handle = sup.handle /\ sup'.n = sup.n
      BY <1>1, <2>3 DEF LifecycleTypeOK
    <3> QED
      BY <1>2, <2>1, <3>1, RowQuiet DEF Starting
  <2> QED
    BY <1>3, <2>2, <2>3
<1>4. CASE sup.why = "recovered" /\ Retain(sup.n)
  BY <1>1, <1>2, <1>4, RowMoves, SupMoves, RowQuiet DEF Retain, Shows, Starting
<1>5. CASE Put("Quarantined", sup.n, sup.n) /\ Die
  BY <1>1, <1>2, <1>5, RowMoves, SupMoves, RowQuiet DEF Die, Shows, Starting
<1> QED
  BY <1>3, <1>4, <1>5 DEF Clear

\* The stopped row is written, or the launch is retained.
LEMMA RowRecord == ASSUME LInv, RowInv, Record PROVE RowInv'
<1>1. /\ LifecycleTypeOK /\ sup.handle \in Ref /\ sup.n \in Ref /\ record.pid \in Ref
      /\ record.identity \in Ref /\ None \in Ref /\ Launches \subseteq Ref
  BY DEF LInv, LifecycleTypeOK, Ref
<1>2. Unsettled' = Unsettled /\ (sup.why = "recovered" => Unsettled \subseteq {sup.n})
  BY DEF Record, RowInv, Unsettled
<1>3. CASE Put("Stopped", None, None) /\ (sup' = Done(sup) \/ sup' = Down)
  BY <1>1, <1>2, <1>3, RowMoves, SupMoves, RowQuiet DEF Shows, Starting
<1>4. CASE /\ Put("Stopped", None, None)
           /\ \/ sup.why = "stop" /\ sup' = [sup EXCEPT !.pc = "clear"]
              \/ sup' = [sup EXCEPT !.pc = "decide", !.n = None]
              \/ sup' = [sup EXCEPT !.pc = "mode", !.why = "none"]
  <2>1. /\ sup'.pc \in {"clear", "decide", "mode"} /\ sup'.handle = sup.handle
        /\ sup'.pc = "clear" => sup'.why = "stop"
    BY <1>1, <1>4, Zenon DEF LifecycleTypeOK
  <2> QED
    BY <1>1, <1>2, <1>4, <2>1, RowMoves, RowQuiet DEF Shows, Starting
<1>5. CASE sup.why = "recovered" /\ Retain(sup.n)
  BY <1>1, <1>2, <1>5, RowMoves, SupMoves, RowQuiet DEF Retain, Shows, Starting
<1> QED
  BY <1>3, <1>4, <1>5 DEF Record

\* What the handle says.
LEMMA RowInspect == ASSUME LInv, RowInv, Inspect PROVE RowInv'
<1>1. /\ LifecycleTypeOK /\ sup.handle \in Ref /\ sup.n \in Ref /\ record.pid \in Ref
      /\ record.identity \in Ref /\ None \in Ref /\ Launches \subseteq Ref
  BY DEF LInv, LifecycleTypeOK, Ref
<1>2. Unsettled' = Unsettled /\ sup.pc = "inspect"
  BY DEF Inspect, Unsettled
<1>3. CASE Goto("decide") /\ UNCHANGED record
  BY <1>1, <1>2, <1>3, SupMoves DEF RowInv, Shows, Backed, Starting
<1>4. CASE Put("Quarantined", sup.handle, sup.handle) /\ sup' = Done(sup)
  BY <1>1, <1>2, <1>4, RowMoves, SupMoves, RowQuiet DEF Shows, Starting
<1>5. CASE Settle([sup EXCEPT !.handle = None], "exited", sup.handle) /\ UNCHANGED record
  <2>1. sup'.pc = "clean" /\ sup'.handle = None /\ sup'.why = "exited"
    BY <1>1, <1>5 DEF LifecycleTypeOK, Settle
  <2> QED
    BY <1>2, <1>5, <2>1 DEF RowInv, Shows, Starting
<1> QED
  BY <1>3, <1>4, <1>5 DEF Inspect

\* The decision: only a handle makes a row that is up, and only without one is a launch prepared.
LEMMA RowAct == ASSUME LInv, RowInv, Act PROVE RowInv'
<1>1. /\ LifecycleTypeOK /\ sup.handle \in Ref /\ sup.n \in Ref /\ record.pid \in Ref
      /\ record.identity \in Ref /\ None \in Ref /\ Launches \subseteq Ref
  BY DEF LInv, LifecycleTypeOK, Ref
<1>2. Unsettled' = Unsettled /\ sup.pc = "decide" /\ Backed
  BY DEF Act, Unsettled, RowInv
<1>3. ASSUME NEW s \in {"Blocked", "Quarantined"}, record' = [record EXCEPT !.state = s],
             sup' = Done(sup)
      PROVE  RowInv'
  BY <1>1, <1>2, <1>3, RowMoves, SupMoves, RowQuiet DEF Shows, Starting
<1>4. CASE (Goto("stop") \/ sup' = Done(sup)) /\ UNCHANGED record
  BY <1>1, <1>2, <1>4, SupMoves DEF RowInv, Shows, Backed, Starting
<1>5. CASE Goto("prepare") /\ sup.handle = None /\ UNCHANGED record
  BY <1>1, <1>2, <1>5, SupMoves DEF RowInv, Shows, Backed, Starting
<1>6. ASSUME NEW action, Observed(action), sup' = Done(sup) PROVE RowInv'
  <2>1. CASE sup.handle # None
    <3>1. record'.pid = sup.handle
      BY <1>1, <1>6, <2>1, RowMoves DEF Observed
    <3> QED
      BY <1>1, <1>2, <1>6, <2>1, <3>1, SupMoves DEF RowInv, Shows, Backed, Starting
  <2>2. CASE sup.handle = None
    <3>1. Put("Stopped", None, None) \/ UNCHANGED record
      BY <1>6, <2>2 DEF Observed
    <3> QED
      BY <1>1, <1>2, <1>4, <1>6, <3>1, RowMoves, SupMoves, RowQuiet DEF Shows, Starting
  <2> QED
    BY <2>1, <2>2
<1>7. ASSUME sup.handle # None PROVE "Start" \notin Decide(sup.mode, Observation)
  <2>1. Observation = "Running"
    BY <1>7 DEF Observation
  <2>2. "Start" \notin Decide(sup.mode, "Running")
    <3>1. CASE sup.mode \in {"Stopped", "Draining"}
      BY <3>1 DEF Decide
    <3>2. CASE sup.mode = "Paused"
      BY <3>2 DEF Decide
    <3>3. CASE sup.mode = "Running"
      BY <3>3 DEF Decide
    <3> QED
      BY <1>1, <3>1, <3>2, <3>3 DEF LifecycleTypeOK, DesiredMode
  <2> QED
    BY <2>1, <2>2
<1> QED
  BY <1>3, <1>4, <1>5, <1>6, <1>7 DEF Act

\* A new intent is made while the row shows nothing.
LEMMA RowPrepare == ASSUME LInv, RowInv, Prepare PROVE RowInv'
<1>1. /\ LifecycleTypeOK /\ sup.handle \in Ref /\ sup.n \in Ref /\ record.pid \in Ref
      /\ record.identity \in Ref /\ None \in Ref /\ Launches \subseteq Ref
  BY DEF LInv, LifecycleTypeOK, Ref
<1>2. sup.handle = None /\ ~Shows /\ UNCHANGED record
  BY Zenon DEF Prepare, RowInv, Starting
<1>3. CASE (Die \/ sup' = Done(sup)) /\ UNCHANGED intents
  BY <1>1, <1>2, <1>3, SupMoves, RowQuiet DEF Die, Shows, Starting, Unsettled
<1>4. ASSUME NEW n, sup' = [sup EXCEPT !.pc = "admit", !.n = n] PROVE RowInv'
  <2>1. sup'.pc = "admit" /\ sup'.handle = None
    BY <1>1, <1>2, <1>4 DEF LifecycleTypeOK
  <2> QED
    BY <1>2, <2>1 DEF RowInv, Shows, Starting
<1> QED
  BY <1>3, <1>4, Zenon DEF Prepare

\* Every step keeps what is said of the row and of the handle.
LEMMA RowNextInv == ASSUME LInv, RowInv, [LifecycleNext]_lifecycleVars PROVE RowInv'
<1>1. /\ LifecycleTypeOK /\ sup.handle \in Ref /\ sup.n \in Ref /\ record.pid \in Ref
      /\ record.identity \in Ref /\ None \in Ref /\ Launches \subseteq Ref
  BY Zenon DEF LInv, LifecycleTypeOK, Ref
<1>2. CASE UNCHANGED lifecycleVars
  BY <1>2 DEF lifecycleVars, RowInv, Shows, Backed, Unsettled
<1>3. CASE Open
  BY <1>1, <1>3, RowMoves, SupMoves, LifecycleAssumption
  DEF Open, RowInv, Shows, Backed, Starting, LInv, InHand, IntentOpen, OneUnsettled, Unsettled,
      LifecycleTypeOK, NoStore
<1>4. CASE Crash
  BY <1>1, <1>4, RowMoves, SupMoves, LifecycleAssumption, Zenon
  DEF Crash, RowInv, Shows, Backed, Starting, LInv, InHand, IntentOpen, OneUnsettled, Unsettled,
      LifecycleTypeOK, Die, NoStore
<1>5. CASE ProcessExits
  BY <1>1, <1>5, RowMoves, SupMoves, LifecycleAssumption
  DEF ProcessExits, RowInv, Shows, Backed, Starting, LInv, InHand, IntentOpen, OneUnsettled, Unsettled,
      LifecycleTypeOK, NoStore
<1>6. CASE SetMode
  BY <1>1, <1>6, RowMoves, SupMoves, LifecycleAssumption
  DEF SetMode, RowInv, Shows, Backed, Starting, LInv, InHand, IntentOpen, OneUnsettled, Unsettled,
      LifecycleTypeOK, NoStore
<1>7. CASE Adopt
  BY <1>1, <1>7, RowMoves, SupMoves, LifecycleAssumption
  DEF Adopt, RowInv, Shows, Backed, Starting, LInv, InHand, IntentOpen, OneUnsettled, Unsettled,
      LifecycleTypeOK, Retain
<1>8. CASE AdoptIdentity
  BY <1>1, <1>8, RowMoves, SupMoves, LifecycleAssumption
  DEF AdoptIdentity, RowInv, Shows, Backed, Starting, LInv, InHand, IntentOpen, OneUnsettled, Unsettled,
      LifecycleTypeOK, Retain
<1>9. CASE ReadMode
  BY <1>1, <1>9, RowMoves, SupMoves, LifecycleAssumption
  DEF ReadMode, RowInv, Shows, Backed, Starting, LInv, InHand, IntentOpen, OneUnsettled, Unsettled,
      LifecycleTypeOK, NoStore
<1>10. CASE Stop
  BY <1>1, <1>10, RowMoves, SupMoves, LifecycleAssumption
  DEF Stop, RowInv, Shows, Backed, Starting, LInv, InHand, IntentOpen, OneUnsettled, Unsettled,
      LifecycleTypeOK
<1>11. CASE EndPass
  BY <1>1, <1>11, RowMoves, SupMoves, LifecycleAssumption
  DEF EndPass, RowInv, Shows, Backed, Starting, LInv, InHand, IntentOpen, OneUnsettled, Unsettled,
      LifecycleTypeOK, NoStore
<1>12. CASE Admit
  BY <1>1, <1>12, RowMoves, SupMoves, LifecycleAssumption
  DEF Admit, RowInv, Shows, Backed, Starting, LInv, InHand, IntentOpen, OneUnsettled, Unsettled,
      LifecycleTypeOK, Die
<1>13. CASE MarkStarting
  BY <1>1, <1>13, RowMoves, SupMoves, LifecycleAssumption
  DEF MarkStarting, RowInv, Shows, Backed, Starting, LInv, InHand, IntentOpen, OneUnsettled, Unsettled,
      LifecycleTypeOK
<1>14. CASE Launch
  BY <1>1, <1>14, RowMoves, SupMoves, LifecycleAssumption
  DEF Launch, RowInv, Shows, Backed, Starting, LInv, InHand, IntentOpen, OneUnsettled, Unsettled,
      LifecycleTypeOK
<1>15. CASE RecordProof
  BY <1>1, <1>15, RowMoves, SupMoves, LifecycleAssumption
  DEF RecordProof, RowInv, Shows, Backed, Starting, LInv, InHand, IntentOpen, OneUnsettled, Unsettled,
      LifecycleTypeOK
<1>16. CASE MarkRunning
  BY <1>1, <1>16, RowMoves, SupMoves, LifecycleAssumption
  DEF MarkRunning, RowInv, Shows, Backed, Starting, LInv, InHand, IntentOpen, OneUnsettled, Unsettled,
      LifecycleTypeOK
<1>17. CASE PersistIdentity
  BY <1>1, <1>17, RowMoves, SupMoves, LifecycleAssumption
  DEF PersistIdentity, RowInv, Shows, Backed, Starting, LInv, InHand, IntentOpen, OneUnsettled, Unsettled,
      LifecycleTypeOK
<1>18. CASE Activate
  BY <1>1, <1>18, RowMoves, SupMoves, LifecycleAssumption
  DEF Activate, RowInv, Shows, Backed, Starting, LInv, InHand, IntentOpen, OneUnsettled, Unsettled,
      LifecycleTypeOK
<1>19. CASE Insert
  BY <1>1, <1>19, RowMoves, SupMoves, LifecycleAssumption
  DEF Insert, RowInv, Shows, Backed, Starting, LInv, InHand, IntentOpen, OneUnsettled, Unsettled,
      LifecycleTypeOK, NoStore
<1>20. CASE Abort
  BY <1>1, <1>20, RowMoves, SupMoves, LifecycleAssumption
  DEF Abort, RowInv, Shows, Backed, Starting, LInv, InHand, IntentOpen, OneUnsettled, Unsettled,
      LifecycleTypeOK, Die
<1> QED
  BY <1>2, <1>3, <1>4, <1>5, <1>6, <1>7, <1>8, <1>9, <1>10, <1>11, <1>12, <1>13, <1>14, <1>15, <1>16, <1>17, <1>18, <1>19, <1>20,
     RowRecoverIntents, RowReconcileIdentities, RowClean, RowClear,
     RowRecord, RowInspect, RowAct, RowPrepare
  DEF LifecycleNext, SupervisorStep, StartStep

\* For every set of launches: a row that is shown as up at the end of a pass
\* names the process whose handle the supervisor holds.
THEOREM RowsAreBacked == LifecycleSpec => []RowIsBacked
<1>1. LifecycleInit => RowInv
  BY DEF LifecycleInit, RowInv, Shows, Backed, Starting, Down
<1>2. RowInv => RowIsBacked
  BY DEF RowInv, RowIsBacked, Backed, Shows
<1> QED
  BY <1>1, <1>2, LifecycleInitInv, LifecycleNextInv, RowNextInv, PTL DEF LifecycleSpec

-----------------------------------------------------------------------------
(* The removal of the Windows service.  The store's singleton lock is what    *)
(* orders the remover and the service process: who is past the point where it *)
(* opened the store holds the lock, and the mode the remover wrote stays      *)
(* until it lets go.                                                          *)

ServicePlace == {"off", "register", "readiness", "running", "loop", "stopped", "failed", "exit"}
RemoverPlace == {"idle", "open", "wait", "recheck", "mint", "verify", "query", "delete"}

ServiceInv ==
    /\ owner \in [mode : {"Running", "Stopped"}, lock : {"free", "service", "remover"},
                  admin : BOOLEAN]
    /\ service \in [pc : ServicePlace, stop : BOOLEAN, committed : BOOLEAN,
                    children : {"none", "live", "stuck"}]
    /\ DOMAIN remover = {"pc", "handle"} /\ remover.pc \in RemoverPlace
    /\ service.pc \in {"running", "loop"} => owner.lock = "service"
    /\ remover.pc \in {"verify", "query", "delete"} =>
          owner.lock = "remover" /\ owner.mode = "Stopped"

\* ServiceInv holds of the installed service before its first start.
LEMMA ServiceInitInv == ServiceInit => ServiceInv
BY DEF ServiceInit, ServiceInv, Off, NoService, ServicePlace, RemoverPlace

\* Every step of the service, its handler, the SCM, installers, the remover and
\* the health checker preserves ServiceInv.
LEMMA ServiceNextInv == ServiceInv /\ [ServiceNext]_serviceVars => ServiceInv'
<1> SUFFICES ASSUME ServiceInv, [ServiceNext]_serviceVars
             PROVE  ServiceInv'
  BY Zenon
<1> USE DEF NoService
<1>1. CASE UNCHANGED serviceVars
  BY <1>1 DEF serviceVars, ServiceInv
<1>2. CASE RegisterHandler
  BY <1>2 DEF RegisterHandler, Main, ServiceInv, ServicePlace, RemoverPlace
<1>3. CASE Readiness
  <2>1. UNCHANGED remover
    BY <1>3, Zenon DEF Readiness
  <2>2. CASE /\ owner.lock = "free"
             /\ owner' = [owner EXCEPT !.lock = "service"]
             /\ \E c \in Passed : service' = [service EXCEPT !.pc = "running", !.children = c]
    <3>1. PICK c \in Passed : service' = [service EXCEPT !.pc = "running", !.children = c]
      BY <2>2, Zenon
    <3>2. c \in {"none", "live", "stuck"}
      BY Zenon DEF Passed
    <3>3. /\ service' \in [pc : ServicePlace, stop : BOOLEAN, committed : BOOLEAN,
                          children : {"none", "live", "stuck"}]
          /\ service'.pc = "running"
      BY <3>1, <3>2, Zenon DEF ServiceInv, ServicePlace
    <3>4. /\ owner' \in [mode : {"Running", "Stopped"}, lock : {"free", "service", "remover"},
                        admin : BOOLEAN]
          /\ owner'.lock = "service"
      BY <2>2 DEF ServiceInv
    <3>5. remover.pc \notin {"verify", "query", "delete"}
      BY <2>2 DEF ServiceInv
    <3> QED
      BY <2>1, <3>3, <3>4, <3>5, Zenon DEF ServiceInv
  <2>3. CASE service' = Off /\ UNCHANGED owner
    BY <2>1, <2>3 DEF Off, ServiceInv, ServicePlace
  <2> QED
    BY <1>3, <2>2, <2>3, Zenon DEF Readiness
<1>4. CASE PublishRunning
  BY <1>4 DEF PublishRunning, Main, Publish, ServiceInv, ServicePlace, RemoverPlace
<1>5. CASE CommitStop
  BY <1>5, Zenon DEF CommitStop, ServiceInv, ServicePlace, RemoverPlace
<1>6. CASE DrainAdmin
  BY <1>6 DEF DrainAdmin, ServiceInv, ServicePlace, RemoverPlace
<1>7. CASE Pass
  BY <1>7 DEF Pass, Passed, ServiceInv, ServicePlace, RemoverPlace
<1>8. CASE LoopEnds
  BY <1>8 DEF LoopEnds, ServiceInv, ServicePlace, RemoverPlace
<1>9. CASE LoopFails
  <2>1. UNCHANGED remover /\ service.pc = "loop"
    BY <1>9 DEF LoopFails
  <2>2. CASE service' = [service EXCEPT !.committed = FALSE] /\ UNCHANGED owner
    BY <2>1, <2>2, Zenon DEF ServiceInv, ServicePlace
  <2>3. CASE /\ service' = [service EXCEPT !.pc = "failed", !.children = "none"]
             /\ owner' = [owner EXCEPT !.lock = "free"]
    BY <2>1, <2>3, Zenon DEF ServiceInv, ServicePlace, RemoverPlace
  <2> QED
    BY <1>9, <2>2, <2>3 DEF LoopFails
<1>10. CASE PublishStopped
  BY <1>10 DEF PublishStopped, Main, Publish, ServiceInv, ServicePlace, RemoverPlace
<1>11. CASE ServiceExits
  BY <1>11 DEF ServiceExits, Off, Publish, ServiceInv, ServicePlace, RemoverPlace
<1>12. CASE HandlerSetsFlag
  BY <1>12, Zenon DEF HandlerSetsFlag, ServiceInv, ServicePlace, RemoverPlace
<1>13. CASE HandlerPublishes
  BY <1>13 DEF HandlerPublishes, Publish, ServiceInv, ServicePlace, RemoverPlace
<1>14. CASE ScmStarts
  BY <1>14, Zenon DEF ScmStarts, StartService, Off, ServiceInv, ServicePlace, RemoverPlace
<1>15. CASE ScmStops
  BY <1>15 DEF ScmStops, StopControl, ServiceInv, ServicePlace, RemoverPlace
<1>16. CASE ServiceDies
  BY <1>16 DEF ServiceDies, Off, Publish, ServiceInv, ServicePlace, RemoverPlace
<1>17. CASE Install
  BY <1>17 DEF Install, Commands, ServiceInv, ServicePlace, RemoverPlace
<1>18. CASE ForeignDelete
  BY <1>18 DEF ForeignDelete, ServiceInv, ServicePlace, RemoverPlace
<1>19. CASE Bind
  BY <1>19 DEF Bind, Remover, ServiceInv, ServicePlace, RemoverPlace
<1>20. CASE StopBound
  BY <1>20 DEF StopBound, RemoverFails, StopControl, ServiceInv, ServicePlace, RemoverPlace
<1>21. CASE AwaitStopped
  BY <1>21 DEF AwaitStopped, Remover, RemoverFails, ServiceInv, ServicePlace, RemoverPlace
<1>22. CASE StopWitness
  BY <1>22 DEF StopWitness, Remover, RemoverFails, ServiceInv, ServicePlace, RemoverPlace
<1>23. CASE MintOwner
  <2>1. UNCHANGED service
    BY <1>23 DEF MintOwner
  <2>2. CASE /\ owner.lock = "free"
             /\ owner' = [owner EXCEPT !.mode = "Stopped", !.lock = "remover"]
             /\ Remover("verify")
    BY <2>1, <2>2, Zenon DEF Remover, ServiceInv, ServicePlace, RemoverPlace
  <2>3. CASE RemoverFails
    BY <2>1, <2>3 DEF RemoverFails, ServiceInv, ServicePlace, RemoverPlace
  <2> QED
    BY <1>23, <2>2, <2>3 DEF MintOwner
<1>24. CASE VerifyOwner
  BY <1>24 DEF VerifyOwner, Remover, RemoverFails, ServiceInv, ServicePlace, RemoverPlace
<1>25. CASE DeleteQuery
  BY <1>25 DEF DeleteQuery, Remover, RemoverFails, ServiceInv, ServicePlace, RemoverPlace
<1>26. CASE DeleteBound
  BY <1>26 DEF DeleteBound, RemoverFails, ServiceInv, ServicePlace, RemoverPlace
<1>27. CASE CheckerStops
  BY <1>27 DEF CheckerStops, StopControl, ServiceInv, ServicePlace, RemoverPlace
<1>28. CASE CheckerStarts
  BY <1>28, Zenon DEF CheckerStarts, StartService, Off, ServiceInv, ServicePlace, RemoverPlace
<1>29. CASE CheckerEnds
  BY <1>29 DEF CheckerEnds, ServiceInv, ServicePlace, RemoverPlace
<1> QED
  BY <1>1, <1>2, <1>3, <1>4, <1>5, <1>6, <1>7, <1>8, <1>9, <1>10, <1>11, <1>12, <1>13, <1>14, <1>15, <1>16, <1>17, <1>18, <1>19, <1>20, <1>21, <1>22, <1>23, <1>24, <1>25, <1>26, <1>27, <1>28, <1>29 DEF ServiceNext, ServiceThread

\* Under ServiceInv the only step that ends a removal with another service of
\* the name is the deletion on the held handle.
LEMMA DeleteStep ==
    ASSUME ServiceInv, ServiceNext, remover.pc = "delete", remover'.pc = "idle",
           scm'.id # scm.id
    PROVE  scm.id = remover.handle
<1>1. CASE DeleteBound
  BY <1>1 DEF DeleteBound, RemoverFails
<1>2. CASE ~DeleteBound
  <2>1. remover' # remover
    OBVIOUS
  <2>2. Bind \/ StopBound \/ AwaitStopped \/ StopWitness \/ MintOwner \/ VerifyOwner \/ DeleteQuery
    BY <1>2, <2>1, Zenon
    DEF ServiceNext, ServiceThread, RegisterHandler, Readiness, PublishRunning, CommitStop,
        DrainAdmin, Pass, LoopEnds, LoopFails, PublishStopped, ServiceExits, HandlerSetsFlag,
        HandlerPublishes, ScmStarts, ScmStops, ServiceDies, Install, ForeignDelete, CheckerStops,
        CheckerStarts, CheckerEnds
  <2> QED
    BY <2>2 DEF Bind, StopBound, AwaitStopped, StopWitness, MintOwner, VerifyOwner, DeleteQuery
<1> QED
  BY <1>1, <1>2

\* However the service is started, stopped, configured again or replaced between
\* the remover's calls, the service it deletes is the one it stopped, its store
\* is durably stopped and no service process owns it.
THEOREM DeletesAreSafe == ServiceSpec => DeleteIsSafe
<1>1. ServiceInv /\ [ServiceNext]_serviceVars =>
         [remover.pc = "delete" /\ remover'.pc = "idle" /\ scm'.id # scm.id =>
             /\ scm.id = remover.handle
             /\ owner.mode = "Stopped"
             /\ service.pc \notin {"running", "loop"}]_serviceVars
  <2> SUFFICES ASSUME ServiceInv, ServiceNext, remover.pc = "delete", remover'.pc = "idle",
                      scm'.id # scm.id
               PROVE  /\ scm.id = remover.handle
                      /\ owner.mode = "Stopped"
                      /\ service.pc \notin {"running", "loop"}
    BY DEF serviceVars
  <2> QED
    BY DeleteStep DEF ServiceInv
<1> QED
  BY <1>1, ServiceInitInv, ServiceNextInv, PTL DEF ServiceSpec, DeleteIsSafe

-----------------------------------------------------------------------------
(* The staging of releases.  What a call has hashed, it hashed after it    *)
(* took the handle; a file that changed since is among the written ones.   *)

ManifestRow == [inode : {1, 2}, roles : [Role -> 0..2], config : {1, 2}, schema : {1, 2},
                valid : BOOLEAN]
CatalogRow  == [root : {1, 2}, release : 0..2, writable : BOOLEAN, entry : [Role -> SUBSET Blob],
                manifest : SUBSET ManifestRow, second : BOOLEAN, edits : Nat]
BlobRow     == [text : Version, writable : BOOLEAN]
BuilderRow  == [pc : {"hash", "mkdir", "copy", "manifest", "done", "failed"}, r : Role,
                hashes : [Role -> 0..2]]
CapRow      == [root : 0..2, release : 0..2, manifest : SUBSET ManifestRow,
                held : UNION {[1..n -> Blob] : n \in 0..RoleCount}]
Opening     == {"release", "manifest", "reread"}
Filling     == {"open", "after"}
Holding     == {"dirs", "again", "rehash", "recheck", "catalog", "return"}
StagerRow   == [pc : {"idle"} \cup Opening \cup Filling \cup Holding,
                call : {"none", "stage", "inspect", "handle"}, r : Role, digest : 0..2,
                cap : CapRow, written : SUBSET Blob]
DeployedRow == [config : {1, 2}, roles : UNION {[R -> Version] : R \in SUBSET Role},
                schema : {1, 2}, approved : SUBSET ManifestRow]

StageTypeOK ==
    /\ sources \in [Role -> Version] /\ catalog \in CatalogRow /\ blob \in [Blob -> BlobRow]
    /\ builder \in BuilderRow /\ stager \in StagerRow /\ deployed \in DeployedRow

\* No call before the release is built, and one manifest is approved.
AfterBuild ==
    /\ builder.pc # "done" => /\ stager.pc = "idle" /\ stager.cap.manifest = {}
                              /\ deployed.approved = {}
    /\ \A a, b \in deployed.approved : a.roles = b.roles

\* The calls and their steps.
StageCalls ==
    /\ stager.pc = "idle" <=> stager.call = "none"
    /\ stager.call = "handle" => stager.pc \in Holding /\ stager.cap.manifest # {}
    /\ stager.pc = "reread" => stager.call = "inspect"
    /\ stager.pc \in Opening \cup {"idle", "dirs", "again"} => stager.r = 1

\* The files of the first n roles are held, each another one.
HeldTo(n) == \A r \in 1..n : HeldBlob(r) \in Blob
OwnTo(n)  == \A r, q \in 1..n : HeldBlob(r) = HeldBlob(q) => r = q
AllHeld   == stager.pc \in Holding \/ (stager.pc = "idle" /\ stager.cap.manifest # {})
HeldRoles ==
    /\ stager.pc \in Filling => HeldTo(stager.r - 1) /\ OwnTo(stager.r - 1)
    /\ stager.pc = "after" => HeldBlob(stager.r) \in Blob
    /\ AllHeld => HeldTo(RoleCount) /\ OwnTo(RoleCount)

\* The files of the first n roles have the bytes of the manifest.
CurrentTo(n) ==
    \A r \in 1..n : HeldBlob(r) \in stager.written \/ blob[HeldBlob(r)].text = Parsed.roles[r]
Rechecked ==
    /\ stager.pc \in {"rehash", "recheck"} => CurrentTo(stager.r - 1)
    /\ stager.pc = "recheck" => \/ HeldBlob(stager.r) \in stager.written
                                \/ blob[HeldBlob(stager.r)].text = stager.digest
    /\ stager.pc \in {"catalog", "return"} => CurrentTo(RoleCount)

\* The manifest of a capability is the approved one.
Granted == stager.cap.manifest # {} /\ stager.call \in {"none", "handle"}
Binding ==
    /\ Granted \/ (stager.call = "stage" /\ stager.pc \in Filling \cup Holding) =>
          \A a \in deployed.approved : Parsed.roles = a.roles
    /\ Granted \/ (stager.call = "stage" /\ stager.pc \in Holding) => ConfigBinds

StageInv == StageTypeOK /\ AfterBuild /\ StageCalls /\ HeldRoles /\ Rechecked /\ Binding

\* A step of the builder or of the owner leaves the call in progress, and what
\* it may have read, except for files that it records as written.
LEMMA OwnerStep ==
  ASSUME StageInv, StageTypeOK',
         /\ stager'.pc = stager.pc /\ stager'.call = stager.call /\ stager'.r = stager.r
         /\ stager'.digest = stager.digest /\ stager'.cap = stager.cap
         /\ stager.written \subseteq stager'.written,
         stager.pc # "idle" =>
            \A b \in Blob : b \in stager'.written \/ blob'[b].text = blob[b].text,
         deployed'.roles = deployed.roles,
         \/ deployed'.approved = deployed.approved
         \/ stager.cap.manifest = {} /\ stager.pc = "idle",
         AfterBuild'
  PROVE  StageInv'
  <1>1. StageCalls'
    BY DEF StageInv, StageCalls
  <1>2. \A n : HeldBlob(n)' = HeldBlob(n)
    BY DEF HeldBlob
  <1>3. Parsed' = Parsed /\ (Granted' <=> Granted)
    BY DEF Parsed, Granted
  <1>4. HeldRoles'
    BY <1>2 DEF StageInv, HeldRoles, HeldTo, OwnTo, AllHeld
  <1>5. Binding'
    <2>1. (\A a \in deployed.approved : Parsed.roles = a.roles) /\ deployed'.approved = deployed.approved
            => (\A a \in deployed.approved : Parsed.roles = a.roles)'
      BY <1>3
    <2>2. ConfigBinds => ConfigBinds'
      BY <1>3 DEF ConfigBinds
    <2>3. stager.cap.manifest = {} /\ stager.pc = "idle" =>
             ~Granted' /\ stager'.pc \notin Filling \cup Holding
      BY DEF Granted, Filling, Holding
    <2> QED BY <1>3, <2>1, <2>2, <2>3 DEF StageInv, Binding
  <1>6. Rechecked'
    <2>1. CASE stager.pc \notin Holding
      BY <2>1 DEF Rechecked, Holding
    <2>2. CASE stager.pc \in Holding
      <3>1. /\ stager.pc # "idle" /\ HeldTo(RoleCount) /\ stager.r \in 1..RoleCount /\ RoleCount \in Nat
            /\ stager.r \in Nat
        BY <2>2, StageAssumption
           DEF StageInv, HeldRoles, AllHeld, Holding, StageTypeOK, StagerRow, Role
      <3>2. ASSUME NEW n \in 1..RoleCount, NEW x,
                   HeldBlob(n) \in stager.written \/ blob[HeldBlob(n)].text = x
            PROVE  (HeldBlob(n) \in stager.written)' \/ (blob[HeldBlob(n)].text)' = x
        BY <1>2, <3>1, <3>2 DEF HeldTo
      <3>3. ASSUME NEW n \in 0..RoleCount, CurrentTo(n) PROVE CurrentTo(n)'
        BY <1>3, <3>1, <3>2, <3>3 DEF CurrentTo
      <3>4. stager.r - 1 \in 0..RoleCount /\ RoleCount \in 0..RoleCount
        BY <3>1
      <3>5. Rechecked
        BY DEF StageInv
      <3> QED BY <3>1, <3>2, <3>3, <3>4, <3>5 DEF Rechecked
    <2> QED BY <2>1, <2>2
  <1> QED BY <1>1, <1>4, <1>5, <1>6 DEF StageInv

\* The roles are numbered from 1, and each has a blob of its own.
LEMMA RoleFacts ==
  /\ RoleCount \in Nat /\ RoleCount >= 1 /\ Role = 1..RoleCount /\ 1 \in Role /\ RoleCount \in Role
  /\ Role \subseteq Blob /\ Spare \in Blob
  /\ \A r \in Role : r # RoleCount => r + 1 \in Role
  BY StageAssumption DEF Role, Blob, Spare

\* The steps of the builder.
LEMMA BuilderStep ==
  ASSUME StageInv, HashSource \/ MakeRelease \/ CopySource \/ BuilderFails PROVE StageInv'
  <1>1. /\ StageTypeOK /\ AfterBuild /\ builder \in BuilderRow /\ catalog \in CatalogRow
        /\ blob \in [Blob -> BlobRow] /\ sources \in [Role -> Version] /\ builder.r \in Role
        /\ builder.hashes \in [Role -> 0..2]
    BY DEF StageInv, StageTypeOK, BuilderRow
  <1>2. UNCHANGED <<sources, stager, deployed>> /\ builder.pc # "done"
    BY DEF HashSource, MakeRelease, CopySource, BuilderFails
  <1>3. stager.pc = "idle" /\ stager.cap.manifest = {} /\ deployed.approved = {}
    BY <1>1, <1>2 DEF AfterBuild
  <1>4. ASSUME builder' \in BuilderRow, catalog' \in CatalogRow, blob' \in [Blob -> BlobRow]
        PROVE  StageInv'
    <2>1. StageTypeOK'
      BY <1>1, <1>2, <1>4 DEF StageTypeOK
    <2>2. AfterBuild'
      BY <1>2, <1>3 DEF AfterBuild
    <2> QED BY <1>2, <1>3, <2>1, <2>2, OwnerStep
  <1>5. \A pc \in {"copy", "manifest", "done", "failed"}, r \in Role :
           BuilderGoes(pc, r) => builder' \in BuilderRow
    BY <1>1, Zenon DEF BuilderGoes, BuilderRow
  <1>6. CASE BuilderFails
    BY <1>1, <1>4, <1>5, <1>6, RoleFacts DEF BuilderFails
  <1>7. CASE HashSource
    <2> DEFINE h == [builder.hashes EXCEPT ![builder.r] = sources[builder.r]]
               pc == IF builder.r = RoleCount THEN "mkdir" ELSE builder.pc
               r == IF builder.r = RoleCount THEN 1 ELSE builder.r + 1
    <2>1. h \in [Role -> 0..2]
      BY <1>1 DEF Version
    <2>2. pc \in {"hash", "mkdir"} /\ r \in Role
      BY <1>1, <1>7, RoleFacts DEF HashSource
    <2>3. builder' = [builder EXCEPT !.hashes = h, !.pc = pc, !.r = r]
      BY <1>7 DEF HashSource
    <2> HIDE DEF h, pc, r
    <2>4. builder' \in BuilderRow
      BY <1>1, <2>1, <2>2, <2>3, Zenon DEF BuilderRow
    <2> QED BY <1>1, <1>4, <1>7, <2>4 DEF HashSource
  <1>8. CASE MakeRelease
    <2>1. catalog' \in CatalogRow
      BY <1>1, <1>8 DEF MakeRelease, CatalogRow
    <2> QED BY <1>1, <1>4, <1>5, <1>8, <2>1, RoleFacts DEF MakeRelease
  <1>9. CASE CopySource
    <2> DEFINE e == [catalog.entry EXCEPT ![builder.r] = {builder.r}]
    <2>1. e \in [Role -> SUBSET Blob]
      BY <1>1, RoleFacts DEF CatalogRow
    <2>2. catalog' = [catalog EXCEPT !.entry = e]
      BY <1>9 DEF CopySource
    <2> HIDE DEF e
    <2>3. catalog' \in CatalogRow
      BY <1>1, <2>1, <2>2 DEF CatalogRow
    <2>4. blob' \in [Blob -> BlobRow]
      <3>1. [text |-> sources[builder.r], writable |-> TRUE] \in BlobRow
        BY <1>1 DEF BlobRow
      <3> QED BY <1>1, <1>9, <3>1, Zenon DEF CopySource
    <2> QED BY <1>1, <1>4, <1>5, <1>9, <2>3, <2>4, RoleFacts DEF CopySource
  <1> QED BY <1>6, <1>7, <1>8, <1>9

\* The manifest is written, and approved.
LEMMA WriteManifestInv ==
  ASSUME StageInv, WriteManifest PROVE StageInv'
  <1> DEFINE m == ManifestIn(1, builder.hashes, deployed.config, deployed.schema, TRUE)
  <1>1. /\ StageTypeOK /\ AfterBuild /\ builder \in BuilderRow /\ catalog \in CatalogRow
        /\ deployed \in DeployedRow
    BY DEF StageInv, StageTypeOK
  <1>2. m \in ManifestRow
    BY <1>1 DEF ManifestIn, ManifestRow, BuilderRow, DeployedRow
  <1>3. /\ catalog' = [catalog EXCEPT !.manifest = {m}]
        /\ deployed' = [deployed EXCEPT !.approved = {m}]
        /\ BuilderGoes("done", 1) /\ UNCHANGED <<sources, blob, stager>> /\ builder.pc # "done"
    BY DEF WriteManifest
  <1> HIDE DEF m
  <1>4. /\ catalog' \in CatalogRow /\ deployed' \in DeployedRow
        /\ deployed'.roles = deployed.roles /\ deployed'.approved = {m}
    BY <1>1, <1>2, <1>3 DEF CatalogRow, DeployedRow
  <1>5. builder' \in BuilderRow /\ builder'.pc = "done"
    BY <1>1, <1>3, RoleFacts, Zenon DEF BuilderGoes, BuilderRow
  <1>6. StageTypeOK'
    BY <1>1, <1>3, <1>4, <1>5 DEF StageTypeOK
  <1>7. AfterBuild' /\ stager.pc = "idle" /\ stager.cap.manifest = {}
    BY <1>1, <1>3, <1>4, <1>5 DEF AfterBuild
  <1> QED BY <1>3, <1>4, <1>6, <1>7, OwnerStep

\* The steps of the owner that write no file.
LEMMA OwnerSteps ==
  ASSUME StageInv, Protect \/ EditSource \/ Chmod \/ Replace \/ Reconfigure PROVE StageInv'
  <1>1. /\ StageTypeOK /\ AfterBuild /\ builder \in BuilderRow /\ catalog \in CatalogRow
        /\ blob \in [Blob -> BlobRow] /\ sources \in [Role -> Version] /\ deployed \in DeployedRow
    BY DEF StageInv, StageTypeOK
  <1>2. UNCHANGED <<stager, builder>>
    BY DEF Protect, EditSource, Chmod, Replace, Reconfigure
  <1>3. ASSUME catalog' \in CatalogRow, sources' \in [Role -> Version], blob' \in [Blob -> BlobRow],
               \A b \in Blob : blob'[b].text = blob[b].text, deployed' \in DeployedRow,
               deployed'.roles = deployed.roles, deployed'.approved = deployed.approved
        PROVE  StageInv'
    <2>1. StageTypeOK' /\ AfterBuild'
      BY <1>1, <1>2, <1>3 DEF StageTypeOK, AfterBuild
    <2> QED BY <1>2, <1>3, <2>1, OwnerStep
  <1>4. ASSUME NEW new \in CatalogRow, Edits(new) PROVE catalog' \in CatalogRow
    <2>1. new.edits + 1 \in Nat
      BY DEF CatalogRow
    <2> QED BY <1>4, <2>1 DEF Edits, CatalogRow
  <1>5. CASE Protect
    <2>1. catalog' \in CatalogRow
      BY <1>1, <1>5, Zenon DEF Protect, CatalogRow
    <2>2. ASSUME NEW b \in Blob
          PROVE  [blob[b] EXCEPT !.writable = FALSE] \in BlobRow
                 /\ [blob[b] EXCEPT !.writable = FALSE].text = blob[b].text
      <3>1. blob[b] \in BlobRow
        BY <1>1
      <3> QED BY <3>1, Zenon DEF BlobRow
    <2>3. blob' \in [Blob -> BlobRow] /\ \A b \in Blob : blob'[b].text = blob[b].text
      BY <1>5, <2>2, Zenon DEF Protect
    <2> QED BY <1>1, <1>3, <1>5, <2>1, <2>3 DEF Protect
  <1>6. CASE EditSource
    <2>1. sources' \in [Role -> Version]
      BY <1>1, <1>6 DEF EditSource, Version
    <2> QED BY <1>1, <1>3, <1>4, <1>6, <2>1 DEF EditSource
  <1>7. CASE Chmod
    <2>1. PICK b \in Role : blob' = [blob EXCEPT ![b].writable = ~@]
      BY <1>7, Zenon DEF Chmod
    <2> DEFINE new == [blob[b] EXCEPT !.writable = ~@]
    <2>2. new \in BlobRow /\ new.text = blob[b].text /\ b \in Blob
      <3>1. b \in Blob /\ blob[b] \in BlobRow
        BY <1>1, RoleFacts
      <3> QED BY <3>1, Zenon DEF BlobRow
    <2>3. blob' = [blob EXCEPT ![b] = new]
      BY <2>1
    <2> HIDE DEF new
    <2>4. blob' \in [Blob -> BlobRow] /\ \A c \in Blob : blob'[c].text = blob[c].text
      BY <1>1, <2>2, <2>3
    <2> QED BY <1>1, <1>3, <1>4, <1>7, <2>4 DEF Chmod
  <1>8. CASE Replace
    <2>1. ASSUME NEW r \in Role, NEW to \in {{}, {Spare}} \cup {{b} : b \in Role}
          PROVE  [catalog EXCEPT !.entry[r] = to] \in CatalogRow
      <3> DEFINE e == [catalog.entry EXCEPT ![r] = to]
      <3>1. to \in SUBSET Blob
        BY RoleFacts
      <3>2. e \in [Role -> SUBSET Blob]
        BY <1>1, <3>1 DEF CatalogRow
      <3>3. [catalog EXCEPT !.entry[r] = to] = [catalog EXCEPT !.entry = e]
        OBVIOUS
      <3> HIDE DEF e
      <3> QED BY <1>1, <3>2, <3>3 DEF CatalogRow
    <2>2. ASSUME NEW m \in ManifestRow PROVE [catalog EXCEPT !.manifest = {m}] \in CatalogRow
      BY <1>1 DEF CatalogRow
    <2>3. ASSUME NEW inode \in {1, 2}, NEW v \in Version
          PROVE  ManifestIn(inode, [r \in Role |-> v], deployed.config, 2, TRUE) \in ManifestRow
      <3> DEFINE f == [r \in Role |-> v]
      <3>1. f \in [Role -> 0..2] /\ deployed.config \in {1, 2}
        BY <1>1 DEF Version, DeployedRow
      <3> HIDE DEF f
      <3>2. ManifestIn(inode, f, deployed.config, 2, TRUE) \in ManifestRow
        BY <3>1, Zenon DEF ManifestIn, ManifestRow
      <3> QED BY <3>2, Zenon DEF f
    <2>4. ManifestIn(2, builder.hashes, 1, 1, FALSE) \in ManifestRow
      BY <1>1 DEF ManifestIn, ManifestRow, BuilderRow
    <2>5. /\ [catalog EXCEPT !.release = 2] \in CatalogRow
          /\ [catalog EXCEPT !.root = 2] \in CatalogRow
          /\ [catalog EXCEPT !.writable = TRUE] \in CatalogRow
          /\ [catalog EXCEPT !.second = TRUE] \in CatalogRow
      <3>1. [catalog EXCEPT !.release = 2] \in CatalogRow
        BY <1>1 DEF CatalogRow
      <3>2. [catalog EXCEPT !.root = 2] \in CatalogRow
        BY <1>1 DEF CatalogRow
      <3>3. [catalog EXCEPT !.writable = TRUE] \in CatalogRow
        BY <1>1, Zenon DEF CatalogRow
      <3>4. [catalog EXCEPT !.second = TRUE] \in CatalogRow
        BY <1>1, Zenon DEF CatalogRow
      <3> QED BY <3>1, <3>2, <3>3, <3>4
    <2>6. PICK new \in CatalogRow : Edits(new)
      BY <1>8, <2>1, <2>2, <2>3, <2>4, <2>5, Zenon DEF Replace
    <2> QED BY <1>1, <1>3, <1>4, <1>8, <2>6 DEF Replace
  <1>9. CASE Reconfigure
    <2>1. /\ deployed' \in DeployedRow /\ deployed'.roles = deployed.roles
          /\ deployed'.approved = deployed.approved
      BY <1>1, <1>9 DEF Reconfigure, DeployedRow
    <2> QED BY <1>1, <1>3, <1>4, <1>9, <2>1 DEF Reconfigure
  <1> QED BY <1>5, <1>6, <1>7, <1>8, <1>9

\* A file is written; a call in progress may have read it.
LEMMA WriteBlobInv ==
  ASSUME StageInv, WriteBlob PROVE StageInv'
  <1>1. /\ StageTypeOK /\ AfterBuild /\ catalog \in CatalogRow /\ blob \in [Blob -> BlobRow]
        /\ stager \in StagerRow
    BY DEF StageInv, StageTypeOK
  <1>2. PICK b \in Role :
           /\ blob' = [blob EXCEPT ![b].text = 3 - @]
           /\ stager' = [stager EXCEPT !.written = IF stager.pc = "idle" THEN @ ELSE @ \cup {b}]
    BY Zenon DEF WriteBlob
  <1>3. catalog' \in CatalogRow
    <2>1. catalog.edits + 1 \in Nat
      BY <1>1 DEF CatalogRow
    <2> QED BY <1>1, <2>1 DEF WriteBlob, Edits, CatalogRow
  <1> DEFINE new == [blob[b] EXCEPT !.text = 3 - @]
  <1>4. new \in BlobRow /\ b \in Blob
    <2>1. b \in Blob /\ blob[b] \in BlobRow /\ 3 - blob[b].text \in Version
      BY <1>1, RoleFacts DEF BlobRow, Version
    <2> QED BY <2>1 DEF BlobRow
  <1>5. blob' = [blob EXCEPT ![b] = new]
    BY <1>2
  <1> HIDE DEF new
  <1>6. blob' \in [Blob -> BlobRow] /\ \A c \in Blob : c # b => blob'[c].text = blob[c].text
    BY <1>1, <1>4, <1>5
  <1> DEFINE w == IF stager.pc = "idle" THEN stager.written ELSE stager.written \cup {b}
  <1>7. w \in SUBSET Blob /\ stager' = [stager EXCEPT !.written = w]
        /\ stager.written \subseteq w /\ (stager.pc # "idle" => b \in w)
    BY <1>1, <1>2, <1>4 DEF StagerRow
  <1> HIDE DEF w
  <1>8. /\ stager' \in StagerRow /\ stager'.written = w
        /\ stager'.pc = stager.pc /\ stager'.call = stager.call /\ stager'.r = stager.r
        /\ stager'.digest = stager.digest /\ stager'.cap = stager.cap
    BY <1>1, <1>7 DEF StagerRow
  <1>9. UNCHANGED <<sources, builder, deployed>>
    BY DEF WriteBlob
  <1>10. StageTypeOK' /\ AfterBuild'
    BY <1>1, <1>3, <1>6, <1>8, <1>9 DEF StageTypeOK, AfterBuild
  <1> QED BY <1>6, <1>7, <1>8, <1>9, <1>10, OwnerStep

\* A step of a call that leaves everything but the call.
LEMMA CallStepInv ==
  ASSUME StageInv, OnlyStager, stager' \in StagerRow, StageCalls', HeldRoles', Rechecked', Binding',
         builder.pc = "done"
  PROVE  StageInv'
  BY DEF StageInv, StageTypeOK, AfterBuild, OnlyStager

\* The call goes to another step, at the first role.
\* A call that moves on stays with its launch.
LEMMA GoesFacts ==
  ASSUME stager \in StagerRow, NEW pc \in {"open"} \cup Holding, StagerGoes(pc)
  PROVE  /\ stager' \in StagerRow /\ stager'.pc = pc /\ stager'.call = stager.call /\ stager'.r = 1
         /\ stager'.digest = stager.digest /\ stager'.cap = stager.cap
         /\ stager'.written = stager.written
  BY RoleFacts, Zenon DEF StagerGoes, StagerRow, Filling

\* A call is open only when the release is built.
LEMMA BuiltFacts ==
  ASSUME StageInv PROVE /\ stager.pc # "idle" => builder.pc = "done"
                        /\ stager.cap.manifest # {} => builder.pc = "done"
                        /\ stager \in StagerRow /\ stager.cap \in CapRow /\ stager.r \in Role
                        /\ stager.r \in Nat /\ stager.r >= 1 /\ stager.r <= RoleCount
                        /\ catalog \in CatalogRow /\ blob \in [Blob -> BlobRow]
                        /\ deployed \in DeployedRow
  BY RoleFacts DEF StageInv, AfterBuild, StageTypeOK, StagerRow

\* The steps of verify_held, and the second reading of the manifest.
LEMMA VerifySteps ==
  ASSUME StageInv, RereadManifest \/ VerifyDirectories \/ VerifyManifest \/ VerifyCatalog
  PROVE  StageInv'
  <1>1. stager \in StagerRow /\ OnlyStager /\ builder.pc = "done" /\ UNCHANGED <<blob, deployed>>
    BY BuiltFacts DEF RereadManifest, VerifyDirectories, VerifyManifest, VerifyCatalog, OnlyStager
  <1>2. ASSUME NEW pc \in {"open"} \cup Holding, StagerGoes(pc),
               \/ stager.pc = "reread" /\ pc = "open"
               \/ stager.pc \in Holding /\ pc \in {"again", "rehash"}
               \/ stager.pc = "catalog" /\ pc = "return"
        PROVE  StageInv'
    <2>1. /\ stager' \in StagerRow /\ stager'.pc = pc /\ stager'.call = stager.call /\ stager'.r = 1
          /\ stager'.digest = stager.digest /\ stager'.cap = stager.cap
          /\ stager'.written = stager.written
      BY <1>1, <1>2, GoesFacts
    <2>2. \A n : HeldBlob(n)' = HeldBlob(n)
      BY <2>1 DEF HeldBlob
    <2>3. Parsed' = Parsed /\ (ConfigBinds' <=> ConfigBinds) /\ (Granted' <=> Granted)
      BY <1>1, <2>1 DEF Parsed, ConfigBinds, Granted
    <2>4. StageCalls'
      BY <1>2, <2>1 DEF StageInv, StageCalls, Holding, Opening
    <2>5. HeldRoles'
      <3>1. 1 - 1 = 0 /\ HeldTo(0)' /\ OwnTo(0)'
        BY DEF HeldTo, OwnTo
      <3>2. pc \in Holding => stager.pc \in Holding
        BY <1>2 DEF Holding
      <3>3. (HeldTo(RoleCount) => HeldTo(RoleCount)') /\ (OwnTo(RoleCount) => OwnTo(RoleCount)')
        BY <2>2 DEF HeldTo, OwnTo
      <3> QED BY <1>2, <2>1, <3>1, <3>2, <3>3, Zenon DEF StageInv, HeldRoles, AllHeld, Filling, Holding
    <2>6. Rechecked'
      <3>1. 1 - 1 = 0 /\ CurrentTo(0)'
        BY DEF CurrentTo
      <3>2. CurrentTo(RoleCount) => CurrentTo(RoleCount)'
        BY <1>1, <2>1, <2>2, <2>3 DEF CurrentTo
      <3> QED BY <1>2, <2>1, <3>1, <3>2 DEF StageInv, Rechecked, Holding
    <2>7. Binding'
      <3>1. stager.pc = "reread" => stager.call = "inspect"
        BY DEF StageInv, StageCalls
      <3>2. stager.pc = "reread" \/ stager.pc \in Holding
        BY <1>2 DEF Holding
      <3> QED BY <1>1, <1>2, <2>1, <2>3, <3>1, <3>2 DEF StageInv, Binding, Granted, Filling, Holding
    <2> QED BY <1>1, <2>1, <2>4, <2>5, <2>6, <2>7, CallStepInv
  <1> QED BY <1>2 DEF RereadManifest, VerifyDirectories, VerifyManifest, VerifyCatalog, Holding

\* The empty capability holds nothing.
LEMMA NoCapabilityRow == NoCapability \in CapRow /\ NoCapability.manifest = {}
  <1> DEFINE h == [r \in {} |-> 0]
  <1>1. h \in UNION {[1..n -> Blob] : n \in 0..RoleCount}
    <2>1. 1..0 = {} /\ 0 \in 0..RoleCount
      BY RoleFacts
    <2>2. h \in [1..0 -> Blob]
      BY <2>1
    <2> QED BY <2>1, <2>2
  <1>2. NoCapability = [root |-> 0, release |-> 0, manifest |-> {}, held |-> h]
    BY DEF NoCapability
  <1> HIDE DEF h
  <1> QED BY <1>1, <1>2 DEF CapRow

\* The call returns, or fails.
LEMMA EndSteps ==
  ASSUME StageInv, StagerFails \/ Return PROVE StageInv'
  <1>1. stager \in StagerRow /\ OnlyStager /\ builder.pc = "done" /\ stager.pc # "idle"
        /\ stager.cap \in CapRow /\ UNCHANGED <<blob, deployed>>
    BY BuiltFacts DEF StagerFails, Return, OnlyStager
  <1>2. PICK cap \in CapRow :
           /\ StageEnds(cap)
           /\ cap.manifest = {} \/ (cap = stager.cap /\ stager.call \in {"stage", "handle"}
                                     /\ stager.pc \in Holding)
    <2>1. CASE StagerFails
      <3>1. CASE stager.call = "handle"
        BY <1>1, <2>1, <3>1 DEF StagerFails, StageInv, StageCalls
      <3>2. CASE stager.call # "handle"
        BY <1>1, <2>1, <3>2, NoCapabilityRow DEF StagerFails
      <3> QED BY <3>1, <3>2
    <2>2. CASE Return
      <3>1. CASE stager.call = "inspect"
        BY <1>1, <2>2, <3>1, NoCapabilityRow DEF Return
      <3>2. CASE stager.call # "inspect"
        <4>1. stager.call \in {"stage", "handle"}
          BY <1>1, <3>2 DEF StageInv, StageCalls, StagerRow
        <4> QED BY <1>1, <2>2, <3>2, <4>1 DEF Return, Holding
      <3> QED BY <3>1, <3>2
    <2> QED BY <2>1, <2>2
  <1>3. /\ stager' \in StagerRow /\ stager'.pc = "idle" /\ stager'.call = "none" /\ stager'.r = 1
        /\ stager'.cap = cap
    <2>1. {} \in SUBSET Blob /\ 0 \in 0..2 /\ 1 \in Role
      BY RoleFacts
    <2>2. stager' = [stager EXCEPT !.pc = "idle", !.call = "none", !.r = 1, !.digest = 0,
                                   !.cap = cap, !.written = {}]
      BY <1>2 DEF StageEnds
    <2>3. cap \in CapRow
      OBVIOUS
    <2> QED BY ONLY <1>1, <2>1, <2>2, <2>3, Zenon DEF StagerRow
  <1>4. StageCalls'
    BY <1>3 DEF StageCalls, Opening, Holding
  <1>5. Rechecked'
    BY <1>3 DEF Rechecked
  <1>6. CASE cap.manifest = {}
    <2>1. ~AllHeld' /\ ~Granted'
      BY <1>3, <1>6 DEF AllHeld, Granted, Holding
    <2>2. HeldRoles' /\ Binding'
      BY <1>3, <2>1, Zenon DEF HeldRoles, Binding, Filling
    <2> QED BY <1>1, <1>3, <1>4, <1>5, <2>2, CallStepInv
  <1>7. CASE cap.manifest # {}
    <2>1. cap = stager.cap /\ stager.call \in {"stage", "handle"} /\ stager.pc \in Holding
      BY <1>2, <1>7
    <2>2. Parsed' = Parsed /\ (ConfigBinds' <=> ConfigBinds) /\ \A n : HeldBlob(n)' = HeldBlob(n)
      BY <1>1, <1>3, <2>1 DEF Parsed, ConfigBinds, HeldBlob
    <2>3. Granted \/ (stager.call = "stage" /\ stager.pc \in Holding)
      BY <1>7, <2>1 DEF Granted
    <2>4. Binding'
      BY <1>1, <1>3, <2>2, <2>3 DEF StageInv, Binding
    <2>5. HeldRoles'
      BY <1>3, <2>1, <2>2 DEF StageInv, HeldRoles, HeldTo, OwnTo, AllHeld, Filling
    <2> QED BY <1>1, <1>3, <1>4, <1>5, <2>4, <2>5, CallStepInv
  <1> QED BY <1>6, <1>7

\* A call begins: its arguments, the root and the release.
LEMMA OpenSteps ==
  ASSUME StageInv, (\E call \in {"stage", "inspect"} : OpenCatalog(call)) \/ OpenRelease
                     \/ InspectManifest
  PROVE  StageInv'
  <1>1. /\ stager \in StagerRow /\ OnlyStager /\ builder.pc = "done" /\ stager.cap \in CapRow
        /\ UNCHANGED <<blob, deployed>> /\ catalog \in CatalogRow /\ stager.r = 1
        /\ stager.pc \in {"idle"} \cup Opening
    BY BuiltFacts DEF OpenCatalog, OpenRelease, InspectManifest, OnlyStager, StageInv, StageCalls,
                      Opening
  <1>2. ASSUME NEW cap \in CapRow, NEW call \in {"stage", "inspect"}, NEW pc \in Opening,
               stager' = [stager EXCEPT !.pc = pc, !.call = call, !.cap = cap],
               pc = "reread" => call = "inspect"
        PROVE  StageInv'
    <2>1. /\ stager' \in StagerRow /\ stager'.pc = pc /\ stager'.call = call /\ stager'.r = 1
      BY <1>1, <1>2, Zenon DEF StagerRow
    <2>2. StageCalls'
      BY <1>2, <2>1 DEF StageCalls, Opening
    <2>3. ~AllHeld' /\ ~Granted' /\ pc \notin Filling \cup Holding
      BY <1>2, <2>1 DEF AllHeld, Granted, Opening, Filling, Holding
    <2>4. HeldRoles' /\ Rechecked' /\ Binding'
      BY <2>1, <2>3 DEF HeldRoles, Rechecked, Binding, Filling, Holding
    <2> QED BY <1>1, <2>1, <2>2, <2>4, CallStepInv
  <1>3. ASSUME NEW call \in {"stage", "inspect"}, OpenCatalog(call) PROVE StageInv'
    <2> DEFINE cap == [NoCapability EXCEPT !.root = OpenedRoot]
    <2>1. cap \in CapRow
      <3>1. OpenedRoot \in 0..2
        BY <1>1 DEF OpenedRoot, CatalogRow
      <3> QED BY <3>1, NoCapabilityRow DEF CapRow
    <2> QED BY <1>2, <1>3, <2>1, Zenon DEF OpenCatalog, Opening
  <1>4. stager.pc # "idle" => stager.call \in {"stage", "inspect"}
    BY <1>1 DEF StageInv, StageCalls, StagerRow, Opening, Holding
  <1>5. CASE OpenRelease
    <2> DEFINE cap == [stager.cap EXCEPT !.release = OpenedRelease]
    <2>1. cap \in CapRow
      BY <1>1, Zenon DEF CapRow, OpenedRelease, CatalogRow
    <2>2. stager' = [stager EXCEPT !.pc = "manifest", !.cap = cap]
      BY <1>5 DEF OpenRelease
    <2>3. stager' = [stager EXCEPT !.pc = "manifest", !.call = stager.call, !.cap = cap]
      <3> HIDE DEF cap
      <3> QED BY <1>1, <2>2, Zenon DEF StagerRow
    <2> QED BY <1>2, <1>4, <1>5, <2>1, <2>3, Zenon DEF OpenRelease, Opening
  <1>6. CASE InspectManifest
    <2> DEFINE cap == [stager.cap EXCEPT !.manifest = OpenedManifest]
    <2>1. cap \in CapRow
      <3>1. OpenedManifest \in SUBSET ManifestRow
        BY <1>1 DEF OpenedManifest, CatalogRow
      <3> QED BY <1>1, <3>1 DEF CapRow
    <2>2. stager' = [stager EXCEPT !.pc = "reread", !.cap = cap]
      BY <1>6 DEF InspectManifest
    <2>3. stager' = [stager EXCEPT !.pc = "reread", !.call = stager.call, !.cap = cap]
      <3> HIDE DEF cap
      <3> QED BY <1>1, <2>2, Zenon DEF StagerRow
    <2> QED BY <1>2, <1>4, <1>6, <2>1, <2>3, Zenon DEF InspectManifest, Opening
  <1> QED BY <1>3, <1>5, <1>6

\* stage compares the manifest with the approved one.
LEMMA StageManifestInv ==
  ASSUME StageInv, StageManifest PROVE StageInv'
  <1>1. /\ stager \in StagerRow /\ OnlyStager /\ builder.pc = "done" /\ stager.cap \in CapRow
        /\ UNCHANGED <<blob, deployed>> /\ catalog \in CatalogRow /\ stager.r = 1
        /\ deployed \in DeployedRow /\ AfterBuild
    BY BuiltFacts DEF StageManifest, OnlyStager, StageInv, StageCalls, Opening
  <1> DEFINE cap == [stager.cap EXCEPT !.manifest = OpenedManifest]
  <1>2. cap \in CapRow /\ cap.manifest = OpenedManifest
    <2>1. OpenedManifest \in SUBSET ManifestRow
      BY <1>1 DEF OpenedManifest, CatalogRow
    <2> QED BY <1>1, <2>1 DEF CapRow
  <1>3. stager' = [stager EXCEPT !.pc = "open", !.cap = cap]
    BY DEF StageManifest
  <1> HIDE DEF cap
  <1>4. /\ stager' \in StagerRow /\ stager'.pc = "open" /\ stager'.call = "stage" /\ stager'.r = 1
        /\ stager'.cap = cap
    BY <1>1, <1>2, <1>3, Zenon DEF StagerRow, StageManifest, Filling
  <1>5. StageCalls' /\ Rechecked'
    BY <1>4, Zenon DEF StageCalls, Rechecked, Opening
  <1>6. HeldRoles'
    <2>1. 1 - 1 = 0 /\ HeldTo(0)' /\ OwnTo(0)'
      BY DEF HeldTo, OwnTo
    <2> QED BY <1>4, <2>1 DEF HeldRoles, AllHeld, Holding
  <1>7. Binding'
    <2>1. Parsed' \in OpenedManifest
      BY <1>2, <1>4 DEF Parsed, StageManifest
    <2>2. PICK a \in deployed.approved : [a EXCEPT !.inode = Parsed'.inode] = Parsed'
      BY <2>1 DEF StageManifest
    <2>3. a \in ManifestRow
      BY <1>1 DEF DeployedRow
    <2>4. Parsed'.roles = a.roles
      BY <2>2, <2>3 DEF ManifestRow
    <2>5. \A b \in deployed'.approved : Parsed'.roles = b.roles
      BY <1>1, <2>4 DEF AfterBuild
    <2> QED BY <1>4, <2>5 DEF Binding, Granted, Holding
  <1> QED BY <1>1, <1>4, <1>5, <1>6, <1>7, CallStepInv

\* A role's file is opened and hashed.
LEMMA OpenRoleInv ==
  ASSUME StageInv, OpenRole PROVE StageInv'
  <1>1. /\ stager \in StagerRow /\ OnlyStager /\ builder.pc = "done" /\ stager.cap \in CapRow
        /\ UNCHANGED <<blob, deployed>> /\ catalog \in CatalogRow /\ blob \in [Blob -> BlobRow]
        /\ stager.r \in Role /\ stager.pc = "open"
    BY BuiltFacts DEF OpenRole, OnlyStager
  <1>2. PICK k \in 1..RoleCount : k = stager.r /\ k \in Nat
    BY <1>1, RoleFacts
  <1>3. PICK b \in OpenedRole(k) :
           stager' = [stager EXCEPT !.pc = "after", !.digest = DigestOf(b),
                        !.cap.held = [r \in 1..k |-> IF r = k THEN b ELSE HeldBlob(r)]]
    BY <1>2, Zenon DEF OpenRole
  <1> DEFINE h == [r \in 1..k |-> IF r = k THEN b ELSE HeldBlob(r)]
             cap == [stager.cap EXCEPT !.held = h]
  <1>4. b \in Blob /\ DigestOf(b) \in 0..2
    <2>1. b \in Blob
      BY <1>1, <1>2 DEF OpenedRole, CatalogRow
    <2> QED BY <1>1, <2>1 DEF DigestOf, BlobRow, Version
  <1>5. HeldTo(k - 1) /\ OwnTo(k - 1)
    BY <1>1, <1>2 DEF StageInv, HeldRoles, Filling
  <1>6. h \in [1..k -> Blob]
    <2>1. \A r \in 1..k : r # k => r \in 1..(k - 1)
      BY <1>2
    <2> QED BY <1>4, <1>5, <2>1 DEF HeldTo
  <1>7. h \in UNION {[1..n -> Blob] : n \in 0..RoleCount}
    BY <1>2, <1>6, RoleFacts
  <1>8. /\ h[k] = b
        /\ \A r \in 1..(k - 1) : h[r] = HeldBlob(r)
    BY <1>2
  <1> HIDE DEF h
  <1>9. cap \in CapRow /\ cap.held = h /\ cap.manifest = stager.cap.manifest
    BY <1>1, <1>7, Zenon DEF CapRow
  <1>10. stager' = [stager EXCEPT !.pc = "after", !.digest = DigestOf(b), !.cap = cap]
    BY <1>3 DEF h
  <1> HIDE DEF cap
  <1>11. /\ stager' \in StagerRow /\ stager'.pc = "after" /\ stager'.call = stager.call
         /\ stager'.r = stager.r /\ stager'.cap = cap
    BY <1>1, <1>4, <1>9, <1>10, Zenon DEF StagerRow, Filling
  <1>12. StageCalls' /\ Rechecked'
    <2>1. stager.call # "none" /\ stager.call # "handle"
      BY <1>1 DEF StageInv, StageCalls, Holding
    <2> QED BY <1>11, <2>1 DEF StageCalls, Rechecked, Opening
  <1>13. HeldRoles'
    <2>1. \A r : HeldBlob(r)' = h[r]
      BY <1>9, <1>11, Zenon DEF HeldBlob
    <2>2. HeldTo(k - 1)' /\ OwnTo(k - 1)' /\ HeldBlob(k)' \in Blob
      BY <1>4, <1>5, <1>8, <2>1 DEF HeldTo, OwnTo
    <2>3. ~AllHeld'
      BY <1>11 DEF AllHeld, Holding
    <2> QED BY <1>2, <1>11, <2>2, <2>3 DEF HeldRoles
  <1>14. Binding'
    <2>1. Parsed' = Parsed /\ (Granted' <=> Granted)
      BY <1>9, <1>11, Zenon DEF Parsed, Granted
    <2> QED BY <1>1, <1>11, <2>1, Zenon DEF StageInv, Binding, Filling, Holding, ConfigBinds
  <1> QED BY <1>1, <1>11, <1>12, <1>13, <1>14, CallStepInv

\* The file is checked again: no other role has it.
LEMMA CheckRoleInv ==
  ASSUME StageInv, CheckRole PROVE StageInv'
  <1>1. /\ stager \in StagerRow /\ OnlyStager /\ builder.pc = "done"
        /\ UNCHANGED <<blob, deployed>> /\ stager.r \in Role /\ stager.pc = "after"
        /\ stager.call \in {"stage", "inspect"}
    BY BuiltFacts DEF CheckRole, OnlyStager, StageInv, StageCalls, Holding, StagerRow
  <1>2. PICK k \in 1..RoleCount : k = stager.r /\ k \in Nat /\ (k + 1) - 1 = k
    BY <1>1, RoleFacts
  <1>3. HeldTo(k) /\ OwnTo(k)
    <2>1. HeldTo(k - 1) /\ OwnTo(k - 1) /\ HeldBlob(k) \in Blob
      BY <1>1, <1>2 DEF StageInv, HeldRoles, Filling
    <2>2. \A r \in 1..(k - 1) : HeldBlob(r) # HeldBlob(k)
      BY <1>2 DEF CheckRole
    <2>3. \A r \in 1..k : r = k \/ r \in 1..(k - 1)
      BY <1>2
    <2> QED BY <2>1, <2>2, <2>3 DEF HeldTo, OwnTo
  <1>4. \A pc \in {"open", "dirs"} : stager'.pc = pc /\ stager'.cap = stager.cap
           => /\ Parsed' = Parsed /\ \A r : HeldBlob(r)' = HeldBlob(r)
              /\ HeldTo(k)' /\ OwnTo(k)'
    BY <1>3 DEF Parsed, HeldBlob, HeldTo, OwnTo
  <1>5. CASE stager.r < RoleCount
    <2>1. stager' = [stager EXCEPT !.pc = "open", !.r = stager.r + 1]
      BY <1>5 DEF CheckRole
    <2>2. /\ stager' \in StagerRow /\ stager'.pc = "open" /\ stager'.r = k + 1
          /\ stager'.call = stager.call /\ stager'.cap = stager.cap
      <3>1. stager.r + 1 \in Role /\ stager.r + 1 = k + 1
        BY <1>1, <1>2, <1>5, RoleFacts
      <3> QED BY ONLY <1>1, <2>1, <3>1, Zenon DEF StagerRow, Filling
    <2>3. StageCalls' /\ Rechecked'
      BY <1>1, <2>2, Zenon DEF StageCalls, Rechecked, Opening
    <2>4. HeldRoles'
      BY <1>2, <1>4, <2>2, Zenon DEF HeldRoles, AllHeld, Holding
    <2>5. Binding'
      BY <1>1, <1>4, <2>2, Zenon DEF StageInv, Binding, Granted, Filling, Holding
    <2> QED BY <1>1, <2>2, <2>3, <2>4, <2>5, CallStepInv
  <1>6. CASE ~(stager.r < RoleCount)
    <2>1. StagerGoes("dirs") /\ (stager.call = "stage" => ConfigBinds) /\ k = RoleCount
      BY <1>2, <1>6, RoleFacts DEF CheckRole
    <2>2. /\ stager' \in StagerRow /\ stager'.pc = "dirs" /\ stager'.r = 1
          /\ stager'.call = stager.call /\ stager'.cap = stager.cap
      BY <1>1, <2>1, GoesFacts DEF Holding
    <2>3. StageCalls' /\ Rechecked'
      BY <1>1, <2>2, Zenon DEF StageCalls, Rechecked, Opening
    <2>4. HeldRoles'
      BY <1>4, <2>1, <2>2, Zenon DEF HeldRoles, Filling
    <2>5. Binding'
      BY <1>1, <1>4, <2>1, <2>2, Zenon DEF StageInv, Binding, Granted, Filling, ConfigBinds
    <2> QED BY <1>1, <2>2, <2>3, <2>4, <2>5, CallStepInv
  <1> QED BY <1>5, <1>6

\* verify_held hashes a role's file, and checks the digest.
LEMMA RehashSteps ==
  ASSUME StageInv, RehashRole \/ RecheckRole PROVE StageInv'
  <1>1. /\ stager \in StagerRow /\ OnlyStager /\ builder.pc = "done" /\ blob \in [Blob -> BlobRow]
        /\ UNCHANGED <<blob, deployed>> /\ stager.r \in Role /\ stager.pc \in {"rehash", "recheck"}
        /\ stager.pc \in Holding
    BY BuiltFacts DEF RehashRole, RecheckRole, OnlyStager, Holding
  <1>2. PICK k \in 1..RoleCount : k = stager.r /\ k \in Nat /\ (k + 1) - 1 = k
    BY <1>1, RoleFacts
  <1>3. HeldTo(RoleCount) /\ OwnTo(RoleCount) /\ CurrentTo(k - 1) /\ HeldBlob(k) \in Blob
    BY <1>1, <1>2, Zenon DEF StageInv, HeldRoles, Rechecked, AllHeld, HeldTo
  <1>4. ASSUME NEW pc \in Holding, stager' \in StagerRow, stager'.pc = pc, stager'.r \in Role,
               stager'.call = stager.call, stager'.cap = stager.cap,
               stager'.written = stager.written, Rechecked', pc \notin {"dirs", "again"}
        PROVE  StageInv'
    <2>1. /\ Parsed' = Parsed /\ (ConfigBinds' <=> ConfigBinds) /\ (Granted' <=> Granted)
          /\ \A r : HeldBlob(r)' = HeldBlob(r)
      BY <1>1, <1>4, Zenon DEF Parsed, ConfigBinds, Granted, HeldBlob
    <2>2. StageCalls'
      BY <1>1, <1>4, Zenon DEF StageInv, StageCalls, Opening, Holding
    <2>3. HeldRoles'
      BY <1>3, <1>4, <2>1, Zenon DEF HeldRoles, HeldTo, OwnTo, Filling, Holding
    <2>4. Binding'
      BY <1>1, <1>4, <2>1, Zenon DEF StageInv, Binding
    <2> QED BY <1>1, <1>4, <2>2, <2>3, <2>4, CallStepInv, Zenon
  <1>5. ASSUME stager'.cap = stager.cap, stager'.written = stager.written, NEW n, CurrentTo(n)
        PROVE  CurrentTo(n)'
    BY <1>1, <1>5, Zenon DEF CurrentTo, HeldBlob, Parsed
  <1>6. CASE RehashRole
    <2>1. stager' = [stager EXCEPT !.pc = "recheck", !.digest = DigestOf(HeldBlob(stager.r))]
      BY <1>6 DEF RehashRole
    <2>2. DigestOf(HeldBlob(stager.r)) \in 0..2
      BY <1>1, <1>2, <1>3 DEF DigestOf, BlobRow, Version
    <2>3. /\ stager' \in StagerRow /\ stager'.pc = "recheck" /\ stager'.r = stager.r
          /\ stager'.call = stager.call /\ stager'.cap = stager.cap
          /\ stager'.written = stager.written /\ stager'.digest = DigestOf(HeldBlob(stager.r))
      BY <1>1, <2>1, <2>2, Zenon DEF StagerRow, Holding
    <2>4. Rechecked'
      BY <1>1, <1>2, <1>3, <1>5, <2>3, Zenon DEF Rechecked, DigestOf, HeldBlob
    <2> QED BY <1>1, <1>4, <2>3, <2>4 DEF Holding
  <1>7. CASE RecheckRole
    <2>1. CurrentTo(k)
      <3>1. HeldBlob(k) \in stager.written \/ blob[HeldBlob(k)].text = Parsed.roles[k]
        BY <1>2, <1>7 DEF StageInv, Rechecked, RecheckRole
      <3>2. \A r \in 1..k : r = k \/ r \in 1..(k - 1)
        BY <1>2
      <3> QED BY <1>3, <3>1, <3>2, Zenon DEF CurrentTo
    <2>2. CASE stager.r < RoleCount
      <3>1. stager' = [stager EXCEPT !.pc = "rehash", !.r = stager.r + 1]
        BY <1>7, <2>2 DEF RecheckRole
      <3>2. /\ stager' \in StagerRow /\ stager'.pc = "rehash" /\ stager'.r = k + 1
            /\ stager'.call = stager.call /\ stager'.cap = stager.cap /\ stager'.r \in Role
            /\ stager'.written = stager.written
        <4>1. stager.r + 1 \in Role /\ stager.r + 1 = k + 1
          BY <1>1, <1>2, <2>2, RoleFacts
        <4> QED BY ONLY <1>1, <3>1, <4>1, Zenon DEF StagerRow, Holding
      <3>3. Rechecked'
        BY <1>2, <1>5, <2>1, <3>2, Zenon DEF Rechecked
      <3> QED BY <1>4, <3>2, <3>3 DEF Holding
    <2>3. CASE ~(stager.r < RoleCount)
      <3>1. PICK pc \in {"catalog", "return"} : StagerGoes(pc)
        BY <1>7, <2>3 DEF RecheckRole
      <3>2. k = RoleCount /\ pc \in Holding
        BY <1>2, <2>3, RoleFacts DEF Holding
      <3>3. /\ stager' \in StagerRow /\ stager'.pc = pc /\ stager'.r = 1
            /\ stager'.call = stager.call /\ stager'.cap = stager.cap
            /\ stager'.written = stager.written
        BY <1>1, <3>1, <3>2, GoesFacts
      <3>4. Rechecked'
        BY <1>5, <2>1, <3>1, <3>2, <3>3, Zenon DEF Rechecked
      <3> QED BY <1>4, <3>1, <3>2, <3>3, <3>4, RoleFacts
    <2> QED BY <2>2, <2>3
  <1> QED BY <1>6, <1>7

\* role_handle verifies what is held.
LEMMA RoleHandleInv ==
  ASSUME StageInv, RoleHandle PROVE StageInv'
  <1>1. /\ stager \in StagerRow /\ OnlyStager /\ builder.pc = "done" /\ stager.r = 1
        /\ UNCHANGED <<blob, deployed>> /\ stager.pc = "idle" /\ stager.cap.manifest # {}
        /\ stager.call = "none"
    BY BuiltFacts DEF RoleHandle, OnlyStager, StageInv, StageCalls
  <1>2. /\ stager' \in StagerRow /\ stager'.pc = "dirs" /\ stager'.r = 1
        /\ stager'.call = "handle" /\ stager'.cap = stager.cap
    BY <1>1, Zenon DEF RoleHandle, StagerRow, Holding
  <1>3. /\ Parsed' = Parsed /\ (ConfigBinds' <=> ConfigBinds) /\ Granted
        /\ \A r : HeldBlob(r)' = HeldBlob(r)
    BY <1>1, <1>2, Zenon DEF Parsed, ConfigBinds, Granted, HeldBlob
  <1>4. StageCalls' /\ Rechecked'
    BY <1>1, <1>2, Zenon DEF StageCalls, Rechecked, Holding
  <1>5. HeldRoles'
    BY <1>1, <1>2, <1>3, Zenon DEF StageInv, HeldRoles, HeldTo, OwnTo, AllHeld, Filling
  <1>6. Binding'
    BY <1>1, <1>2, <1>3, Zenon DEF StageInv, Binding
  <1> QED BY <1>1, <1>2, <1>4, <1>5, <1>6, CallStepInv, Zenon

\* Before the first call nothing is staged, held or verified.
LEMMA StageInitInv == StageInit => StageInv
  <1> SUFFICES ASSUME StageInit PROVE StageInv
    OBVIOUS
  <1>1. sources \in [Role -> Version] /\ blob \in [Blob -> BlobRow]
    BY Zenon DEF StageInit, Version, BlobRow
  <1>2. catalog \in CatalogRow
    <2> DEFINE e == [r \in Role |-> {}]
    <2>1. e \in [Role -> SUBSET Blob]
      OBVIOUS
    <2>2. catalog = [root |-> 1, release |-> 0, writable |-> TRUE, entry |-> e,
                     manifest |-> {}, second |-> FALSE, edits |-> 0]
      BY Zenon DEF StageInit
    <2> HIDE DEF e
    <2> QED BY <2>1, <2>2 DEF CatalogRow
  <1>3. builder \in BuilderRow /\ builder.pc = "hash"
    <2> DEFINE h == [r \in Role |-> 0]
    <2>1. h \in [Role -> 0..2] /\ 1 \in Role
      BY RoleFacts
    <2>2. builder = [pc |-> "hash", r |-> 1, hashes |-> h]
      BY Zenon DEF StageInit
    <2> HIDE DEF h
    <2> QED BY <2>1, <2>2 DEF BuilderRow
  <1>4. /\ stager \in StagerRow /\ stager.pc = "idle" /\ stager.call = "none" /\ stager.r = 1
        /\ stager.cap.manifest = {}
    <2>1. stager = [pc |-> "idle", call |-> "none", r |-> 1, digest |-> 0, cap |-> NoCapability,
                    written |-> {}]
      BY Zenon DEF StageInit
    <2>2. {} \in SUBSET Blob /\ 0 \in 0..2 /\ 1 \in Role
      BY RoleFacts
    <2> QED BY <2>1, <2>2, NoCapabilityRow DEF StagerRow
  <1>5. deployed \in DeployedRow /\ deployed.approved = {}
    <2>1. deployed \in Deployments
      BY Zenon DEF StageInit
    <2>2. PICK R \in SUBSET Role, v \in Version : deployed.roles = [r \in R |-> v]
      BY <2>1 DEF Deployments
    <2>3. deployed.roles \in [R -> Version]
      BY <2>2
    <2>4. deployed.roles \in UNION {[Q -> Version] : Q \in SUBSET Role}
      BY <2>2, <2>3
    <2>5. /\ deployed = [config |-> deployed.config, roles |-> deployed.roles,
                         schema |-> deployed.schema, approved |-> deployed.approved]
          /\ deployed.config = 1 /\ deployed.schema = 1 /\ deployed.approved = {}
      BY <2>1 DEF Deployments
    <2> QED BY <2>4, <2>5 DEF DeployedRow
  <1>6. StageTypeOK /\ AfterBuild
    BY <1>1, <1>2, <1>3, <1>4, <1>5, Zenon DEF StageTypeOK, AfterBuild
  <1>7. StageCalls /\ Rechecked
    BY <1>4, Zenon DEF StageCalls, Rechecked, Holding
  <1>8. HeldRoles /\ Binding
    BY <1>4, Zenon DEF HeldRoles, AllHeld, Binding, Granted, Filling, Holding
  <1> QED BY <1>6, <1>7, <1>8 DEF StageInv

\* Every step of staging, and every edit from outside, keeps the invariant.
LEMMA StageNextInv == StageInv /\ [StageNext]_stageVars => StageInv'
  <1> SUFFICES ASSUME StageInv, [StageNext]_stageVars PROVE StageInv'
    OBVIOUS
  <1>1. CASE UNCHANGED stageVars
    <2>1. StageTypeOK' /\ AfterBuild' /\ UNCHANGED stageVars
      BY <1>1, Zenon DEF stageVars, StageInv, StageTypeOK, AfterBuild
    <2> QED BY <2>1, OwnerStep, Zenon DEF stageVars
  <1>2. CASE StageNext
    BY <1>2, BuilderStep, WriteManifestInv, OwnerSteps, WriteBlobInv, OpenSteps, StageManifestInv,
       VerifySteps, OpenRoleInv, CheckRoleInv, RehashSteps, RoleHandleInv, EndSteps DEF StageNext
  <1> QED BY <1>1, <1>2

\* Every reachable state has the invariant.
THEOREM StageInvariant == StageSpec => []StageInv
  BY StageInitInv, StageNextInv, PTL DEF StageSpec

\* A capability is for the approved manifest and for the digests that the
\* configuration expects (stage, validate_config_bindings).
THEOREM StagedApproved == StageSpec => []StagedIsApproved
  <1>1. StageInv => StagedIsApproved
    BY DEF StageInv, Binding, Granted, StagedIsApproved
  <1> QED BY <1>1, StageInvariant, PTL

\* What a call returns is what the manifest says (verify_held, role_handle).
THEOREM VerifiedCurrent == StageSpec => VerifiedIsCurrent
  <1> DEFINE Step ==
        stager.pc = "return" /\ stager'.pc = "idle" =>
          \A r \in Role :
             /\ HeldBlob(r) \in stager.written \/ blob[HeldBlob(r)].text = Parsed.roles[r]
             /\ \A q \in Role : HeldBlob(r) = HeldBlob(q) => r = q
  <1>1. ASSUME StageInv PROVE Step
    BY <1>1, Zenon DEF StageInv, Rechecked, CurrentTo, HeldRoles, OwnTo, AllHeld, Holding, Role
  <1> HIDE DEF Step
  <1>2. StageInv => [Step]_stageVars
    BY <1>1
  <1> QED BY <1>2, StageInvariant, PTL DEF VerifiedIsCurrent, Step
===============================================================================
