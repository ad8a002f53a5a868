--------------------------- MODULE ReleaseSelector ---------------------------
(***************************************************************************)
(* Release activation: the durable selector (storage_release/), the admin  *)
(* dispatch that moves it in two transactions around a check of the        *)
(* release's bytes (runtime_admin.rs), and the launch gate that reads it   *)
(* (runtime/lifecycle.rs).  The receipts go to the operator ledger.        *)
(*                                                                         *)
(* A release stands for its id and manifest digest.  A dispatch runs on    *)
(* the owning loop, so nothing but a process death and the release files   *)
(* can move between its steps.                                             *)
(***************************************************************************)
EXTENDS OperatorLedger

CONSTANTS
    Releases,    \* releases of the catalog
    NoRelease,   \* no release
    MaxSends,    \* bound on the requests sent
    MaxCrashes   \* bound on the process deaths

ASSUME ReleaseAssumption ==
    /\ NoRelease \notin Releases
    /\ [release : Releases \cup {NoRelease}, rollback : BOOLEAN] \subseteq Args
    /\ Ids = 1 .. MaxSends /\ MaxSends \in Nat /\ MaxCrashes \in Nat

VARIABLES
    selector,  \* the metadata rows of the selector
    good,      \* releases whose protected bytes verify now
    running,   \* the release the live children were started under, or NoRelease
    dispatch,  \* the activation the loop is working on, and how far it is
    reply,     \* what the last caller was told
    sent,      \* ghost: requests sent so far
    crashes    \* ghost: process deaths so far

releaseVars == <<selector, good, running, dispatch, reply, sent, crashes>>
vars == <<ledgerVars, releaseVars>>

MaybeRelease == Releases \cup {NoRelease}
NoArgs == [release |-> NoRelease, rollback |-> FALSE]
NoMarker == [none |-> TRUE]
Marker == [release : Releases, rollback : BOOLEAN, key : Keys, id : Ids,
           previous : MaybeRelease]
Selector == [state : {"none", "prepared", "active"},
             active : MaybeRelease, previous : MaybeRelease,
             pending : Marker \cup {NoMarker}]

Resting == [phase |-> "idle"]
InDispatch == [phase : {"validated", "prepared", "verified"},
               request : Request, prior : MaybeRelease]
NoReply == [status |-> "none"]

Init ==
    /\ LedgerInit
    /\ selector = [state |-> "none", active |-> NoRelease, previous |-> NoRelease,
                   pending |-> NoMarker]
    /\ good = Releases
    /\ running = NoRelease
    /\ dispatch = Resting
    /\ reply = NoReply
    /\ sent = 0
    /\ crashes = 0

Pending == selector.pending
IsPending == Pending # NoMarker

\* The dispatch ends and its caller is told the status.
Answer(r, status) ==
    /\ dispatch' = Resting
    /\ reply' = [status |-> status, request |-> r]

-----------------------------------------------------------------------------
(* dispatch_release_activation. *)

\* A caller's request reaches the loop.  The client of this repository makes a
\* new request id for every attempt; another may send an old frame again.
Arrives(r) ==
    /\ dispatch.phase = "idle"
    /\ sent < MaxSends
    /\ r.id <= sent + 1
    /\ sent' = sent + 1

\* The receipt of an earlier request with this key answers it.
AnswerFromReceipt(r) ==
    /\ Arrives(r)
    /\ KeyUsed(r.key)
    /\ Answer(r, IF Replays(r) THEN "ok" ELSE "conflict")
    /\ UNCHANGED <<ledgerVars, selector, good, running, crashes>>

\* validate_release_activation.
Admissible(a) ==
    /\ desiredMode = "Stopped"
    /\ running = NoRelease
    /\ IF IsPending THEN Pending.release = a.release /\ Pending.rollback = a.rollback
       ELSE IF a.rollback THEN selector.previous = a.release
       ELSE selector.active # a.release
    /\ a.release \in good

Validate(r) ==
    /\ Arrives(r)
    /\ ~KeyUsed(r.key)
    /\ IF Admissible(r.args)
       THEN /\ dispatch' = [phase |-> "validated", request |-> r, prior |-> selector.active]
            /\ UNCHANGED reply
       ELSE Answer(r, "refused")
    /\ UNCHANGED <<ledgerVars, selector, good, running, crashes>>

\* The marker is of this very request.
MarkerIsOf(r) ==
    /\ Pending.release = r.args.release /\ Pending.rollback = r.args.rollback
    /\ Pending.id = r.id /\ Pending.key = r.key

\* The marker write_pending stores.
MarkerFor(r) ==
    [release |-> r.args.release, rollback |-> r.args.rollback,
     key |-> r.key, id |-> r.id, previous |-> selector.active]

\* Mutant: a marker of another request is overwritten.
PrepareOverwriting ==
    /\ dispatch.phase = "validated"
    /\ LET r == dispatch.request
       IN  /\ desiredMode = "Stopped"
           /\ ~KeyUsed(r.key) /\ ~IdUsed(r.id)
           /\ IF r.args.rollback
              THEN selector.previous = r.args.release /\ selector.active # NoRelease
              ELSE selector.active # r.args.release
           /\ AuditHasRoom("ordinary")
           /\ selector' = [selector EXCEPT !.state = "prepared", !.pending = MarkerFor(r)]
    /\ audit' = Append(audit, "ordinary")
    /\ dispatch' = [dispatch EXCEPT !.phase = "prepared"]
    /\ UNCHANGED <<ledger, jobs, desiredMode, good, running, reply, sent, crashes>>

\* prepare_release_activation: the marker and an ordinary audit row.
Prepare ==
    /\ dispatch.phase = "validated"
    /\ LET r == dispatch.request
       IN  /\ desiredMode = "Stopped" /\ ~IsPending
           /\ ~KeyUsed(r.key) /\ ~IdUsed(r.id)
           /\ IF r.args.rollback
              THEN selector.previous = r.args.release /\ selector.active # NoRelease
              ELSE selector.active # r.args.release
           /\ AuditHasRoom("ordinary")
           /\ selector' = [selector EXCEPT !.state = "prepared", !.pending = MarkerFor(r)]
    /\ audit' = Append(audit, "ordinary")
    /\ dispatch' = [dispatch EXCEPT !.phase = "prepared"]
    /\ UNCHANGED <<ledger, jobs, desiredMode, good, running, reply, sent, crashes>>

\* prepare_release_activation, when the same request was prepared before.
PrepareAgain ==
    /\ dispatch.phase = "validated"
    /\ desiredMode = "Stopped"
    /\ IsPending /\ MarkerIsOf(dispatch.request)
    /\ dispatch' = [dispatch EXCEPT !.phase = "prepared"]
    /\ UNCHANGED <<ledgerVars, selector, good, running, reply, sent, crashes>>

\* A marker is there and it is not of this request, or the request id is taken.
PrepareConflict ==
    /\ dispatch.phase = "validated"
    /\ \/ IsPending /\ ~MarkerIsOf(dispatch.request)
       \/ ~IsPending /\ (IdUsed(dispatch.request.id) \/ ~AuditHasRoom("ordinary"))
    /\ Answer(dispatch.request, "conflict")
    /\ UNCHANGED <<ledgerVars, selector, good, running, sent, crashes>>

\* verify_release_manifest, the final check.  When it fails the marker stays.
Verify ==
    /\ dispatch.phase = "prepared"
    /\ IF dispatch.request.args.release \in good
       THEN /\ dispatch' = [dispatch EXCEPT !.phase = "verified"]
            /\ UNCHANGED reply
       ELSE Answer(dispatch.request, "refused")
    /\ UNCHANGED <<ledgerVars, selector, good, running, sent, crashes>>

\* What complete_release_activation checks; the response names the release
\* that was active when the request was validated.
Completable(r, prior) ==
    /\ Fresh(r)
    /\ IsPending /\ MarkerIsOf(r)
    /\ prior = Pending.previous
    /\ selector.active = Pending.previous
    /\ AuditHasRoom("command")

\* Mutant: the rollback target is not moved.
SelectKeepingPrevious(release) ==
    [selector EXCEPT !.state = "active", !.active = release, !.pending = NoMarker]

\* write_active and clear_pending.
Select(release) ==
    [selector EXCEPT !.state = "active", !.active = release,
                     !.previous = Pending.previous, !.pending = NoMarker]

\* complete_release_activation: selector, receipt and audit row in one commit.
Complete ==
    /\ dispatch.phase = "verified"
    /\ LET r == dispatch.request
       IN  /\ Completable(r, dispatch.prior)
           /\ selector' = Select(r.args.release)
           /\ Record(r, 0)
           /\ Answer(r, "ok")
    /\ audit' = Append(audit, "command")
    /\ UNCHANGED <<jobs, desiredMode, good, running, sent, crashes>>

CompleteRefused ==
    /\ dispatch.phase = "verified"
    /\ ~Completable(dispatch.request, dispatch.prior)
    /\ Answer(dispatch.request, "refused")
    /\ UNCHANGED <<ledgerVars, selector, good, running, sent, crashes>>

-----------------------------------------------------------------------------
(* The rest of the system. *)

\* Another admin command of the same loop.
OtherCommand(r) ==
    /\ Arrives(r)
    /\ AdmitCommand(r)
    /\ Answer(r, "ok")
    /\ UNCHANGED <<selector, good, running, crashes>>

\* start_component behind release_start_gate.
Launch ==
    /\ dispatch.phase = "idle"
    /\ desiredMode = "Running"
    /\ selector.active # NoRelease /\ selector.active \in good
    /\ running' = selector.active
    /\ UNCHANGED <<ledgerVars, selector, good, dispatch, reply, sent, crashes>>

\* The last child is reaped and every intent and handoff is settled.
Settle ==
    /\ dispatch.phase = "idle"
    /\ running # NoRelease
    /\ running' = NoRelease
    /\ UNCHANGED <<ledgerVars, selector, good, dispatch, reply, sent, crashes>>

\* A release directory is damaged, retired or put back.
CatalogChange ==
    /\ \E g \in SUBSET Releases : good' = g
    /\ UNCHANGED <<ledgerVars, selector, running, dispatch, reply, sent, crashes>>

\* The process dies.  Children may outlive it; they are settled later.
Crash ==
    /\ crashes < MaxCrashes
    /\ crashes' = crashes + 1
    /\ dispatch' = Resting
    /\ reply' = NoReply
    /\ UNCHANGED <<ledgerVars, selector, good, running, sent>>

Next ==
    \/ \E k \in Keys, d \in Ids, a \in [release : Releases, rollback : BOOLEAN] :
          LET r == [key |-> k, id |-> d, name |-> "release_activate", args |-> a]
          IN  AnswerFromReceipt(r) \/ Validate(r)
    \/ \E k \in Keys, d \in Ids, n \in {"start", "stop"} :
          OtherCommand([key |-> k, id |-> d, name |-> n, args |-> NoArgs])
    \/ Prepare \/ PrepareAgain \/ PrepareConflict \/ Verify \/ Complete \/ CompleteRefused
    \/ Launch \/ Settle
    \/ CatalogChange
    \/ Crash

Spec == Init /\ [][Next]_vars

-----------------------------------------------------------------------------
(* Properties. *)

\* The selector rows hold releases, and the dispatch is at a step of its own.
ReleaseTypeOK ==
    /\ selector \in Selector
    /\ good \subseteq Releases
    /\ running \in MaybeRelease
    /\ dispatch \in {Resting} \cup InDispatch

\* Wherever the process dies, the next one can read the selector: read_selection
\* finds none of the mixtures it rejects as corruption, and a marker was made
\* for the release that is still active.
SelectorIsReadable ==
    /\ selector.state = "prepared" <=> IsPending
    /\ selector.state = "active" => selector.active # NoRelease
    /\ selector.state = "none" => selector.active = NoRelease
    /\ IsPending => Pending.previous = selector.active

\* Children never run under a release other than the selected one: a selection
\* does not change under them, not even after a death between its two
\* transactions.
ChildrenRunTheSelection == running # NoRelease => running = selector.active

\* The receipts of activations, and the newest of some receipts.
Activations == {i \in DOMAIN ledger : ledger[i].name = "release_activate"}
IsNewest(i, rows) == i \in rows /\ \A j \in rows : j <= i

\* The release that was activated last by one of these receipts.
ActivatedBy(rows, release) ==
    /\ rows = {} => release = NoRelease
    /\ \A i \in rows : IsNewest(i, rows) => release = ledger[i].args.release

\* The selected release and the rollback target are those of the last two
\* receipts: selection, rollback target and receipt are one durable decision.
SelectionMatchesReceipts ==
    /\ ActivatedBy(Activations, selector.active)
    /\ \A i \in Activations : IsNewest(i, Activations) =>
          ActivatedBy(Activations \ {i}, selector.previous)
    /\ Activations = {} => selector.previous = NoRelease

\* A marker is neither dropped nor replaced until its release is selected, and
\* the selection changes in no other way, only while the deployment is durably
\* stopped and nothing of it is left running.
MarkerIsHonoured ==
    [][/\ IsPending =>
            \/ selector'.pending = Pending
            \/ selector'.pending = NoMarker /\ selector'.active = Pending.release
       /\ selector'.active # selector.active =>
            IsPending /\ desiredMode = "Stopped" /\ running = NoRelease]_vars
==============================================================================
