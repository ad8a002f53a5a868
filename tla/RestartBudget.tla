----------------------------- MODULE RestartBudget -----------------------------
(***************************************************************************)
(* The restart accounting of one component: the rows of restart_events     *)
(* (storage_components.rs) and the restart decision of the policy          *)
(* (policy.rs).  A row carries the clock epoch of the store that wrote it  *)
(* and the monotonic time since that store was opened; a store that is     *)
(* opened again starts a new epoch at zero and cannot compare the old rows *)
(* with its own clock.  The backoff is measured on the wall clock, which   *)
(* the host may move at any time.                                          *)
(***************************************************************************)
EXTENDS Naturals, FiniteSets

CONSTANTS
    Budget,          \* restart_budget_count
    Window,          \* restart_budget_window
    Base, Cap,       \* restart_backoff_base and restart_backoff_cap
    Samples,         \* what the digest of component and attempt may sample
    RestartEnabled,  \* the component's restart flag
    MaxTime,         \* bound: last instant of a behaviour
    MaxEpoch         \* bound: number of times the store is opened

\* validate: budget, window, base and cap are positive and base is at most cap.
ASSUME BudgetAssumption ==
    /\ Budget \in Nat \ {0} /\ Window \in Nat \ {0}
    /\ Base \in Nat \ {0} /\ Cap \in Nat /\ Base <= Cap
    /\ Samples \subseteq Nat
    /\ RestartEnabled \in BOOLEAN /\ MaxTime \in Nat /\ MaxEpoch \in Nat

VARIABLES
    now,       \* the time that really passes
    wall,      \* the wall clock
    epoch,     \* restart_clock_epoch
    opened,    \* when the store was opened
    events,    \* the rows of restart_events
    row,       \* state, restart_attempts, last_restart_at_ms, the pass's clock
    startTimes \* every start that was recorded, for the properties

budgetVars == <<now, wall, epoch, opened, events, row, startTimes>>

Event == [epoch : Nat, elapsed : Nat, id : Nat, at : Nat]

Row == [state : {"Stopped", "Admitted", "Recorded", "Running", "Quarantined"},
        attempts : Nat, started : BOOLEAN, last : Nat, pass : Nat]

Elapsed == now - opened
Monus(a, b) == IF a >= b THEN a - b ELSE 0
Smaller(a, b) == IF a <= b THEN a ELSE b

\* Mutant: rows of earlier epochs are dropped from the count.
CountedThisEpoch(elapsed) ==
    {e \in events : e.epoch = epoch /\ e.elapsed >= Monus(elapsed, Window)}

\* The rows restart_count counts.
Counted(elapsed) ==
    {e \in events : e.epoch # epoch \/ e.elapsed >= Monus(elapsed, Window)}

\* The power of two of an attempt, cut off where Exponential cuts it off anyway.
Pow2[n \in Nat] == IF n = 0 THEN 1 ELSE Smaller(2 * Pow2[n - 1], Cap)

Exponential(attempt) == Smaller(Base * Pow2[Smaller(attempt, 31)], Cap)

\* backoff_delay_ms.
Delay(attempt, sample) ==
    LET exponential == Exponential(attempt)
        spread == exponential \div 4
    IN  IF spread = 0 THEN exponential
        ELSE Smaller(exponential - spread + (sample % (2 * spread + 1)), Cap)

-----------------------------------------------------------------------------

BudgetInit ==
    /\ now = 0 /\ wall = 0 /\ epoch = 0 /\ opened = 0
    /\ events = {} /\ startTimes = {}
    /\ row = [state |-> "Stopped", attempts |-> 0, started |-> FALSE, last |-> 0, pass |-> 0]

\* Time passes; the wall clock may be set to anything meanwhile.
Tick ==
    /\ now < MaxTime /\ now' = now + 1
    /\ wall' \in 0..MaxTime
    /\ UNCHANGED <<epoch, opened, events, row, startTimes>>

\* A daemon opens the store: a fresh clock epoch, and elapsed time from zero.
\* A start the last daemon did not finish is cleaned up by the recovery.
Reopen ==
    /\ epoch < MaxEpoch /\ epoch' = epoch + 1 /\ opened' = now
    /\ row' = [row EXCEPT !.state = IF @ \in {"Admitted", "Recorded"} THEN "Stopped" ELSE @]
    /\ UNCHANGED <<now, wall, events, startTimes>>

\* The process exits and its row is written.
Exits ==
    /\ row.state = "Running" /\ row' = [row EXCEPT !.state = "Stopped"]
    /\ UNCHANGED <<now, wall, epoch, opened, events, startTimes>>

\* restart_decision, first two tests: autonomous relaunch ends here.
Exhaust ==
    /\ row.state = "Stopped"
    /\ ~RestartEnabled \/ Cardinality(Counted(Elapsed)) >= Budget
    /\ row' = [row EXCEPT !.state = "Quarantined"]
    /\ UNCHANGED <<now, wall, epoch, opened, events, startTimes>>

\* restart_decision, last test: the pass goes on to start the component, with
\* the wall clock it began with.
Admit ==
    /\ row.state = "Stopped" /\ RestartEnabled
    /\ Cardinality(Counted(Elapsed)) < Budget
    /\ row.started => \E sample \in Samples : wall >= row.last + Delay(row.attempts, sample)
    /\ row' = [row EXCEPT !.state = "Admitted", !.pass = wall]
    /\ UNCHANGED <<now, wall, epoch, opened, events, startTimes>>

\* record_restart: rows of this epoch that left the window are deleted, the
\* new row is stamped with a time that does not go back.
RecordRestart ==
    /\ row.state = "Admitted"
    /\ LET own == {e.elapsed : e \in {e \in events : e.epoch = epoch}}
           observed == CHOOSE t \in own \cup {Elapsed} : \A u \in own \cup {Elapsed} : u <= t
           cutoff == Monus(observed, Window)
           event == [epoch |-> epoch, elapsed |-> observed, id |-> row.attempts + 1, at |-> now]
       IN  /\ events' = {e \in events : e.epoch = epoch => e.elapsed >= cutoff} \cup {event}
           /\ startTimes' = startTimes \cup {event}
    /\ row' = [row EXCEPT !.state = "Recorded"]
    /\ UNCHANGED <<now, wall, epoch, opened>>

\* The component row, written after the event; the launch follows.
MarkStarting ==
    /\ row.state = "Recorded"
    /\ row' = [state |-> "Running", attempts |-> row.attempts + 1, started |-> TRUE,
               last |-> row.pass, pass |-> 0]
    /\ UNCHANGED <<now, wall, epoch, opened, events, startTimes>>

BudgetNext ==
    Tick \/ Reopen \/ Exits \/ Exhaust \/ Admit \/ RecordRestart \/ MarkStarting

BudgetSpec == BudgetInit /\ [][BudgetNext]_budgetVars

-----------------------------------------------------------------------------

\* The variables keep their types.
BudgetTypeOK ==
    /\ now \in Nat /\ wall \in Nat /\ epoch \in Nat /\ opened \in 0..now
    /\ events \subseteq Event /\ startTimes \subseteq Event
    /\ row \in Row

Recent == {s \in startTimes : s.at + Window >= now}

\* However often the daemon is restarted and whatever happens to the wall
\* clock, no window of the configured length holds more starts than the budget.
BudgetHolds == IsFiniteSet(Recent) /\ Cardinality(Recent) <= Budget

\* Although rows of earlier epochs are never deleted, the table never holds
\* more rows of a component than the budget: they use the budget up for good.
TableIsBounded == IsFiniteSet(events) /\ Cardinality(events) <= Budget
==============================================================================
