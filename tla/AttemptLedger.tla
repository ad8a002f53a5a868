---------------------------- MODULE AttemptLedger ----------------------------
(***************************************************************************)
(* What the job store promises about executions, whatever the callers do:  *)
(* one deployment runs one attempt at a time; an attempt is begun only     *)
(* when every earlier attempt of its job is known to have failed; and an   *)
(* outcome, once known, is final.  An attempt whose outcome is not known   *)
(* (the daemon died, an operator quarantined it) stays open: it is never   *)
(* assumed not to have run.                                                *)
(***************************************************************************)
EXTENDS Integers

CONSTANTS Jobs, MaxAttempts

VARIABLE outcome    \* outcome[j][n] for attempt n of job j

Numbers == 1 .. MaxAttempts

Init == outcome = [j \in Jobs |-> [n \in Numbers |-> "none"]]

Begin(j, n) ==
    /\ \A k \in Jobs, m \in Numbers : outcome[k][m] # "open"
    /\ \A m \in 1 .. (n - 1) : outcome[j][m] = "failed"
    /\ outcome[j][n] = "none"
    /\ outcome' = [outcome EXCEPT ![j][n] = "open"]

Settle(j, n, o) ==
    /\ outcome[j][n] = "open"
    /\ outcome' = [outcome EXCEPT ![j][n] = o]

Next == \E j \in Jobs, n \in Numbers :
    \/ Begin(j, n)
    \/ \E o \in {"completed", "failed"} : Settle(j, n, o)

Spec == Init /\ [][Next]_outcome
==============================================================================
