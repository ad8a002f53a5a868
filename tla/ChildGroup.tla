------------------------------ MODULE ChildGroup ------------------------------
(***************************************************************************)
(* The portable process adapter (process/child, identity, observation): a  *)
(* child is the leader of a process group of its own, and the group's      *)
(* number is an authority only while the leader is not reaped.  A step is  *)
(* one system call: signalling the group, the non-reaping waitid, the look *)
(* through /proc, the reap.                                                *)
(*                                                                         *)
(* The kernel is external: a number is given out again only when neither a *)
(* process nor a group has it, and killed processes do not fork.           *)
(***************************************************************************)
EXTENDS Naturals

CONSTANT MaxForks   \* bound on the processes the leader starts

ASSUME GroupAssumption == MaxForks \in Nat

VARIABLES
    pgroup,   \* the leader, the others of its group, and who has its number
    owned,    \* OwnedChild and the call in progress
    reached   \* what the last signal to the group's number was delivered to

groupVars == <<pgroup, owned, reached>>

Calls == {"try_wait", "wait", "terminate", "drop"}

GroupInit ==
    /\ pgroup = [leader |-> "none", doomed |-> FALSE, kid |-> "none", forks |-> 0,
                reused |-> FALSE]
    /\ owned = [pc |-> "validate", call |-> "spawn", armed |-> FALSE, result |-> "none"]
    /\ reached = "none"

-----------------------------------------------------------------------------
(* The group. *)

ForkKid ==
    /\ pgroup.leader = "alive" /\ ~pgroup.doomed /\ pgroup.kid = "none" /\ pgroup.forks < MaxForks
    /\ pgroup' = [pgroup EXCEPT !.kid = "alive", !.forks = @ + 1]
    /\ UNCHANGED <<owned, reached>>

LeaderEnds ==
    /\ pgroup.leader = "alive" /\ pgroup' = [pgroup EXCEPT !.leader = "zombie"]
    /\ UNCHANGED <<owned, reached>>

KidEnds ==
    /\ pgroup.kid # "none" /\ pgroup' = [pgroup EXCEPT !.kid = "none"]
    /\ UNCHANGED <<owned, reached>>

\* Another process becomes the leader of a group with the same number.
Reuse ==
    /\ pgroup.leader = "reaped" /\ pgroup.kid = "none" /\ ~pgroup.reused
    /\ pgroup' = [pgroup EXCEPT !.reused = TRUE]
    /\ UNCHANGED <<owned, reached>>

\* observe_child_exit: waitid without reaping.
SeenExited == pgroup.leader = "zombie"

\* group_has_other_members: /proc without the leader.
OtherMembers == pgroup.kid # "none"

\* test_kill_process_group.
GroupExists == pgroup.leader \in {"alive", "zombie"} \/ pgroup.kid # "none" \/ pgroup.reused

\* ensure_identity: the creation fingerprint and the executable of the number.
EnsureIdentity == pgroup.leader \in {"alive", "zombie"}

\* signal_process_group.
SignalGroup ==
    IF pgroup.reused
    THEN reached' = "foreign" /\ UNCHANGED pgroup
    ELSE /\ reached' = IF GroupExists THEN "own" ELSE "nobody"
         /\ pgroup' = [pgroup EXCEPT !.doomed = @ \/ pgroup.leader = "alive",
                                   !.kid = IF @ = "alive" THEN "doomed" ELSE @]

-----------------------------------------------------------------------------
(* The calls. *)

GroupAt(pc) == owned.pc = pc
GroupGoes(pc) == owned' = [owned EXCEPT !.pc = pc]
Returns(result) == owned' = [owned EXCEPT !.pc = "held", !.result = result]
Ends(result) == owned' = [owned EXCEPT !.pc = "end", !.result = result]

\* What a failed step of the call leads to.
CallFails ==
    CASE owned.call = "spawn" -> GroupGoes("abort")
      [] owned.call = "drop"  -> GroupGoes("killchild")
      [] OTHER                -> Returns("error")

\* ProcessGroupAuthority::kill.
GroupKill(next) ==
    \/ owned.armed /\ SignalGroup /\ GroupGoes(next)
    \/ CallFails /\ UNCHANGED <<pgroup, reached>>

\* spawn_with_cleanup_status: validation, the digest, and the spawn in a new
\* group.
SpawnChild ==
    /\ GroupAt("validate")
    /\ \/ /\ pgroup' = [pgroup EXCEPT !.leader = "alive"]
          /\ owned' = [owned EXCEPT !.pc = "observe", !.armed = TRUE]
       \/ Ends("ordinary") /\ UNCHANGED pgroup
    /\ UNCHANGED reached

\* observe_child_exit and ensure_spawn_identity; a failure aborts the child.
SpawnVerify ==
    /\ GroupAt("observe")
    /\ \/ Returns("none")
       \/ GroupGoes("groupkill")
    /\ UNCHANGED <<pgroup, reached>>

\* A caller begins a call on a child it holds.
Begin(call) ==
    /\ GroupAt("held")
    /\ owned' = [owned EXCEPT !.call = call, !.result = "none", !.pc =
          CASE call \in {"try_wait", "wait"} -> "look"
            [] call = "terminate" -> IF owned.armed THEN "check" ELSE "gone"
            [] call = "drop"      -> IF owned.armed THEN "groupkill" ELSE "end"]
    /\ UNCHANGED <<pgroup, reached>>

\* try_wait and wait: the exit is observed, and then the group is cleaned.
Look ==
    /\ GroupAt("look")
    /\ \/ SeenExited /\ GroupGoes("cleanup")
       \/ /\ pgroup.leader = "alive" /\ EnsureIdentity
          /\ IF owned.call = "wait" THEN UNCHANGED owned ELSE Returns("none")
       \/ CallFails
    /\ UNCHANGED <<pgroup, reached>>

\* terminate: a leader still running is checked before its group is killed.
CheckThenKill ==
    /\ GroupAt("check")
    /\ \/ SeenExited /\ GroupGoes("cleanup")
       \/ pgroup.leader = "alive" /\ EnsureIdentity /\ GroupGoes("groupkill")
       \/ CallFails
    /\ UNCHANGED <<pgroup, reached>>

KillGroup == GroupAt("groupkill") /\ GroupKill("exit")

\* wait_for_child_exit, and the wait of terminate.
WaitForChild ==
    /\ GroupAt("exit")
    /\ (SeenExited /\ GroupGoes("cleanup")) \/ CallFails
    /\ UNCHANGED <<pgroup, reached>>

\* cleanup_before_reap: signal, and look for members, until there are none.
CleanupSignal == GroupAt("cleanup") /\ GroupKill("members")

CleanupMembers ==
    /\ GroupAt("members")
    /\ \/ GroupGoes(IF OtherMembers THEN "cleanup" ELSE "reapchild")
       \/ CallFails
    /\ UNCHANGED <<pgroup, reached>>

\* Mutant: the authority stays armed.
ReapStillArmed ==
    /\ GroupAt("reapchild")
    /\ pgroup' = [pgroup EXCEPT !.leader = "reaped"]
    /\ GroupGoes("gone") /\ UNCHANGED reached

\* Child::wait of an exited child, and disarm_after_reap.
ReapLeader ==
    /\ GroupAt("reapchild")
    /\ pgroup' = [pgroup EXCEPT !.leader = "reaped"]
    /\ owned' = [owned EXCEPT !.pc = "gone", !.armed = FALSE]
    /\ UNCHANGED reached

\* wait_gone_after_reap: read-only; a number in use again is a time-out.
WaitGone ==
    /\ GroupAt("gone")
    /\ \/ /\ ~GroupExists
          /\ CASE owned.call = "spawn" -> Ends("ordinary")
               [] owned.call = "drop"  -> Ends("none")
               [] OTHER                -> Returns("clean")
       \/ IF owned.call = "drop" THEN Ends("none") ELSE CallFails
    /\ UNCHANGED <<pgroup, reached>>

\* abort_spawned_child after a cleanup without proof: the group once more, if
\* the authority is armed, and the child itself.
AbortChild ==
    /\ GroupAt("abort")
    /\ IF owned.armed THEN SignalGroup ELSE UNCHANGED <<pgroup, reached>>
    /\ Ends("uncertain")

\* Drop without a proof: the child alone is killed and nothing is reaped.
DropKillsChild ==
    /\ GroupAt("killchild")
    /\ pgroup' = [pgroup EXCEPT !.doomed = @ \/ pgroup.leader = "alive"]
    /\ Ends("none") /\ UNCHANGED reached

GroupNext ==
    \/ ForkKid \/ LeaderEnds \/ KidEnds \/ Reuse
    \/ SpawnChild \/ SpawnVerify \/ Look \/ CheckThenKill \/ KillGroup \/ WaitForChild
    \/ CleanupSignal \/ CleanupMembers \/ ReapLeader \/ WaitGone \/ AbortChild \/ DropKillsChild
    \/ \E call \in Calls : Begin(call)

GroupSpec == GroupInit /\ [][GroupNext]_groupVars

-----------------------------------------------------------------------------
(* Properties. *)

\* No signal reaches a group that was given the number after the leader was
\* reaped, whatever calls follow a reap whose final proof failed.
GroupSignalIsOwned == reached # "foreign"
================================================================================
