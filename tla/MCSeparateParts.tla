--------------------------- MODULE MCSeparateParts ---------------------------
(* Parts that are model-checked by themselves: the Linux broker, the handoff *)
(* to a launched process, the process group of a portable child, the Windows *)
(* launch, the encodings on the way, the restart budget that admits a start, *)
(* the staging of releases, and the admin endpoint with its lock.  They      *)
(* share no variable: a behaviour is of one of them.                         *)
EXTENDS LinuxBroker, LinuxHandoff, ChildGroup, WindowsLaunch, LaunchCodec, RestartBudget,
        ReleaseStage, AdminEndpoint

VARIABLE scenario

mcVars == <<scenario, vars, handoffVars, groupVars, winVars, codecVars, budgetVars,
            stageVars, endpointVars>>

\* The initial choices of the parts that stand still are fixed.
MCInit ==
    /\ scenario \in {"broker", "handoff", "group", "windows", "codec", "budget", "stage",
                     "endpoint"}
    /\ Init /\ GroupInit /\ CodecInit /\ BudgetInit
    /\ HandoffInit
    /\ scenario # "handoff" => launch.kind = "plain" /\ launch.role = "Harness"
    /\ WinInit
    /\ scenario # "windows" => winStore.kind = "plain" /\ image.path = "released"
    /\ StageInit
    /\ scenario # "stage" => deployed.roles = [r \in Role |-> 1]
    /\ EndpointInit
    /\ scenario # "endpoint" => database = [c \in Controllers |-> "other"]

MCNext ==
    /\ UNCHANGED scenario
    /\ \/ scenario = "broker" /\ Next
       \/ scenario # "broker" /\ UNCHANGED vars
    /\ \/ scenario = "handoff" /\ HandoffNext
       \/ scenario # "handoff" /\ UNCHANGED handoffVars
    /\ \/ scenario = "group" /\ GroupNext
       \/ scenario # "group" /\ UNCHANGED groupVars
    /\ \/ scenario = "windows" /\ WinNext
       \/ scenario # "windows" /\ UNCHANGED winVars
    /\ \/ scenario = "codec" /\ CodecNext
       \/ scenario # "codec" /\ UNCHANGED codecVars
    /\ \/ scenario = "budget" /\ BudgetNext
       \/ scenario # "budget" /\ UNCHANGED budgetVars
    /\ \/ scenario = "stage" /\ StageNext
       \/ scenario # "stage" /\ UNCHANGED stageVars
    /\ \/ scenario = "endpoint" /\ EndpointNext
       \/ scenario # "endpoint" /\ UNCHANGED endpointVars

MCSpec == MCInit /\ [][MCNext]_mcVars
==============================================================================
