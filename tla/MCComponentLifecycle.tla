------------------------ MODULE MCComponentLifecycle ------------------------
(* One component with three launch nonces; the Linux launch it asks for,    *)
(* with two launches; the Windows service it runs in, installed twice.  The *)
(* three share no variable: a behaviour is of one of them.                  *)
EXTENDS ComponentLifecycle, LinuxLaunch, WindowsService

VARIABLE scenario

mcVars == <<scenario, lifecycleVars, launchVars, serviceVars>>

\* The initial choices of the parts that stand still are fixed.
MCInit ==
    /\ scenario \in {"lifecycle", "launch", "service"}
    /\ LifecycleInit /\ LaunchInit /\ ServiceInit
    /\ scenario # "lifecycle" => record.adoptable /\ desiredMode = "Stopped"
    /\ scenario # "launch" => store.kind = "plain"
    /\ scenario # "service" => owner.admin

\* Fresh nonces are alike: a launch takes the first of them.
Fresh(n) == n \notin Unsettled \cup Alive \cup Named \cup {sup.n}
FirstFreshTaken == \A m, n \in Launches : m < n /\ Fresh(m) /\ Fresh(n) => Fresh(n)'

MCNext ==
    /\ UNCHANGED scenario
    /\ \/ /\ scenario = "lifecycle" /\ LifecycleNext /\ FirstFreshTaken
          /\ UNCHANGED <<launchVars, serviceVars>>
       \/ scenario = "launch" /\ LaunchNext /\ UNCHANGED <<lifecycleVars, serviceVars>>
       \/ scenario = "service" /\ ServiceNext /\ UNCHANGED <<lifecycleVars, launchVars>>

On(name, A) == scenario = name /\ A

\* LifecycleFairness, LaunchFairness and ServiceFairness, each of its part.
MCFairness ==
    /\ WF_lifecycleVars(On("lifecycle", SupervisorStep))
    /\ SF_lifecycleVars(On("lifecycle", Inspect /\ sup'.pc # "end"))
    /\ SF_lifecycleVars(On("lifecycle", Stop /\ sup'.pc = "clean"))
    /\ SF_lifecycleVars(On("lifecycle", Clean /\ intents' # intents))
    /\ \A n \in Nonce : /\ WF_launchVars(On("launch", HelperExecs(n)))
                        /\ WF_launchVars(On("launch", leader[n].doomed /\ LeaderExits(n)))
    /\ WF_launchVars(On("launch", LaunchStep))
    /\ WF_launchVars(On("launch", StopStep)) /\ WF_launchVars(On("launch", RecoveryStep))
    /\ WF_serviceVars(On("service", HandlerSetsFlag)) /\ WF_serviceVars(On("service", HandlerPublishes))
    /\ WF_serviceVars(On("service", RegisterHandler)) /\ WF_serviceVars(On("service", Readiness))
    /\ WF_serviceVars(On("service", PublishRunning)) /\ WF_serviceVars(On("service", CommitStop))
    /\ WF_serviceVars(On("service", Pass)) /\ WF_serviceVars(On("service", PublishStopped))
    /\ WF_serviceVars(On("service", ServiceExits))
    /\ SF_serviceVars(On("service", LoopEnds \/ (LoopFails /\ service'.pc = "failed")))

MCSpec == MCInit /\ [][MCNext]_mcVars /\ MCFairness
=============================================================================
