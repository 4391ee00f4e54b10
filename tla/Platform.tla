------------------------------ MODULE Platform ------------------------------
(***************************************************************************)
(* An operator runs the cluster, csi and workload commands of the host     *)
(* agent, one at a time and in any order, while guests boot, stop and lose *)
(* labels, the configuration is edited and packages are upgraded.          *)
(***************************************************************************)
EXTENDS Workload

CONSTANT MaxNodes   \* the most nodes a configuration of the instance has

Init == WorldInit /\ run = Idle

Commands == {"apply", "install", "check", "csi", "workload"}

\* The command loads the configuration and the manifests.  A node the operator
\* wants rebooted counts as one that somebody stops.
Begin(command, node) ==
    /\ run = Idle
    /\ ValidHostConfig(config)
    /\ command = "csi" => CsiInputsOK(config)
    /\ command = "workload" => WorkloadInputsOK(config)
    /\ IF node = Unset THEN NoFault ELSE command = "install" /\ Happens("meddle")
    /\ run' = [command |-> command, todo |-> <<<<"plan", node>>>>, config |-> config,
               hash |-> HashOf(packaged), failing |-> FALSE]
    /\ UNCHANGED <<config, packaged, world>>

StepsFor(command, node) ==
    CASE command = "apply" -> PlanNow(run.config, run.hash)
      [] command = "install" -> InstallSteps(PlanNow(run.config, run.hash), node)
      [] command = "check" -> <<<<"verify", 0>>>>
      [] command = "csi" -> CsiSteps(run.config)
      [] command = "workload" -> WorkloadSteps(run.config)

Busy == run # Idle /\ run.todo # <<>>
Planning == Busy /\ Head(run.todo)[1] = "plan"

\* Then it inspects, and plans.
MakePlan ==
    /\ Planning
    /\ run' = [run EXCEPT !.todo = StepsFor(run.command, Head(@)[2])]
    /\ UNCHANGED <<faults, config, packaged, world>>

Holds(step) ==
    CASE step[1] \in ClusterKinds -> ClusterHolds(step)
      [] step[1] \in CsiKinds -> CsiHolds(step)
      [] step[1] \in WorkloadKinds -> WorkloadHolds(step)

Effect(step) == ClusterStep(step) \/ CsiStep(step) \/ WorkloadStep(step)

\* Steps that follow and are skipped take no time.
Continue(step) ==
    \E k \in 2..(Len(run.todo) + 1) :
        /\ \A j \in 2..(k - 1) : run.todo[j] = Skip
        /\ k =< Len(run.todo) => run.todo[k] # Skip
        /\ run' = [run EXCEPT !.todo = Following(step) \o SubSeq(@, k, Len(@))]
Abort(step) == run' = [run EXCEPT !.todo = Cleanup(step), !.failing = TRUE]

Work ==
    /\ Busy /\ ~Planning
    /\ LET step == Head(run.todo)
       IN  Holds(step) /\ Effect(step) /\ Continue(step)
    /\ UNCHANGED <<faults, config, packaged>>

\* The step reports an error, or what it waits for does not come in time.
StepFails ==
    /\ Busy /\ ~Planning
    /\ LET step == Head(run.todo)
       IN  /\ ~Holds(step)
           /\ IF Ignored(step) THEN Continue(step) ELSE Abort(step)
    /\ UNCHANGED <<faults, config, packaged, world>>

\* It fails all the same, done or not; removing the sentinel ignores that.
StepBreaks ==
    /\ Busy /\ ~Planning
    /\ Happens("fail")
    /\ LET step == Head(run.todo)
       IN  /\ Holds(step) /\ step # Skip
           /\ Effect(step) \/ UNCHANGED world
           /\ IF Ignored(step) \/ step[1] = "remove" THEN Continue(step) ELSE Abort(step)
    /\ UNCHANGED <<config, packaged>>

Finish ==
    /\ run # Idle /\ run.todo = <<>>
    /\ run' = Idle
    /\ UNCHANGED <<faults, config, packaged, world>>

Kill ==
    /\ run # Idle
    /\ Happens("crash")
    /\ run' = Idle
    /\ UNCHANGED <<config, packaged, world>>

Next ==
    \/ \E command \in Commands, node \in Nodes \cup {Unset} : Begin(command, node)
    \/ MakePlan \/ Work \/ StepFails \/ StepBreaks \/ Finish \/ Kill
    \/ Environment

Spec == Init /\ [][Next]_vars

\* Guests boot, clusters form, every wait of a command has a deadline, and the
\* operator applies the cluster again whenever there is a chance to.
Fairness ==
    /\ \A n \in 1..MaxNodes : WF_vars(n \in Nodes /\ Progress(n))
    /\ WF_vars(MakePlan \/ Work \/ StepFails) /\ WF_vars(Finish)
    /\ SF_vars(Begin("apply", Unset))

FairSpec == Spec /\ Fairness
-----------------------------------------------------------------------------
(***************************************************************************)
(* Type invariant.                                                         *)
(***************************************************************************)
PlatformTypeOK ==
    /\ FaultsTypeOK
    /\ packaged \in Nat \ {0}
    /\ \A n \in Nodes :
          /\ guest[n].state \in {"off", "boot", "up", "serving"}
          /\ HasAgent(n) => guest[n].given.done
          /\ IsLoaded(n) => guest[n].state = "serving" /\ ValidRuntimeConfig(guest[n].plugin.config)
    /\ cluster.nodes \subseteq Nodes
    /\ cluster.manifests \in [Addons -> 0..packaged]
    /\ cluster.pods \subseteq {"smoke", "probe", "workload"}
    /\ files.kubeconfig \in {"none", "stale", "current"}
    /\ files.open \subseteq {"token", "kubeconfig"}
    /\ files.marker \in [Addons -> 0..packaged]
    /\ Busy /\ ~Planning => Head(run.todo)[1] \in ClusterKinds \cup CsiKinds \cup WorkloadKinds

(***************************************************************************)
(* The marker of a manifest tells the truth: when it names the packaged    *)
(* version, that version is in the cluster.  A cluster rebuilt from        *)
(* nothing breaks this.                                                    *)
(***************************************************************************)
MarkersTrue ==
    faults["rebuild"] = 0 =>
        \A m \in Addons : files.marker[m] = packaged => cluster.manifests[m] = packaged

(***************************************************************************)
(* When csi install completes, no node plugin runs with another            *)
(* configuration than the one it installed, although it rewrites node.yaml *)
(* under running plugins.                                                  *)
(***************************************************************************)
Completes(command) ==
    run # Idle /\ run.command = command /\ run.todo = <<>> /\ ~run.failing

PluginsCurrent ==
    Completes("csi") =>
        \A n \in Nodes : IsLoaded(n) => guest[n].plugin.config = RuntimeConfig(run.config, n)

(***************************************************************************)
(* A node plugin refuses its node.yaml only when two exports of the node   *)
(* got the same tag or the same path: everything else it asks for, the     *)
(* validation of the configuration has asked for before.                   *)
(***************************************************************************)
PluginsStart ==
    \A n \in Nodes : guest[n].plugin = Refused =>
        \/ faults["edit"] > 0
        \/ \E p, q \in Names : /\ p # q
                               /\ \/ config.exports[p].tag = config.exports[q].tag
                                  \/ Segment[p] = Segment[q]

(***************************************************************************)
(* workload validate leaves no sentinel file in a dataset, also when it    *)
(* fails; unless it is killed or removing the file fails.                  *)
(***************************************************************************)
SentinelRemoved ==
    run = Idle /\ faults["crash"] + faults["fail"] = 0 => ~files.sentinel

(***************************************************************************)
(* As long as nobody stops a guest and no cluster is rebuilt, a command    *)
(* starts a joining node only when the API of the first server answers.    *)
(***************************************************************************)
JoinsFollowFirst ==
    [][faults["meddle"] + faults["rebuild"] = 0 /\ Busy =>
        \A n \in Nodes \ {First} :
            guest[n].state = "off" /\ guest'[n].state = "boot" => HostApi]_vars

(***************************************************************************)
(* An operator who applies the cluster again ends up with one on which     *)
(* nothing is left to do, as long as the configuration is valid and the    *)
(* cluster is not rebuilt under an old kubeconfig.                         *)
(***************************************************************************)
ClusterConverges ==
    <>[](\/ ~ValidHostConfig(config) \/ files.kubeconfig = "stale"
         \/ IsCurrent(PlanNow(config, HashOf(packaged))))

(***************************************************************************)
(* A cluster install that completes has its manifests in the cluster       *)
(* (docs/operations/runbooks/cluster-rebuild.md: run cluster install       *)
(* --execute to bootstrap k3s and reinstall substrate manifests).          *)
(***************************************************************************)
InstalledManifestsPresent ==
    Completes("install") => \A m \in run.config.addons : cluster.manifests[m] # 0
=============================================================================
