---------------------------- MODULE ClusterPlan ----------------------------
(***************************************************************************)
(* The planner of the cluster: crates/cluster-manager.                     *)
(*                                                                         *)
(* plan_cluster_reconcile lists the steps that bring up k3s on the node    *)
(* VMs of a HostConfig, in their order, and decides from an inspection     *)
(* which of them are already done.  A step is its kind with the position   *)
(* of its node, or with its manifest.                                      *)
(***************************************************************************)
EXTENDS Intent

\* The server that initializes the cluster, or else the first server.
Initial(c, n) == c.nodes[n].role = "server" /\ c.nodes[n].clusterInit
FirstServer(c) ==
    CHOOSE n \in DOMAIN c.nodes :
        \/ Initial(c, n) /\ \A k \in 1..(n - 1) : ~Initial(c, k)
        \/ /\ \A k \in DOMAIN c.nodes : ~Initial(c, k)
           /\ c.nodes[n].role = "server" /\ \A k \in 1..(n - 1) : c.nodes[k].role # "server"

StepsOf(kinds, subject) == [k \in DOMAIN kinds |-> <<kinds[k], subject>>]

\* The steps of those kinds for every one of the subjects, one after the other.
ForEach(kinds, subjects) ==
    [k \in 1..(Len(kinds) * Len(subjects)) |->
        <<kinds[((k - 1) % Len(kinds)) + 1], subjects[((k - 1) \div Len(kinds)) + 1]>>]

PerNode(c, kinds) == ForEach(kinds, [n \in 1..Len(c.nodes) |-> n])

\* Every node but the first server, in their order.
Joining(c) == [j \in 1..(Len(c.nodes) - 1) |-> IF j < FirstServer(c) THEN j ELSE j + 1]

JoinsOnlyAwaited(c) == ForEach(<<"wait">>, Joining(c))      \* a mutant of JoinSteps
JoinSteps(c) == ForEach(<<"start", "wait", "url">>, Joining(c))

\* load_cluster_manifests
Manifests(c) ==
    (IF "metrics-server" \in c.addons THEN <<"metrics-server">> ELSE <<>>)
    \o (IF "nas-csi" \in c.addons THEN <<"nas-csi">> ELSE <<>>)
ManifestSteps(c) == [k \in DOMAIN Manifests(c) |-> <<"manifest", Manifests(c)[k]>>]

\* a is the inspection: [token, kubeconfig, api, node, marker]; hash tells the
\* contents of the packaged manifests.  Only an agent that is told no server URL
\* waits for the API at the end: the step url of any other node stands for none.
AlreadyCorrect(c, hash, a, step) ==
    LET n == step[2]
    IN  CASE step[1] = "token" -> a.token
          [] step[1] = "start" -> a.node[n].running
          [] step[1] = "wait" -> a.node[n].k3s
          [] step[1] = "kubeconfig" -> a.kubeconfig
          [] step[1] = "api" -> a.api
          [] step[1] = "url" -> c.nodes[n].server \/ c.nodes[n].role = "server"
          [] step[1] = "ready" -> a.node[n].ready
          [] step[1] = "labels" -> c.nodes[n].labels \subseteq a.node[n].marks
          [] step[1] = "taints" -> c.nodes[n].taints \subseteq a.node[n].marks
          [] step[1] = "manifest" -> a.marker[step[2]] = hash[step[2]]

\* A step that is already correct stays in the plan, to be skipped.
Skip == <<"skip", 0>>
Decided(c, hash, a, steps) ==
    [k \in DOMAIN steps |-> IF AlreadyCorrect(c, hash, a, steps[k]) THEN Skip ELSE steps[k]]

FirstSteps(c) == StepsOf(<<"token", "start", "wait", "kubeconfig", "api">>, FirstServer(c))
NodeSteps(c) == PerNode(c, <<"ready", "labels", "taints">>)

JoinsEarly(c, hash, a) ==               \* a mutant of PlanCluster
    Decided(c, hash, a, JoinSteps(c)) \o Decided(c, hash, a, FirstSteps(c))
    \o Decided(c, hash, a, NodeSteps(c)) \o Decided(c, hash, a, ManifestSteps(c))
PlanCluster(c, hash, a) ==
    Decided(c, hash, a, FirstSteps(c)) \o Decided(c, hash, a, JoinSteps(c))
    \o Decided(c, hash, a, NodeSteps(c)) \o Decided(c, hash, a, ManifestSteps(c))

IsCurrent(plan) == \A k \in DOMAIN plan : plan[k] = Skip
=============================================================================
