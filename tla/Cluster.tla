------------------------------ MODULE Cluster ------------------------------
(***************************************************************************)
(* The cluster commands of the host agent: cluster apply, cluster install  *)
(* (which verifies what it did and may reboot a node), and its             *)
(* --post-reboot-check.                                                    *)
(*                                                                         *)
(* A run inspects, plans and executes the steps of its plan one by one.    *)
(* It takes no lock and undoes nothing.  A step is a pair of its kind and  *)
(* its subject; Holds tells whether it succeeds, an operator named Step... *)
(* what it does.                                                           *)
(***************************************************************************)
EXTENDS Guests

\* inspect_cluster_actual_state
Inspected ==
    [token |-> files.token, kubeconfig |-> files.kubeconfig # "none", api |-> HostApi,
     node |-> [n \in Nodes |->
                [running |-> guest[n].state # "off", k3s |-> guest[n].state = "serving",
                 ready |-> HostApi /\ NodeReady(n),
                 marks |-> IF HostApi THEN cluster.marks[n] ELSE {}]],
     marker |-> files.marker]

HashOf(version) == [m \in Addons |-> version]
PlanNow(c, hash) == PlanCluster(c, hash, Inspected)

\* Three steps of a plan are two operations each: a secret file is written and
\* then made private, a manifest is applied and then recorded.
Following(step) ==
    CASE step[1] = "manifest" -> <<<<"record", step[2]>>>>
      [] step[1] \in {"token", "kubeconfig"} -> <<<<"hide", step[1]>>>>
      [] OTHER -> <<>>

\* Without a reboot, node is Unset.
InstallSteps(plan, node) ==
    Append(plan, <<"verify", 0>>)
    \o (IF node = Unset THEN <<>>
        ELSE <<<<"reboot", node>>, <<"wait", node>>, <<"api", node>>, <<"ready", node>>, <<"state", 0>>>>)

(***************************************************************************)
(* verify_cluster_install_state, and the plan after it.                    *)
(***************************************************************************)
Marked(c, n) == c.nodes[n].labels \cup c.nodes[n].taints \subseteq cluster.marks[n]

StateVerified(c, hash) ==
    /\ files.token /\ files.kubeconfig # "none" /\ files.open = {}
    /\ HostApi
    /\ \A n \in DOMAIN c.nodes : NodeReady(n) /\ Marked(c, n)
    /\ \A m \in c.addons : files.marker[m] = hash[m]

ClusterHolds(step) ==
    LET n == step[2]
    IN  CASE step[1] \in {"skip", "token", "hide", "record"} -> TRUE
          [] step[1] = "start" -> guest[n].state = "off"
          [] step[1] = "reboot" -> guest[n].state # "off"
          [] step[1] \in {"wait", "kubeconfig"} -> guest[n].state = "serving"
          [] step[1] \in {"api", "url", "manifest"} -> HostApi
          [] step[1] = "ready" -> HostApi /\ NodeReady(n)
          [] step[1] \in {"labels", "taints"} -> HostApi /\ n \in cluster.nodes
          [] step[1] = "state" -> StateVerified(run.config, run.hash)
          [] step[1] = "verify" -> /\ StateVerified(run.config, run.hash)
                                   /\ IsCurrent(PlanNow(run.config, run.hash))

(***************************************************************************)
(* The effects of the steps.                                               *)
(***************************************************************************)
StepWriteSecret(step) ==
    /\ step[1] \in {"token", "kubeconfig"}
    /\ files' = IF step[1] = "token"
                THEN [files EXCEPT !.token = TRUE, !.open = @ \cup {"token"}]
                ELSE [files EXCEPT !.kubeconfig = "current", !.open = @ \cup {"kubeconfig"}]
    /\ UNCHANGED <<guest, cluster>>

StepHide(step) ==
    /\ step[1] = "hide"
    /\ files' = [files EXCEPT !.open = @ \ {step[2]}]
    /\ UNCHANGED <<guest, cluster>>

StepStart(step) ==
    /\ step[1] \in {"start", "reboot"}
    /\ guest' = [guest EXCEPT ![step[2]].state = "boot", ![step[2]].plugin = NoPlugin]
    /\ UNCHANGED <<cluster, files>>

StepMark(step) ==
    /\ step[1] \in {"labels", "taints"}
    /\ cluster' = [cluster EXCEPT !.marks[step[2]] = @ \cup run.config.nodes[step[2]][step[1]]]
    /\ UNCHANGED <<guest, files>>

\* A changed nas-csi manifest makes its DaemonSet start the node plugins anew.
Unloaded == [n \in Nodes |-> [guest[n] EXCEPT !.plugin = NoPlugin]]

StepApplyManifest(step) ==
    /\ step[1] = "manifest"
    /\ cluster' = [cluster EXCEPT !.manifests[step[2]] = packaged]
    /\ guest' = IF step[2] = "nas-csi" /\ cluster.manifests[step[2]] # packaged THEN Unloaded ELSE guest
    /\ UNCHANGED files

\* The hash is that of the manifest as it was when the command began.
RecordCurrent(step) ==                  \* a mutant of StepRecord
    /\ step[1] = "record"
    /\ files' = [files EXCEPT !.marker[step[2]] = HashOf(packaged)[step[2]]]
    /\ UNCHANGED <<guest, cluster>>
StepRecord(step) ==
    /\ step[1] = "record"
    /\ files' = [files EXCEPT !.marker[step[2]] = run.hash[step[2]]]
    /\ UNCHANGED <<guest, cluster>>

StepLook(step) ==
    step[1] \in {"skip", "wait", "api", "url", "ready", "state", "verify"} /\ UNCHANGED world

ClusterStep(step) ==
    \/ StepWriteSecret(step) \/ StepHide(step) \/ StepStart(step) \/ StepMark(step)
    \/ StepApplyManifest(step) \/ StepRecord(step) \/ StepLook(step)

ClusterKinds == {"skip", "token", "hide", "record", "start", "reboot", "wait", "kubeconfig", "api",
                 "url", "manifest", "ready", "labels", "taints", "state", "verify"}
=============================================================================
