----------------------------- MODULE CsiInstall -----------------------------
(***************************************************************************)
(* csi install --execute: gives every guest its node.yaml, deploys the     *)
(* nas-csi manifest, creates a static volume and a smoke pod per export,   *)
(* and checks that they survive restarts of the pods and of the plugin and *)
(* that an unknown export fails.  The first step that fails ends the       *)
(* command, and nothing is taken back.                                     *)
(***************************************************************************)
EXTENDS Cluster

\* verify_csi_install_inputs
CsiInputsOK(c) ==
    /\ DOMAIN c.exports # {}
    /\ \A p \in DOMAIN c.exports : \E n \in DOMAIN c.nodes : Assigned(c, n, p)

WithoutRestart(c) ==                    \* a mutant of CsiSteps
    PerNode(c, <<"yaml">>) \o PerNode(c, <<"yaml-checked">>)
    \o StepsOf(<<"deploy", "rollout", "static", "mounts", "smoke", "served", "delete-smoke", "smoke",
               "served", "rollout", "served", "probe", "delete-probe", "served">>, 0)
CsiSteps(c) ==
    PerNode(c, <<"yaml">>) \o PerNode(c, <<"yaml-checked">>)
    \o StepsOf(<<"deploy", "rollout", "static", "mounts",
               "smoke", "served",                           \* ready, and mounted
               "delete-smoke", "smoke", "served",           \* verify_smoke_pod_restart
               "restart", "rollout", "served",              \* verify_node_plugin_restart
               "probe", "delete-probe",                     \* verify_missing_export_fails_closed
               "served">>, 0)                               \* read-only, entries

\* Names of the objects of the manifests collide with those of ResourceName.
VolumesOf(c) == [p \in DOMAIN c.exports |-> c.exports[p]]
Distinct(c) == \A p, q \in DOMAIN c.exports : ResourceName[p] = ResourceName[q] => p = q

CsiHolds(step) ==
    LET c == run.config
        n == step[2]
    IN  CASE step[1] = "yaml" -> HasAgent(n)
          [] step[1] = "yaml-checked" -> HasAgent(n) /\ guest[n].given.yaml = RuntimeConfig(c, n)
          [] step[1] = "rollout" -> HostApi /\ \A k \in cluster.nodes : NodeReady(k) /\ IsLoaded(k)
          [] step[1] = "static" ->            \* volumes cannot be changed once they exist
                /\ HostApi /\ Distinct(c)
                /\ cluster.volumes \in {Unset, VolumesOf(c)}
          [] step[1] = "mounts" ->
                \A k \in DOMAIN c.nodes, p \in DOMAIN c.exports : Assigned(c, k, p) => Mounted(c, k, p)
          [] step[1] = "served" -> HostApi /\ \A p \in DOMAIN c.exports : Served(c, p)
          [] step[1] \in {"deploy", "smoke", "delete-smoke", "restart", "probe", "delete-probe"} ->
                HostApi

StepInstallYaml(step) ==
    /\ step[1] = "yaml"
    /\ guest' = [guest EXCEPT ![step[2]].given.yaml = RuntimeConfig(run.config, step[2])]
    /\ UNCHANGED <<cluster, files>>

\* The manifest is applied again, but no marker tells it.
StepDeploy(step) ==
    /\ step[1] = "deploy"
    /\ cluster' = [cluster EXCEPT !.manifests["nas-csi"] = packaged]
    /\ guest' = IF cluster.manifests["nas-csi"] # packaged THEN Unloaded ELSE guest
    /\ UNCHANGED files

StepStatic(step) ==
    /\ step[1] = "static"
    /\ cluster' = [cluster EXCEPT !.volumes = VolumesOf(run.config)]
    /\ UNCHANGED <<guest, files>>

StepPods(step) ==
    /\ step[1] \in {"smoke", "delete-smoke", "probe", "delete-probe"}
    /\ cluster' = [cluster EXCEPT !.pods =
          CASE step[1] = "smoke" -> @ \cup {"smoke"}
            [] step[1] = "delete-smoke" -> @ \ {"smoke"}
            [] step[1] = "probe" -> @ \cup {"probe"}
            [] step[1] = "delete-probe" -> @ \ {"probe"}]
    /\ UNCHANGED <<guest, files>>

StepRestartPlugins(step) == step[1] = "restart" /\ guest' = Unloaded /\ UNCHANGED <<cluster, files>>

StepVerify(step) ==
    step[1] \in {"yaml-checked", "rollout", "mounts", "served"} /\ UNCHANGED world

CsiStep(step) ==
    \/ StepInstallYaml(step) \/ StepDeploy(step) \/ StepStatic(step) \/ StepPods(step)
    \/ StepRestartPlugins(step) \/ StepVerify(step)

\* The outcome of deleting the probe is not looked at.
Ignored(step) == step[1] = "delete-probe"

CsiKinds == {"yaml", "yaml-checked", "deploy", "rollout", "static", "mounts", "smoke", "served",
             "delete-smoke", "restart", "probe", "delete-probe"}
=============================================================================
