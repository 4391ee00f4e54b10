------------------------------- MODULE Guests -------------------------------
(***************************************************************************)
(* What the cluster, csi and workload commands of the host agent act upon: *)
(* the guests of the node VMs, the Kubernetes cluster that runs in them,   *)
(* and the files of the host; with what happens to them on their own.      *)
(*                                                                         *)
(* The guests and the cluster are not code of this repository: they are    *)
(* modelled from how the host agent observes and drives them.  A guest     *)
(* gets node.yaml and its fstab from cloud-init, once, when it boots from  *)
(* a fresh disk; its node plugin reads node.yaml once, when it starts.     *)
(***************************************************************************)
EXTENDS ClusterPlan, FaultMixes

CONSTANTS Intents, Found, Selections    \* what host-install may be given

ASSUME IntentsAssumption == \A i \in Intents : i.servers \in Nat /\ i.agents \in Nat

ASSUME FaultKindsAssumption ==
    {"crash", "fail", "meddle", "edit", "upgrade", "rebuild"} \subseteq FaultKinds

VARIABLES
    config,     \* /etc/nas-csi/host.yaml
    packaged,   \* version of the installed deploy manifests
    guest,      \* per node VM: [state, given, plugin]
    cluster,    \* what Kubernetes stores: [nodes, marks, manifests, volumes, pods]
    files,      \* on the host: [token, kubeconfig, open, marker, sentinel]
    run         \* the command in progress: [command, todo, config, hash, failing]

Idle == [command |-> "none"]

world == <<guest, cluster, files>>
vars == <<faults, config, packaged, world, run>>

Nodes == DOMAIN config.nodes
Names == DOMAIN config.exports
First == FirstServer(config)

\* off; boot: no guest agent yet; up: guest agent, no k3s; serving: k3s active.
NotGiven == [done |-> FALSE]
Given(yaml, fstab) == [done |-> TRUE, yaml |-> yaml, fstab |-> fstab]
NoPlugin == [state |-> "none"]
Refused == [state |-> "refused"]        \* a node plugin that did not start
Running(yaml) == [state |-> "running", config |-> yaml]
Off == [state |-> "off", given |-> NotGiven, plugin |-> NoPlugin]
EmptyCluster(c) ==
    [nodes |-> {}, marks |-> [n \in DOMAIN c.nodes |-> {}],
     manifests |-> [m \in Addons |-> 0], volumes |-> Unset, pods |-> {}]

WorldInit ==
    /\ FaultsInit
    /\ \E i \in Intents, h \in Found, s \in Selections :
          /\ Materializes(i, Discover(h), s)
          /\ config = HostConfigFrom(i, Discover(h), s)
    /\ packaged = 1
    /\ guest = [n \in Nodes |-> Off]
    /\ cluster = EmptyCluster(config)
    /\ files = [token |-> FALSE, kubeconfig |-> "none", open |-> {},
                marker |-> [m \in Addons |-> 0], sentinel |-> FALSE]

(***************************************************************************)
(* What can be observed.                                                   *)
(***************************************************************************)
HasAgent(n) == guest[n].state \in {"up", "serving"}
ApiUp == guest[First].state = "serving"
HostApi == files.kubeconfig = "current" /\ ApiUp
NodeReady(n) == n \in cluster.nodes /\ guest[n].state = "serving"
IsLoaded(n) == guest[n].plugin.state = "running"

\* The guest mounted the export of that name, from its tag, where the plugin looks.
Mounted(c, n, p) ==
    /\ HasAgent(n)
    /\ \E mount \in guest[n].given.fstab : mount.tag = c.exports[p].tag /\ mount.path = Segment[p]

Assigned(c, n, p) == \E e \in DOMAIN c.nodes[n].exports : c.nodes[n].exports[e] = p
NodeForExport(c, p) ==                  \* the first one
    CHOOSE n \in DOMAIN c.nodes : Assigned(c, n, p) /\ \A k \in 1..(n - 1) : ~Assigned(c, k, p)

\* A pod on the volume of export p starts, and sees the export.
Served(c, p) ==
    LET n == NodeForExport(c, p)
    IN  NodeReady(n) /\ IsLoaded(n) /\ p \in IdsOf(guest[n].plugin.config) /\ Mounted(c, n, p)

(***************************************************************************)
(* Guests boot, k3s starts, nodes register, the node plugin starts.        *)
(***************************************************************************)
Boot(n) ==
    /\ guest[n].state = "boot"
    /\ guest' = [guest EXCEPT
          ![n].state = "up",
          ![n].given = IF @.done THEN @ ELSE Given(RuntimeConfig(config, n), GuestMounts(config, n))]
    /\ UNCHANGED <<faults, config, packaged, cluster, files, run>>

Serve(n) ==
    /\ guest[n].state = "up"
    /\ n = First \/ ApiUp
    /\ guest' = [guest EXCEPT ![n].state = "serving"]
    /\ UNCHANGED <<faults, config, packaged, cluster, files, run>>

\* k3s registers its node with the labels and taints of its configuration.
Register(n) ==
    /\ guest[n].state = "serving" /\ ApiUp
    /\ n \notin cluster.nodes
    /\ cluster' = [cluster EXCEPT !.nodes = @ \cup {n},
                                  !.marks[n] = config.nodes[n].labels \cup config.nodes[n].taints]
    /\ UNCHANGED <<faults, config, packaged, guest, files, run>>

StartUnchecked(n) ==                    \* a mutant of StartPlugin
    /\ NodeReady(n) /\ cluster.manifests["nas-csi"] # 0
    /\ ~IsLoaded(n)
    /\ guest' = [guest EXCEPT ![n].plugin = Running(guest[n].given.yaml)]
    /\ UNCHANGED <<faults, config, packaged, cluster, files, run>>
StartPlugin(n) ==
    /\ NodeReady(n) /\ cluster.manifests["nas-csi"] # 0
    /\ ~IsLoaded(n)
    /\ LET yaml == guest[n].given.yaml
           plugin == IF ValidRuntimeConfig(yaml) THEN Running(yaml) ELSE Refused
       IN  /\ plugin # guest[n].plugin
           /\ guest' = [guest EXCEPT ![n].plugin = plugin]
    /\ UNCHANGED <<faults, config, packaged, cluster, files, run>>

(***************************************************************************)
(* Somebody else: a guest stops or loses a label, the configuration is     *)
(* edited, a new package is installed, the cluster is rebuilt from nothing *)
(* (docs/operations/runbooks/cluster-rebuild.md), with or without the old  *)
(* kubeconfig.                                                             *)
(***************************************************************************)
Meddle(n) ==
    /\ Happens("meddle")
    /\ \/ /\ guest[n].state # "off"
          /\ guest' = [guest EXCEPT ![n].state = "off", ![n].plugin = NoPlugin]
          /\ UNCHANGED cluster
       \/ /\ cluster.marks[n] # {}
          /\ cluster' = [cluster EXCEPT !.marks[n] = {}]
          /\ UNCHANGED guest
    /\ UNCHANGED <<config, packaged, files, run>>

Other(access) == IF access = "read-only" THEN "read-write" ELSE "read-only"

EditConfig(p) ==
    /\ Happens("edit")
    /\ config' \in {[config EXCEPT !.exports[p].access = Other(@)],
                    [config EXCEPT !.exports[p].tag = Blank]}
    /\ UNCHANGED <<packaged, world, run>>

Upgrade ==
    /\ Happens("upgrade")
    /\ packaged' = packaged + 1
    /\ UNCHANGED <<config, world, run>>

Rebuild ==
    /\ run = Idle
    /\ files.kubeconfig # "none"
    /\ Happens("rebuild")
    /\ guest' = [n \in Nodes |-> Off]
    /\ cluster' = EmptyCluster(config)
    /\ \E kubeconfig \in {"none", "stale"} : files' = [files EXCEPT !.kubeconfig = kubeconfig]
    /\ UNCHANGED <<config, packaged, run>>

Progress(n) == Boot(n) \/ Serve(n) \/ Register(n) \/ StartPlugin(n)

Environment ==
    \/ \E n \in Nodes : Progress(n) \/ Meddle(n)
    \/ \E p \in Names : EditConfig(p)
    \/ Upgrade \/ Rebuild
=============================================================================
