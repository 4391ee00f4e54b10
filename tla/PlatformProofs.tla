--------------------------- MODULE PlatformProofs ---------------------------
(***************************************************************************)
(* Proofs about Platform, for all intents, hosts, selections and numbers   *)
(* of nodes and faults: its type, and what its commands leave behind.      *)
(*                                                                         *)
(* The effects of the steps of a command come first, field by field; then  *)
(* the order of the steps in what a command has still to do, which the     *)
(* planners establish and every step preserves; then one section for each  *)
(* property.                                                               *)
(***************************************************************************)
EXTENDS Platform, SequenceTheorems, TLAPS

-----------------------------------------------------------------------------
(***************************************************************************)
(* The shape of the records the state is made of.                          *)
(***************************************************************************)
GuestFields == {"state", "given", "plugin"}
GuestsShaped(g, S) == DOMAIN g = S /\ \A n \in S : DOMAIN g[n] = GuestFields

WorldShape ==
    /\ DOMAIN config = {"profile", "nodes", "exports", "addons"}
    /\ Len(config.nodes) \in Nat /\ Nodes = 1..Len(config.nodes)
    /\ GuestsShaped(guest, Nodes)
    /\ \A n \in Nodes : guest[n].given.done =>
            DOMAIN guest[n].given = {"done", "yaml", "fstab"}
    /\ DOMAIN cluster = {"nodes", "marks", "manifests", "volumes", "pods"}
    /\ DOMAIN files = {"token", "kubeconfig", "open", "marker", "sentinel"}

RunShape ==
    run # Idle =>
        /\ DOMAIN run = {"command", "todo", "config", "hash", "failing"}
        /\ run.command \in Commands
        /\ run.hash \in [Addons -> 0..packaged]
        /\ run.config.nodes = config.nodes

-----------------------------------------------------------------------------
(***************************************************************************)
(* What a command has still to do.                                         *)
(***************************************************************************)
StepKinds == ClusterKinds \cup CsiKinds \cup WorkloadKinds

\* Subjects of steps, whatever they are.
Subjects(c) ==
    {0, Unset, "token", "kubeconfig", FirstServer(c)} \cup Addons
    \cup 1..Len(c.nodes) \cup {Joining(c)[j] : j \in 1..(Len(c.nodes) - 1)}
    \cup {Selected(c, access) : access \in Accesses}

Steps(c) == (StepKinds \cup {"plan"}) \X Subjects(c)

\* The command has not planned yet.
Unplanned(todo) == Len(todo) = 1 /\ todo[1][1] = "plan"

OnAddons(todo) ==
    \A k \in 1..Len(todo) : todo[k][1] \in {"manifest", "record"} => todo[k][2] \in Addons

\* A sentinel that is written is looked for and removed before anything else.
SentinelSeen(todo) ==
    \A k \in 1..Len(todo) :
        /\ todo[k][1] = "sentinel" => k < Len(todo) /\ todo[k + 1][1] = "guests-see"
        /\ todo[k][1] = "guests-see" => k < Len(todo) /\ todo[k + 1][1] = "pod-sees"
        /\ todo[k][1] = "pod-sees" => k < Len(todo) /\ todo[k + 1][1] = "remove"

\* Every node.yaml is written before the plugins are restarted.
RestartedAfter(todo) ==
    \A k \in 1..Len(todo) :
        /\ todo[k][1] = "yaml" => \E j \in (k + 1)..Len(todo) : todo[j][1] = "restart"
        /\ todo[k][1] = "restart" => \A j \in (k + 1)..Len(todo) : todo[j][1] # "yaml"

Ordered(todo) ==
    /\ \A k \in 1..Len(todo) : todo[k][1] \in StepKinds
    /\ \A k \in 2..Len(todo) : todo[k][1] # "record"
    /\ OnAddons(todo) /\ SentinelSeen(todo) /\ RestartedAfter(todo)

TodoTyped == run # Idle => run.todo \in Seq(Steps(run.config))
TodoOrdered ==
    run # Idle => \/ Unplanned(run.todo) /\ run.todo[1][2] \in Nodes \cup {Unset}
                  \/ Ordered(run.todo)

\* The type invariant but for what the order of the steps tells.
GuestsTyped ==
    \A n \in Nodes :
        /\ guest[n].state \in {"off", "boot", "up", "serving"}
        /\ HasAgent(n) => guest[n].given.done
        /\ IsLoaded(n) => guest[n].state = "serving" /\ ValidRuntimeConfig(guest[n].plugin.config)
StoresTyped ==
    /\ cluster.nodes \subseteq Nodes
    /\ cluster.manifests \in [Addons -> 0..packaged]
    /\ cluster.pods \subseteq {"smoke", "probe", "workload"}
    /\ files.kubeconfig \in {"none", "stale", "current"}
    /\ files.open \subseteq {"token", "kubeconfig"}
    /\ files.marker \in [Addons -> 0..packaged]

TypeInv ==
    /\ FaultsTypeOK /\ packaged \in Nat \ {0}
    /\ GuestsTyped /\ StoresTyped /\ WorldShape
    /\ RunShape /\ TodoTyped /\ TodoOrdered

-----------------------------------------------------------------------------
(***************************************************************************)
(* The inductive invariants of the properties.                             *)
(***************************************************************************)
\* A manifest that is about to be recorded is in the cluster.
MarkersInv ==
    /\ run # Idle /\ run.todo # <<>> /\ Head(run.todo)[1] = "record" =>
            run.hash[Head(run.todo)[2]] =< cluster.manifests[Head(run.todo)[2]]
    /\ faults["rebuild"] = 0 =>
            \A m \in Addons : files.marker[m] =< cluster.manifests[m]

\* The sentinel is in a dataset only until the next steps have removed it.
SentinelInv ==
    faults["crash"] + faults["fail"] = 0 /\ files.sentinel =>
        /\ run # Idle /\ run.todo # <<>>
        /\ Head(run.todo)[1] \in {"guests-see", "pod-sees", "remove"}

\* A joining node is started after the API answered.
JoinsInv ==
    run # Idle /\ faults["meddle"] + faults["rebuild"] = 0 =>
        \A k \in 1..Len(run.todo) :
            /\ run.todo[k][1] # "reboot"
            /\ run.todo[k][1] = "plan" => run.todo[k][2] = Unset
            /\ run.todo[k][1] = "start" /\ run.todo[k][2] # First =>
                    HostApi \/ \E j \in 1..(k - 1) : run.todo[j][1] = "api"

\* As long as nobody edits it, the configuration is the one it was made from,
\* and so are all documents that were made of it.
Clash ==
    \E p, q \in Names : /\ p # q
                        /\ \/ config.exports[p].tag = config.exports[q].tag
                           \/ Segment[p] = Segment[q]
StartInv ==
    faults["edit"] = 0 =>
        /\ \E i \in Intents, h \in Found, s \in Selections :
              /\ Materializes(i, Discover(h), s)
              /\ config = HostConfigFrom(i, Discover(h), s)
        /\ run # Idle => run.config = config
        /\ \A n \in Nodes : guest[n].given.done => guest[n].given.yaml = RuntimeConfig(config, n)
        /\ \A n \in Nodes : guest[n].plugin = Refused => Clash

\* csi install: the nodes whose node.yaml is still to be written; the plugins
\* are current unless they are still to be restarted.
Installed(n) == guest[n].given.done /\ guest[n].given.yaml = RuntimeConfig(run.config, n)
CurrentInv ==
    run # Idle /\ run.command = "csi" /\ ~Unplanned(run.todo) /\ ~run.failing =>
        /\ \A n \in Nodes : Installed(n) \/ \E k \in 1..Len(run.todo) : run.todo[k] = <<"yaml", n>>
        /\ \/ \E k \in 1..Len(run.todo) : run.todo[k][1] = "restart"
           \/ \A n \in Nodes : IsLoaded(n) => guest[n].plugin.config = RuntimeConfig(run.config, n)

-----------------------------------------------------------------------------
(***************************************************************************)
(* A restart of the node plugins, node by node.                            *)
(***************************************************************************)
LEMMA UnloadedGuests ==
    ASSUME GuestsShaped(guest, Nodes)
    PROVE  /\ GuestsShaped(Unloaded, Nodes)
           /\ \A m \in Nodes : /\ Unloaded[m].state = guest[m].state
                               /\ Unloaded[m].given = guest[m].given
                               /\ Unloaded[m].plugin = NoPlugin
  BY DEF GuestsShaped, GuestFields, Unloaded

-----------------------------------------------------------------------------
(***************************************************************************)
(* The effects of the steps, field by field.                               *)
(***************************************************************************)
FilesMay(step) ==
    /\ DOMAIN files' = {"token", "kubeconfig", "open", "marker", "sentinel"}
    /\ files'.kubeconfig = IF step[1] = "kubeconfig" THEN "current" ELSE files.kubeconfig
    /\ files'.open \subseteq files.open \cup {"token", "kubeconfig"}
    /\ files'.marker = IF step[1] = "record"
                       THEN [files.marker EXCEPT ![step[2]] = run.hash[step[2]]]
                       ELSE files.marker
    /\ files'.sentinel = IF step[1] = "sentinel" THEN TRUE
                         ELSE IF step[1] = "remove" THEN FALSE ELSE files.sentinel

Applied(step) == IF step[1] = "deploy" THEN "nas-csi" ELSE step[2]
ClusterMay(step) ==
    /\ DOMAIN cluster' = {"nodes", "marks", "manifests", "volumes", "pods"}
    /\ cluster'.nodes = cluster.nodes
    /\ cluster'.manifests = IF step[1] \in {"manifest", "deploy"}
                            THEN [cluster.manifests EXCEPT ![Applied(step)] = packaged]
                            ELSE cluster.manifests
    /\ cluster'.pods \subseteq cluster.pods \cup {"smoke", "probe", "workload"}

GuestsMay(step) ==
    /\ GuestsShaped(guest', Nodes)
    /\ \A n \in Nodes :
          /\ guest'[n].state = IF step[1] \in {"start", "reboot"} /\ n = step[2]
                               THEN "boot" ELSE guest[n].state
          /\ guest'[n].given = IF step[1] = "yaml" /\ n = step[2]
                               THEN [guest[n].given EXCEPT !.yaml = RuntimeConfig(run.config, n)]
                               ELSE guest[n].given
          /\ guest'[n].plugin \in {guest[n].plugin, NoPlugin}
          /\ step[1] \in {"start", "reboot"} /\ n = step[2] => guest'[n].plugin = NoPlugin
          /\ step[1] = "restart" => guest'[n].plugin = NoPlugin

LEMMA ClusterStepMay ==
    ASSUME NEW step, WorldShape, ClusterStep(step)
    PROVE  FilesMay(step) /\ ClusterMay(step) /\ GuestsMay(step)
<1>0. /\ DOMAIN files = {"token", "kubeconfig", "open", "marker", "sentinel"}
      /\ DOMAIN cluster = {"nodes", "marks", "manifests", "volumes", "pods"}
      /\ GuestsShaped(guest, Nodes)
  BY DEF WorldShape
<1>s. guest' = guest /\ step[1] \notin {"start", "reboot", "yaml", "restart"} => GuestsMay(step)
  BY <1>0 DEF GuestsMay
<1>c. cluster' = cluster /\ step[1] \notin {"manifest", "deploy"} => ClusterMay(step)
  BY <1>0 DEF ClusterMay
<1>f. files' = files /\ step[1] \notin {"kubeconfig", "record", "sentinel", "remove"} => FilesMay(step)
  BY <1>0 DEF FilesMay
<1>1. CASE StepWriteSecret(step)
  BY <1>0, <1>1, <1>s, <1>c DEF StepWriteSecret, FilesMay
<1>2. CASE StepHide(step)
  BY <1>0, <1>2, <1>s, <1>c DEF StepHide, FilesMay
<1>3. CASE StepStart(step)
  <2>1. guest' = [guest EXCEPT ![step[2]].state = "boot", ![step[2]].plugin = NoPlugin]
    BY <1>3 DEF StepStart
  <2>2. /\ GuestsShaped(guest', Nodes)
        /\ \A n \in Nodes : /\ guest'[n].state = IF n = step[2] THEN "boot" ELSE guest[n].state
                            /\ guest'[n].given = guest[n].given
                            /\ guest'[n].plugin = IF n = step[2] THEN NoPlugin ELSE guest[n].plugin
    BY <1>0, <2>1 DEF GuestsShaped, GuestFields
  <2>3. GuestsMay(step)
    BY <1>3, <2>2 DEF GuestsMay, StepStart
  <2> QED
    BY <1>3, <2>3, <1>c, <1>f DEF StepStart
<1>4. CASE StepMark(step)
  <2>1. ClusterMay(step)
    BY <1>0, <1>4 DEF StepMark, ClusterMay
  <2> QED
    BY <1>4, <2>1, <1>s, <1>f DEF StepMark
<1>5. CASE StepApplyManifest(step)
  <2>1. ClusterMay(step)
    BY <1>0, <1>5 DEF StepApplyManifest, ClusterMay, Applied
  <2>2. guest' = Unloaded \/ guest' = guest
    BY <1>5 DEF StepApplyManifest
  <2>3. GuestsMay(step)
    BY <1>0, <1>5, <2>2, UnloadedGuests DEF GuestsMay, StepApplyManifest
  <2> QED
    BY <1>5, <2>1, <2>3, <1>f DEF StepApplyManifest
<1>6. CASE StepRecord(step)
  BY <1>0, <1>6, <1>s, <1>c DEF StepRecord, FilesMay
<1>7. CASE StepLook(step)
  BY <1>7, <1>s, <1>c, <1>f DEF StepLook, world
<1> QED
  BY <1>1, <1>2, <1>3, <1>4, <1>5, <1>6, <1>7 DEF ClusterStep

LEMMA CsiStepMay ==
    ASSUME NEW step, WorldShape, CsiStep(step)
    PROVE  FilesMay(step) /\ ClusterMay(step) /\ GuestsMay(step)
<1>0. /\ DOMAIN files = {"token", "kubeconfig", "open", "marker", "sentinel"}
      /\ DOMAIN cluster = {"nodes", "marks", "manifests", "volumes", "pods"}
      /\ GuestsShaped(guest, Nodes)
  BY DEF WorldShape
<1>s. guest' = guest /\ step[1] \notin {"start", "reboot", "yaml", "restart"} => GuestsMay(step)
  BY <1>0 DEF GuestsMay
<1>c. cluster' = cluster /\ step[1] \notin {"manifest", "deploy"} => ClusterMay(step)
  BY <1>0 DEF ClusterMay
<1>f. files' = files /\ step[1] \notin {"kubeconfig", "record", "sentinel", "remove"} => FilesMay(step)
  BY <1>0 DEF FilesMay
<1>1. CASE StepInstallYaml(step)
  <2>1. guest' = [guest EXCEPT ![step[2]].given.yaml = RuntimeConfig(run.config, step[2])]
    BY <1>1 DEF StepInstallYaml
  <2>2. /\ GuestsShaped(guest', Nodes)
        /\ \A n \in Nodes :
              /\ guest'[n].state = guest[n].state /\ guest'[n].plugin = guest[n].plugin
              /\ guest'[n].given = IF n = step[2]
                    THEN [guest[n].given EXCEPT !.yaml = RuntimeConfig(run.config, step[2])]
                    ELSE guest[n].given
    BY <1>0, <2>1 DEF GuestsShaped, GuestFields
  <2>3. GuestsMay(step)
    BY <1>1, <2>2 DEF GuestsMay, StepInstallYaml
  <2> QED
    BY <1>1, <2>3, <1>c, <1>f DEF StepInstallYaml
<1>2. CASE StepDeploy(step)
  <2>1. ClusterMay(step)
    BY <1>0, <1>2 DEF StepDeploy, ClusterMay, Applied
  <2>2. guest' = Unloaded \/ guest' = guest
    BY <1>2 DEF StepDeploy
  <2>3. GuestsMay(step)
    BY <1>0, <1>2, <2>2, UnloadedGuests DEF GuestsMay, StepDeploy
  <2> QED
    BY <1>2, <2>1, <2>3, <1>f DEF StepDeploy
<1>3. CASE StepStatic(step)
  <2>1. ClusterMay(step)
    BY <1>0, <1>3 DEF StepStatic, ClusterMay
  <2> QED
    BY <1>3, <2>1, <1>s, <1>f DEF StepStatic
<1>4. CASE StepPods(step)
  <2>1. ClusterMay(step)
    BY <1>0, <1>4 DEF StepPods, ClusterMay
  <2> QED
    BY <1>4, <2>1, <1>s, <1>f DEF StepPods
<1>5. CASE StepRestartPlugins(step)
  <2>1. GuestsMay(step)
    BY <1>0, <1>5, UnloadedGuests DEF GuestsMay, StepRestartPlugins
  <2> QED
    BY <1>5, <2>1, <1>c, <1>f DEF StepRestartPlugins
<1>6. CASE StepVerify(step)
  BY <1>6, <1>s, <1>c, <1>f DEF StepVerify, world
<1> QED
  BY <1>1, <1>2, <1>3, <1>4, <1>5, <1>6 DEF CsiStep

LEMMA WorkloadStepMay ==
    ASSUME NEW step, WorldShape, WorkloadStep(step)
    PROVE  FilesMay(step) /\ ClusterMay(step) /\ GuestsMay(step)
<1>0. /\ DOMAIN files = {"token", "kubeconfig", "open", "marker", "sentinel"}
      /\ DOMAIN cluster = {"nodes", "marks", "manifests", "volumes", "pods"}
      /\ GuestsShaped(guest, Nodes)
  BY DEF WorldShape
<1>s. guest' = guest /\ step[1] \notin {"start", "reboot", "yaml", "restart"} => GuestsMay(step)
  BY <1>0 DEF GuestsMay
<1>c. cluster' = cluster /\ step[1] \notin {"manifest", "deploy"} => ClusterMay(step)
  BY <1>0 DEF ClusterMay
<1>f. files' = files /\ step[1] \notin {"kubeconfig", "record", "sentinel", "remove"} => FilesMay(step)
  BY <1>0 DEF FilesMay
<1>1. CASE StepWorkloadPods(step)
  <2>1. ClusterMay(step)
    BY <1>0, <1>1 DEF StepWorkloadPods, ClusterMay
  <2> QED
    BY <1>1, <2>1, <1>s, <1>f DEF StepWorkloadPods
<1>2. CASE StepSentinel(step)
  BY <1>0, <1>2, <1>s, <1>c DEF StepSentinel, FilesMay
<1>3. CASE StepWatch(step)
  BY <1>3, <1>s, <1>c, <1>f DEF StepWatch, world
<1> QED
  BY <1>1, <1>2, <1>3 DEF WorkloadStep

\* What a step may do to the world, by its kind.
LEMMA EffectMay ==
    ASSUME NEW step, WorldShape, Effect(step)
    PROVE  FilesMay(step) /\ ClusterMay(step) /\ GuestsMay(step)
  BY ClusterStepMay, CsiStepMay, WorkloadStepMay DEF Effect

-----------------------------------------------------------------------------
(***************************************************************************)
(* The plans.                                                              *)
(***************************************************************************)
LEMMA ThreeForEach ==
    ASSUME NEW a, NEW b, NEW d, NEW S, NEW s \in Seq(S)
    PROVE  ForEach(<<a, b, d>>, s) \in Seq({a, b, d} \X S)
<1> DEFINE kinds == <<a, b, d>>
           index(k) == ((k - 1) % 3) + 1
           group(k) == ((k - 1) \div 3) + 1
<1>1. Len(kinds) = 3 /\ Len(s) \in Nat
  OBVIOUS
<1>2. ForEach(kinds, s) = [k \in 1..(3 * Len(s)) |-> <<kinds[index(k)], s[group(k)]>>]
  BY <1>1 DEF ForEach
<1>3. ASSUME NEW k \in 1..(3 * Len(s))
      PROVE  index(k) \in 1..3 /\ group(k) \in 1..Len(s)
  BY <1>1
<1>4. ASSUME NEW k \in 1..(3 * Len(s))
      PROVE  <<kinds[index(k)], s[group(k)]>> \in {a, b, d} \X S
  <2>1. kinds[index(k)] \in {a, b, d}
    <3>1. index(k) = 1 \/ index(k) = 2 \/ index(k) = 3
      BY <1>3
    <3> QED
      BY <3>1
  <2>2. s[group(k)] \in S
    BY <1>3
  <2> QED
    BY <2>1, <2>2
<1>5. 3 * Len(s) \in Nat
  BY <1>1
<1> HIDE DEF index, group, kinds
<1>6. [k \in 1..(3 * Len(s)) |-> <<kinds[index(k)], s[group(k)]>>] \in Seq({a, b, d} \X S)
  BY <1>4, <1>5
<1> QED
  BY <1>2, <1>6 DEF kinds

LEMMA OneForEach ==
    ASSUME NEW a, NEW S, NEW s \in Seq(S)
    PROVE  ForEach(<<a>>, s) = [k \in 1..Len(s) |-> <<a, s[k]>>]
<1>1. Len(<<a>>) = 1 /\ Len(s) \in Nat
  OBVIOUS
<1>2. ForEach(<<a>>, s) = [k \in 1..(1 * Len(s)) |->
            <<<<a>>[((k - 1) % 1) + 1], s[((k - 1) \div 1) + 1]>>]
  BY <1>1 DEF ForEach
<1>3. \A k \in 1..Len(s) : ((k - 1) % 1) + 1 = 1 /\ ((k - 1) \div 1) + 1 = k
  BY <1>1
<1>4. 1 * Len(s) = Len(s)
  BY <1>1
<1>5. ASSUME NEW k \in 1..Len(s)
      PROVE  <<<<a>>[((k - 1) % 1) + 1], s[((k - 1) \div 1) + 1]>> = <<a, s[k]>>
  <2>1. ((k - 1) % 1) + 1 = 1 /\ ((k - 1) \div 1) + 1 = k
    BY <1>3
  <2>2. <<a>>[1] = a
    OBVIOUS
  <2> QED
    BY <2>1, <2>2, Zenon
<1>6. ForEach(<<a>>, s) = [k \in 1..Len(s) |->
            <<<<a>>[((k - 1) % 1) + 1], s[((k - 1) \div 1) + 1]>>]
  BY <1>2, <1>4, Zenon
<1> QED
  BY <1>5, <1>6, Zenon

LEMMA SubjectsOfNodes ==
    ASSUME NEW c, Len(c.nodes) \in Nat
    PROVE  /\ [n \in 1..Len(c.nodes) |-> n] \in Seq(Subjects(c))
           /\ Len([n \in 1..Len(c.nodes) |-> n]) = Len(c.nodes)
           /\ Joining(c) \in Seq(Subjects(c))
<1> DEFINE all == [n \in 1..Len(c.nodes) |-> n]
           size == IF Len(c.nodes) = 0 THEN 0 ELSE Len(c.nodes) - 1
<1>1. all \in Seq(Subjects(c)) /\ Len(all) = Len(c.nodes)
  <2>1. \A n \in 1..Len(c.nodes) : n \in Subjects(c)
    BY DEF Subjects
  <2> QED
    BY <2>1
<1>2. size \in Nat /\ 1..(Len(c.nodes) - 1) = 1..size
  OBVIOUS
<1>3. DOMAIN Joining(c) = 1..size
  BY <1>2 DEF Joining
<1>4. \A j \in 1..size : Joining(c)[j] \in Subjects(c)
  BY <1>2 DEF Subjects
<1>5. Joining(c) = [j \in 1..size |-> Joining(c)[j]]
  BY <1>2 DEF Joining
<1> HIDE DEF size
<1>6. Joining(c) \in Seq(Subjects(c))
  BY <1>2, <1>4, <1>5
<1> QED
  BY <1>1, <1>6

PlanSteps(c) ==
    ({"skip", "token", "start", "wait", "kubeconfig", "api", "url", "ready", "labels", "taints"}
        \X Subjects(c))
    \cup ({"manifest"} \X Addons)

LEMMA PartsOfThePlan ==
    ASSUME NEW c, Len(c.nodes) \in Nat
    PROVE  /\ FirstSteps(c) \in Seq(PlanSteps(c)) /\ Len(FirstSteps(c)) = 5
           /\ \A k \in 1..5 : FirstSteps(c)[k][2] = FirstServer(c)
           /\ FirstSteps(c)[5] = <<"api", FirstServer(c)>>
           /\ JoinSteps(c) \in Seq(PlanSteps(c))
           /\ NodeSteps(c) \in Seq(PlanSteps(c))
           /\ ManifestSteps(c) \in Seq(PlanSteps(c))
<1>1. /\ FirstSteps(c) \in Seq(PlanSteps(c)) /\ Len(FirstSteps(c)) = 5
      /\ \A k \in 1..5 : FirstSteps(c)[k][2] = FirstServer(c)
      /\ FirstSteps(c)[5] = <<"api", FirstServer(c)>>
  <2> DEFINE kinds == <<"token", "start", "wait", "kubeconfig", "api">>
             F == FirstServer(c)
  <2>1. FirstSteps(c) = [k \in 1..5 |-> <<kinds[k], F>>]
    BY DEF FirstSteps, StepsOf
  <2>2. F \in Subjects(c)
    BY DEF Subjects
  <2>3. \A k \in 1..5 : kinds[k] \in {"token", "start", "wait", "kubeconfig", "api"}
    OBVIOUS
  <2>4. kinds[5] = "api"
    OBVIOUS
  <2> HIDE DEF kinds, F
  <2>5. \A k \in 1..5 : <<kinds[k], F>> \in PlanSteps(c)
    BY <2>2, <2>3 DEF PlanSteps
  <2>6. [k \in 1..5 |-> <<kinds[k], F>>] \in Seq(PlanSteps(c)) /\ Len([k \in 1..5 |-> <<kinds[k], F>>]) = 5
    BY <2>5
  <2> QED
    BY <2>1, <2>4, <2>6 DEF F
<1>2. JoinSteps(c) \in Seq(PlanSteps(c))
  <2>1. JoinSteps(c) \in Seq({"start", "wait", "url"} \X Subjects(c))
    BY SubjectsOfNodes, ThreeForEach DEF JoinSteps
  <2>2. {"start", "wait", "url"} \X Subjects(c) \subseteq PlanSteps(c)
    BY DEF PlanSteps
  <2> QED
    BY <2>1, <2>2
<1>3. NodeSteps(c) \in Seq(PlanSteps(c))
  <2>1. NodeSteps(c) \in Seq({"ready", "labels", "taints"} \X Subjects(c))
    BY SubjectsOfNodes, ThreeForEach DEF NodeSteps, PerNode
  <2>2. {"ready", "labels", "taints"} \X Subjects(c) \subseteq PlanSteps(c)
    BY DEF PlanSteps
  <2> QED
    BY <2>1, <2>2
<1>4. ManifestSteps(c) \in Seq(PlanSteps(c))
  <2>1. Manifests(c) \in Seq(Addons)
    <3>1. \A m \in Addons : <<m>> \in Seq(Addons)
      OBVIOUS
    <3>2. <<>> \in Seq(Addons)
      OBVIOUS
    <3>3. <<"metrics-server">> \in Seq(Addons) /\ <<"nas-csi">> \in Seq(Addons)
      BY <3>1 DEF Addons
    <3> QED
      BY <3>2, <3>3, ConcatProperties DEF Manifests
  <2>2. \A m \in Addons : <<"manifest", m>> \in PlanSteps(c)
    BY DEF PlanSteps
  <2>3. \A k \in 1..Len(Manifests(c)) : <<"manifest", Manifests(c)[k]>> \in PlanSteps(c)
    BY <2>1, <2>2
  <2>4. ManifestSteps(c) = [k \in 1..Len(Manifests(c)) |-> <<"manifest", Manifests(c)[k]>>]
    BY <2>1 DEF ManifestSteps
  <2> QED
    BY <2>1, <2>3, <2>4
<1> QED
  BY <1>1, <1>2, <1>3, <1>4

LEMMA DecidedSteps ==
    ASSUME NEW c, NEW h, NEW a, NEW s \in Seq(PlanSteps(c))
    PROVE  /\ Decided(c, h, a, s) \in Seq(PlanSteps(c))
           /\ Len(Decided(c, h, a, s)) = Len(s)
           /\ \A k \in 1..Len(s) : Decided(c, h, a, s)[k] =
                    IF AlreadyCorrect(c, h, a, s[k]) THEN Skip ELSE s[k]
<1> DEFINE step(k) == IF AlreadyCorrect(c, h, a, s[k]) THEN Skip ELSE s[k]
<1>1. Decided(c, h, a, s) = [k \in 1..Len(s) |-> step(k)]
  BY DEF Decided
<1>2. Skip \in PlanSteps(c)
  BY DEF Skip, PlanSteps, Subjects
<1>3. \A k \in 1..Len(s) : step(k) \in PlanSteps(c)
  BY <1>2
<1> HIDE DEF step
<1>4. [k \in 1..Len(s) |-> step(k)] \in Seq(PlanSteps(c)) /\ Len([k \in 1..Len(s) |-> step(k)]) = Len(s)
  BY <1>3
<1> QED
  BY <1>1, <1>4 DEF step

LEMMA FrontOfConcat ==
    ASSUME NEW S, NEW s \in Seq(S), NEW t \in Seq(S), NEW n \in Nat, n =< Len(s)
    PROVE  /\ s \o t \in Seq(S) /\ n =< Len(s \o t)
           /\ \A k \in 1..n : (s \o t)[k] = s[k]
<1>1. Len(s) \in Nat /\ Len(t) \in Nat
  OBVIOUS
<1>2. /\ s \o t \in Seq(S) /\ Len(s \o t) = Len(s) + Len(t)
      /\ \A i \in 1..Len(s) + Len(t) : (s \o t)[i] = IF i <= Len(s) THEN s[i] ELSE t[i - Len(s)]
  BY ConcatProperties
<1> QED
  BY <1>1, <1>2

LEMMA PartsOfConcat ==
    ASSUME NEW S, NEW s \in Seq(S), NEW t \in Seq(S)
    PROVE  /\ s \o t \in Seq(S) /\ Len(s \o t) = Len(s) + Len(t)
           /\ \A k \in 1..Len(s) : (s \o t)[k] = s[k]
           /\ \A k \in 1..Len(t) : (s \o t)[Len(s) + k] = t[k]
<1>0. Len(s) \in Nat /\ Len(t) \in Nat
  OBVIOUS
<1>1. /\ s \o t \in Seq(S) /\ Len(s \o t) = Len(s) + Len(t)
      /\ \A i \in 1..(Len(s) + Len(t)) : (s \o t)[i] = IF i <= Len(s) THEN s[i] ELSE t[i - Len(s)]
  BY ConcatProperties
<1>2. \A k \in 1..Len(s) : (s \o t)[k] = s[k]
  BY <1>0, <1>1
<1>3. ASSUME NEW k \in 1..Len(t)
      PROVE  (s \o t)[Len(s) + k] = t[k]
  <2>1. /\ Len(s) + k \in 1..(Len(s) + Len(t)) /\ ~(Len(s) + k <= Len(s))
        /\ (Len(s) + k) - Len(s) = k
    BY <1>0
  <2> QED
    BY <1>1, <2>1
<1> QED
  BY <1>1, <1>2, <1>3

\* A plan starts a joining node after it waited for the API, unless the
\* inspection saw it answer.
LEMMA PlannedSteps ==
    ASSUME NEW c, NEW h, NEW a, Len(c.nodes) \in Nat
    PROVE  /\ PlanCluster(c, h, a) \in Seq(PlanSteps(c))
           /\ \A k \in 1..Len(PlanCluster(c, h, a)) :
                PlanCluster(c, h, a)[k][1] = "start" /\ PlanCluster(c, h, a)[k][2] # FirstServer(c) =>
                    a.api \/ \E j \in 1..(k - 1) : PlanCluster(c, h, a)[j][1] = "api"
<1> DEFINE first == Decided(c, h, a, FirstSteps(c))
           join == Decided(c, h, a, JoinSteps(c))
           node == Decided(c, h, a, NodeSteps(c))
           manifest == Decided(c, h, a, ManifestSteps(c))
           plan == PlanCluster(c, h, a)
<1>1. /\ first \in Seq(PlanSteps(c)) /\ join \in Seq(PlanSteps(c))
      /\ node \in Seq(PlanSteps(c)) /\ manifest \in Seq(PlanSteps(c))
      /\ Len(first) = 5
  BY PartsOfThePlan, DecidedSteps
<1>s. /\ FirstSteps(c) \in Seq(PlanSteps(c)) /\ Len(FirstSteps(c)) = 5
      /\ \A k \in 1..5 : FirstSteps(c)[k][2] = FirstServer(c)
      /\ FirstSteps(c)[5] = <<"api", FirstServer(c)>>
  BY PartsOfThePlan
<1>d. \A k \in 1..5 : first[k] = IF AlreadyCorrect(c, h, a, FirstSteps(c)[k]) THEN Skip
                                 ELSE FirstSteps(c)[k]
  BY <1>s, DecidedSteps
<1>2. \A k \in 1..5 : first[k] = Skip \/ first[k][2] = FirstServer(c)
  BY <1>s, <1>d
<1>3. a.api \/ first[5] = <<"api", FirstServer(c)>>
  <2>1. first[5] = IF AlreadyCorrect(c, h, a, <<"api", FirstServer(c)>>) THEN Skip
                   ELSE <<"api", FirstServer(c)>>
    <3>1. 5 \in 1..5
      OBVIOUS
    <3> QED
      BY <1>s, <1>d, <3>1
  <2>2. AlreadyCorrect(c, h, a, <<"api", FirstServer(c)>>) <=> a.api
    BY DEF AlreadyCorrect
  <2> QED
    BY <2>1, <2>2
<1>4. plan = first \o join \o node \o manifest
  BY DEF PlanCluster
<1> HIDE DEF first, join, node, manifest, plan
<1>5. plan \in Seq(PlanSteps(c))
  BY <1>1, <1>4
<1>6. \A k \in 1..5 : plan[k] = first[k] /\ k =< Len(plan)
  <2>0. 5 \in Nat /\ 5 =< Len(first)
    BY <1>1
  <2>1. /\ first \o join \in Seq(PlanSteps(c)) /\ 5 =< Len(first \o join)
        /\ \A k \in 1..5 : (first \o join)[k] = first[k]
    BY <1>1, <2>0, FrontOfConcat
  <2> DEFINE s == first \o join
  <2>a. s \in Seq(PlanSteps(c)) /\ node \in Seq(PlanSteps(c)) /\ 5 =< Len(s)
    BY <1>1, <2>1
  <2> HIDE DEF s
  <2>b. s \o node \in Seq(PlanSteps(c)) /\ 5 =< Len(s \o node) /\ \A k \in 1..5 : (s \o node)[k] = s[k]
    BY <2>0, <2>a, FrontOfConcat
  <2>2. /\ first \o join \o node \in Seq(PlanSteps(c)) /\ 5 =< Len(first \o join \o node)
        /\ \A k \in 1..5 : (first \o join \o node)[k] = (first \o join)[k]
    BY <2>b DEF s
  <2>3. 5 =< Len(plan) /\ \A k \in 1..5 : plan[k] = (first \o join \o node)[k]
    BY <1>1, <1>4, <2>0, <2>2, FrontOfConcat
  <2>4. Len(plan) \in Nat
    BY <1>5
  <2> SUFFICES ASSUME NEW k \in 1..5
               PROVE  plan[k] = first[k] /\ k =< Len(plan)
    OBVIOUS
  <2>5. k =< Len(plan)
    BY <2>3, <2>4
  <2>6. plan[k] = first[k]
    BY <2>1, <2>2, <2>3, Zenon
  <2> QED
    BY <2>5, <2>6
<1>7. ASSUME NEW k \in 1..Len(plan), plan[k][1] = "start", plan[k][2] # FirstServer(c)
      PROVE  a.api \/ \E j \in 1..(k - 1) : plan[j][1] = "api"
  <2>1. k > 5
    BY <1>2, <1>6, <1>7 DEF Skip
  <2>2. a.api \/ plan[5][1] = "api"
    BY <1>3, <1>6
  <2> QED
    BY <2>1, <2>2
<1> QED
  BY <1>5, <1>7 DEF plan

(***************************************************************************)
(* The steps of the commands: their types, and their order.                *)
(***************************************************************************)
\* The steps of cluster apply and cluster install, as they are planned.
PlannedKinds == ClusterKinds \ {"manifest", "record", "hide"}
ClusterSteps(c) == (PlannedKinds \X Subjects(c)) \cup ({"manifest"} \X Addons)

LEMMA StepsOfKinds ==
    /\ ClusterKinds \cap CsiKinds = {} /\ ClusterKinds \cap WorkloadKinds = {}
    /\ CsiKinds \cap WorkloadKinds = {} /\ "plan" \notin StepKinds
  BY DEF ClusterKinds, CsiKinds, WorkloadKinds, StepKinds

LEMMA OrderedClusterSteps ==
    ASSUME NEW c, NEW todo \in Seq(ClusterSteps(c))
    PROVE  /\ todo \in Seq(Steps(c)) /\ Ordered(todo)
           /\ \A k \in 1..Len(todo) : todo[k][1] # "plan"
<1>1. ClusterSteps(c) \subseteq Steps(c)
  BY DEF ClusterSteps, Steps, StepKinds, PlannedKinds, ClusterKinds, Subjects
<1>2. ASSUME NEW k \in 1..Len(todo)
      PROVE  /\ todo[k][1] \in ClusterKinds \ {"record", "hide"}
             /\ todo[k][1] = "manifest" => todo[k][2] \in Addons
  <2>1. todo[k] \in ClusterSteps(c)
    OBVIOUS
  <2> QED
    BY <2>1 DEF ClusterSteps, PlannedKinds, ClusterKinds
<1>3. \A k \in 1..Len(todo) :
        /\ todo[k][1] \in StepKinds
        /\ todo[k][1] \notin {"record", "plan", "sentinel", "guests-see", "pod-sees", "yaml", "restart"}
  BY <1>2 DEF StepKinds, ClusterKinds
<1>4. Ordered(todo)
  BY <1>2, <1>3 DEF Ordered, OnAddons, SentinelSeen, RestartedAfter
<1>5. \A k \in 1..Len(todo) : todo[k][1] # "plan"
  BY <1>3
<1> QED
  BY <1>1, <1>4, <1>5, SeqMonotonic

LEMMA InstallIsTyped ==
    ASSUME NEW c, NEW plan \in Seq(PlanSteps(c)), NEW node \in 1..Len(c.nodes) \cup {Unset}
    PROVE  /\ InstallSteps(plan, node) \in Seq(ClusterSteps(c))
           /\ Len(plan) =< Len(InstallSteps(plan, node))
           /\ \A k \in 1..Len(plan) : InstallSteps(plan, node)[k] = plan[k]
           /\ \A k \in (Len(plan) + 1)..Len(InstallSteps(plan, node)) :
                /\ InstallSteps(plan, node)[k][1] # "start"
                /\ InstallSteps(plan, node)[k][1] = "reboot" => node # Unset
<1> DEFINE more == IF node = Unset THEN <<>>
                   ELSE <<<<"reboot", node>>, <<"wait", node>>, <<"api", node>>, <<"ready", node>>,
                          <<"state", 0>>>>
           all == InstallSteps(plan, node)
           verified == Append(plan, <<"verify", 0>>)
<1>1. PlanSteps(c) \subseteq ClusterSteps(c)
  BY DEF PlanSteps, ClusterSteps, PlannedKinds, ClusterKinds
<1>2. plan \in Seq(ClusterSteps(c)) /\ Len(plan) \in Nat
  BY <1>1, SeqMonotonic
<1>3. {<<"verify", 0>>, <<"state", 0>>} \subseteq ClusterSteps(c)
  BY DEF ClusterSteps, PlannedKinds, ClusterKinds, Subjects
<1>4. /\ verified \in Seq(ClusterSteps(c)) /\ Len(verified) = Len(plan) + 1
      /\ \A k \in 1..Len(plan) : verified[k] = plan[k]
      /\ verified[Len(plan) + 1] = <<"verify", 0>>
  BY <1>2, <1>3, AppendProperties
<1>5. /\ more \in Seq(ClusterSteps(c)) /\ Len(more) \in Nat
      /\ \A k \in 1..Len(more) : more[k][1] # "start" /\ (more[k][1] = "reboot" => node # Unset)
  <2>1. CASE node = Unset
    BY <2>1
  <2>2. CASE node # Unset
    <3>1. {<<"reboot", node>>, <<"wait", node>>, <<"api", node>>, <<"ready", node>>}
            \subseteq ClusterSteps(c)
      BY <2>2 DEF ClusterSteps, PlannedKinds, ClusterKinds, Subjects
    <3> QED
      BY <1>3, <2>2, <3>1
  <2> QED
    BY <2>1, <2>2
<1>6. all = verified \o more
  BY DEF InstallSteps
<1> HIDE DEF more, all, verified
<1>7. /\ all \in Seq(ClusterSteps(c)) /\ Len(all) = Len(verified) + Len(more)
      /\ \A k \in 1..(Len(verified) + Len(more)) :
            all[k] = IF k =< Len(verified) THEN verified[k] ELSE more[k - Len(verified)]
  BY <1>4, <1>5, <1>6, ConcatProperties
<1>8. \A k \in 1..Len(plan) : all[k] = plan[k]
  BY <1>2, <1>4, <1>5, <1>7
<1>9. ASSUME NEW k \in (Len(plan) + 1)..Len(all)
      PROVE  all[k][1] # "start" /\ (all[k][1] = "reboot" => node # Unset)
  <2>1. CASE k = Len(plan) + 1
    BY <1>2, <1>4, <1>5, <1>7, <2>1
  <2>2. CASE k # Len(plan) + 1
    <3>1. k - Len(verified) \in 1..Len(more) /\ all[k] = more[k - Len(verified)]
      BY <1>2, <1>4, <1>5, <1>7, <2>2
    <3> QED
      BY <1>5, <3>1
  <2> QED
    BY <2>1, <2>2
<1> QED
  BY <1>2, <1>4, <1>5, <1>7, <1>8, <1>9 DEF all

\* csi install writes the node.yaml of every node, then restarts the plugins.
LEMMA CsiIsTyped ==
    ASSUME NEW c, Len(c.nodes) \in Nat
    PROVE  /\ CsiSteps(c) \in Seq(Steps(c)) /\ Ordered(CsiSteps(c))
           /\ \A k \in 1..Len(CsiSteps(c)) :
                CsiSteps(c)[k][1] \notin {"start", "reboot", "plan", "record"}
           /\ \A n \in 1..Len(c.nodes) : n \in 1..Len(CsiSteps(c)) /\ CsiSteps(c)[n] = <<"yaml", n>>
           /\ \E k \in 1..Len(CsiSteps(c)) : CsiSteps(c)[k][1] = "restart"
<1> DEFINE L == Len(c.nodes)
           kinds == <<"deploy", "rollout", "static", "mounts", "smoke", "served",
                      "delete-smoke", "smoke", "served", "restart", "rollout", "served",
                      "probe", "delete-probe", "served">>
           written == PerNode(c, <<"yaml">>)
           checked == PerNode(c, <<"yaml-checked">>)
           both == written \o checked
           rest == StepsOf(kinds, 0)
           S == CsiKinds \X Subjects(c)
           all == CsiSteps(c)
<1>1. ASSUME NEW kind \in CsiKinds
      PROVE  /\ PerNode(c, <<kind>>) = [k \in 1..L |-> <<kind, k>>]
             /\ PerNode(c, <<kind>>) \in Seq(S) /\ Len(PerNode(c, <<kind>>)) = L
             /\ \A k \in 1..L : PerNode(c, <<kind>>)[k] = <<kind, k>>
  <2> DEFINE nodes == [n \in 1..L |-> n]
  <2>1. nodes \in Seq(Subjects(c)) /\ Len(nodes) = L
    BY SubjectsOfNodes
  <2>2. PerNode(c, <<kind>>) = [k \in 1..L |-> <<kind, nodes[k]>>]
    <3>1. PerNode(c, <<kind>>) = ForEach(<<kind>>, nodes)
      BY DEF PerNode
    <3> HIDE DEF nodes
    <3>2. ForEach(<<kind>>, nodes) = [k \in 1..Len(nodes) |-> <<kind, nodes[k]>>]
      BY <2>1, OneForEach
    <3> QED
      BY <2>1, <3>1, <3>2
  <2>3. [k \in 1..L |-> <<kind, nodes[k]>>] = [k \in 1..L |-> <<kind, k>>]
    OBVIOUS
  <2>4. \A k \in 1..L : <<kind, k>> \in S
    BY DEF Subjects
  <2> HIDE DEF S, nodes
  <2>5. [k \in 1..L |-> <<kind, k>>] \in Seq(S) /\ Len([k \in 1..L |-> <<kind, k>>]) = L
    BY <2>4
  <2> QED
    BY <2>2, <2>3, <2>5
<1>2. "yaml" \in CsiKinds /\ "yaml-checked" \in CsiKinds
  BY DEF CsiKinds
<1>3. /\ written \in Seq(S) /\ Len(written) = L /\ \A k \in 1..L : written[k] = <<"yaml", k>>
      /\ checked \in Seq(S) /\ Len(checked) = L /\ \A k \in 1..L : checked[k] = <<"yaml-checked", k>>
  BY <1>1, <1>2
<1>4. /\ rest \in Seq(S) /\ Len(rest) = 15 /\ rest[10][1] = "restart"
      /\ \A k \in 1..15 : rest[k][1] # "yaml"
  <2>1. rest = [k \in 1..15 |-> <<kinds[k], 0>>]
    BY DEF StepsOf
  <2>2. \A k \in 1..15 : kinds[k] \in CsiKinds /\ kinds[k] # "yaml"
    BY DEF CsiKinds
  <2>3. kinds[10] = "restart"
    OBVIOUS
  <2> HIDE DEF kinds
  <2>4. \A k \in 1..15 : <<kinds[k], 0>> \in S
    BY <2>2 DEF Subjects
  <2> HIDE DEF S
  <2>5. [k \in 1..15 |-> <<kinds[k], 0>>] \in Seq(S) /\ Len([k \in 1..15 |-> <<kinds[k], 0>>]) = 15
    BY <2>4
  <2> HIDE DEF rest
  <2> QED
    BY <2>1, <2>2, <2>3, <2>5
<1>5. both = written \o checked /\ all = both \o rest
  BY DEF CsiSteps
<1> HIDE DEF written, checked, rest, S, all, L, kinds, both
<1>6. L \in Nat
  BY DEF L
<1>7. /\ both \in Seq(S) /\ Len(both) = L + L
      /\ \A k \in 1..L : both[k] = written[k]
      /\ \A k \in 1..L : both[L + k] = checked[k]
  <2>0. written \in Seq(S) /\ checked \in Seq(S)
    BY <1>3
  <2>1. /\ both \in Seq(S) /\ Len(both) = Len(written) + Len(checked)
        /\ \A k \in 1..Len(written) : both[k] = written[k]
        /\ \A k \in 1..Len(checked) : both[Len(written) + k] = checked[k]
    BY <1>5, <2>0, PartsOfConcat
  <2> QED
    BY <1>3, <2>1
<1>8. /\ all \in Seq(S) /\ Len(all) = (L + L) + 15
      /\ \A k \in 1..(L + L) : all[k] = both[k]
      /\ \A k \in 1..15 : all[(L + L) + k] = rest[k]
  <2>0. both \in Seq(S) /\ rest \in Seq(S)
    BY <1>4, <1>7
  <2>1. /\ all \in Seq(S) /\ Len(all) = Len(both) + Len(rest)
        /\ \A k \in 1..Len(both) : all[k] = both[k]
        /\ \A k \in 1..Len(rest) : all[Len(both) + k] = rest[k]
    BY <1>5, <2>0, PartsOfConcat
  <2> QED
    BY <1>4, <1>7, <2>1
<1>9. ASSUME NEW n \in 1..L
      PROVE  n \in 1..Len(all) /\ all[n] = <<"yaml", n>>
  <2>1. n \in 1..(L + L) /\ n \in 1..Len(all)
    BY <1>6, <1>8
  <2>2. all[n] = both[n] /\ both[n] = written[n] /\ written[n] = <<"yaml", n>>
    BY <1>3, <1>7, <1>8, <2>1
  <2> QED
    BY <2>1, <2>2
<1>10. (L + L) + 10 \in 1..Len(all) /\ all[(L + L) + 10][1] = "restart"
  <2>1. (L + L) + 10 \in 1..Len(all) /\ 10 \in 1..15
    BY <1>6, <1>8
  <2>2. all[(L + L) + 10] = rest[10]
    BY <1>8, <2>1
  <2> QED
    BY <1>4, <2>1, <2>2
<1>11. ASSUME NEW k \in 1..Len(all)
       PROVE  /\ all[k][1] = "yaml" => k =< L
              /\ all[k][1] = "restart" => k > L
  <2>1. CASE k =< L
    <3>1. all[k] = <<"yaml", k>>
      BY <1>6, <1>9, <2>1
    <3> QED
      BY <2>1, <3>1
  <2>2. CASE L < k /\ k =< L + L
    <3>1. k - L \in 1..L /\ L + (k - L) = k /\ k \in 1..(L + L)
      BY <1>6, <2>2
    <3>2. all[k] = checked[k - L]
      BY <1>7, <1>8, <3>1
    <3> QED
      BY <1>3, <2>2, <3>1, <3>2
  <2>3. CASE L + L < k
    <3>1. k - (L + L) \in 1..15 /\ (L + L) + (k - (L + L)) = k
      BY <1>6, <1>8, <2>3
    <3>2. all[k] = rest[k - (L + L)]
      BY <1>8, <3>1
    <3>3. all[k][1] # "yaml"
      BY <1>4, <3>1, <3>2
    <3>4. k > L
      BY <1>6, <1>8, <2>3
    <3> QED
      BY <3>3, <3>4
  <2> QED
    BY <1>6, <1>8, <2>1, <2>2, <2>3
<1>12. \A k \in 1..Len(all) : all[k] \in S
  BY <1>8
<1>13. \A k \in 1..Len(all) : all[k][1] \in CsiKinds
  BY <1>12 DEF S
<1>14. \A k \in 1..Len(all) :
        /\ all[k][1] \in StepKinds
        /\ all[k][1] \notin {"start", "reboot", "plan", "record", "manifest",
                             "sentinel", "guests-see", "pod-sees"}
  BY <1>13 DEF CsiKinds, StepKinds
<1>15. RestartedAfter(all)
  <2>0. Len(all) \in Nat
    BY <1>8
  <2>1. ASSUME NEW k \in 1..Len(all), all[k][1] = "yaml"
        PROVE  \E j \in (k + 1)..Len(all) : all[j][1] = "restart"
    <3>0. k =< L /\ k \in Nat /\ Len(all) = (L + L) + 15
      BY <1>8, <1>11, <2>0, <2>1
    <3>1. (L + L) + 10 \in (k + 1)..Len(all)
      BY <1>6, <3>0
    <3> QED
      BY <1>10, <3>1
  <2>2. ASSUME NEW k \in 1..Len(all), all[k][1] = "restart", NEW j \in (k + 1)..Len(all)
        PROVE  all[j][1] # "yaml"
    <3>1. k > L /\ j \in 1..Len(all) /\ j > k
      BY <1>11, <2>0, <2>2
    <3>2. ~(j =< L)
      BY <1>6, <2>0, <3>1
    <3> QED
      BY <1>11, <3>1, <3>2
  <2> QED
    BY <2>1, <2>2 DEF RestartedAfter
<1>16. Ordered(all)
  BY <1>14, <1>15 DEF Ordered, OnAddons, SentinelSeen
<1>17. all \in Seq(Steps(c))
  <2>1. S \subseteq Steps(c)
    BY DEF S, Steps, StepKinds
  <2> QED
    BY <1>8, <2>1, SeqMonotonic
<1>18. \A k \in 1..Len(all) : all[k][1] \notin {"start", "reboot", "plan", "record"}
  BY <1>14
<1> QED
  BY <1>9, <1>10, <1>16, <1>17, <1>18 DEF all, L

LEMMA WorkloadIsTyped ==
    ASSUME NEW c
    PROVE  /\ WorkloadSteps(c) \in Seq(Steps(c)) /\ Ordered(WorkloadSteps(c))
           /\ \A k \in 1..Len(WorkloadSteps(c)) :
                WorkloadSteps(c)[k][1] \notin {"start", "reboot", "plan", "record"}
<1> DEFINE w == Selected(c, "read-write")
           r == Selected(c, "read-only")
           S == WorkloadKinds \X Subjects(c)
           pods == <<<<"pods", 0>>, <<"pods-served", w>>, <<"pods-served", r>>>>
           last == <<<<"pods-served", w>>, <<"pods-served", r>>, <<"delete-pods", 0>>>>
           seenW == Seen(w)
           seenR == Seen(r)
           front == pods \o seenW
           middle == front \o seenR
           all == WorkloadSteps(c)
<1>1. w \in Subjects(c) /\ r \in Subjects(c) /\ 0 \in Subjects(c)
  BY DEF Subjects, Accesses
<1> HIDE DEF w, r
<1>2. /\ pods \in Seq(S) /\ last \in Seq(S) /\ seenW \in Seq(S) /\ seenR \in Seq(S)
      /\ Len(pods) = 3 /\ Len(last) = 3 /\ Len(seenW) = 4 /\ Len(seenR) = 4
  BY <1>1 DEF WorkloadKinds, Seen
<1>3. /\ \A k \in 1..3 : /\ pods[k][1] \in {"pods", "pods-served"}
                         /\ last[k][1] \in {"pods-served", "delete-pods"}
      /\ seenW[1][1] = "sentinel" /\ seenW[2][1] = "guests-see"
      /\ seenW[3][1] = "pod-sees" /\ seenW[4][1] = "remove"
      /\ seenR[1][1] = "sentinel" /\ seenR[2][1] = "guests-see"
      /\ seenR[3][1] = "pod-sees" /\ seenR[4][1] = "remove"
  BY DEF Seen
<1>4. front = pods \o seenW /\ middle = front \o seenR /\ all = middle \o last
  BY DEF WorkloadSteps, w, r
<1> HIDE DEF pods, last, S, all, seenW, seenR, front, middle
<1>6. /\ front \in Seq(S) /\ Len(front) = 7
      /\ \A k \in 1..3 : front[k] = pods[k]
      /\ \A k \in 1..4 : front[3 + k] = seenW[k]
  <2>0. pods \in Seq(S) /\ seenW \in Seq(S)
    BY <1>2
  <2>1. /\ front \in Seq(S) /\ Len(front) = Len(pods) + Len(seenW)
        /\ \A k \in 1..Len(pods) : front[k] = pods[k]
        /\ \A k \in 1..Len(seenW) : front[Len(pods) + k] = seenW[k]
    BY <1>4, <2>0, PartsOfConcat
  <2> QED
    BY <1>2, <2>1
<1>7. /\ middle \in Seq(S) /\ Len(middle) = 11
      /\ \A k \in 1..7 : middle[k] = front[k]
      /\ \A k \in 1..4 : middle[7 + k] = seenR[k]
  <2>0. front \in Seq(S) /\ seenR \in Seq(S)
    BY <1>2, <1>6
  <2>1. /\ middle \in Seq(S) /\ Len(middle) = Len(front) + Len(seenR)
        /\ \A k \in 1..Len(front) : middle[k] = front[k]
        /\ \A k \in 1..Len(seenR) : middle[Len(front) + k] = seenR[k]
    BY <1>4, <2>0, PartsOfConcat
  <2> QED
    BY <1>2, <1>6, <2>1
<1>8. /\ all \in Seq(S) /\ Len(all) = 14
      /\ \A k \in 1..11 : all[k] = middle[k]
      /\ \A k \in 1..3 : all[11 + k] = last[k]
  <2>0. middle \in Seq(S) /\ last \in Seq(S)
    BY <1>2, <1>7
  <2>1. /\ all \in Seq(S) /\ Len(all) = Len(middle) + Len(last)
        /\ \A k \in 1..Len(middle) : all[k] = middle[k]
        /\ \A k \in 1..Len(last) : all[Len(middle) + k] = last[k]
    BY <1>4, <2>0, PartsOfConcat
  <2> QED
    BY <1>2, <1>7, <2>1
<1>10. /\ all[4][1] = "sentinel" /\ all[5][1] = "guests-see" /\ all[6][1] = "pod-sees"
       /\ all[7][1] = "remove"
       /\ all[8][1] = "sentinel" /\ all[9][1] = "guests-see" /\ all[10][1] = "pod-sees"
       /\ all[11][1] = "remove"
       /\ \A k \in {1, 2, 3, 12, 13, 14} : all[k][1] \in {"pods", "pods-served", "delete-pods"}
  <2>1. all[4] = seenW[1] /\ all[5] = seenW[2] /\ all[6] = seenW[3] /\ all[7] = seenW[4]
    BY <1>6, <1>7, <1>8
  <2>2. all[8] = seenR[1] /\ all[9] = seenR[2] /\ all[10] = seenR[3] /\ all[11] = seenR[4]
    BY <1>7, <1>8
  <2>3. all[1] = pods[1] /\ all[2] = pods[2] /\ all[3] = pods[3]
    BY <1>6, <1>7, <1>8
  <2>4. all[12] = last[1] /\ all[13] = last[2] /\ all[14] = last[3]
    BY <1>8
  <2>5. \A k \in 1..3 : /\ pods[k][1] \in {"pods", "pods-served", "delete-pods"}
                        /\ last[k][1] \in {"pods", "pods-served", "delete-pods"}
    BY <1>3
  <2>6. \A k \in {1, 2, 3, 12, 13, 14} : all[k][1] \in {"pods", "pods-served", "delete-pods"}
    BY <2>3, <2>4, <2>5
  <2> QED
    BY <1>3, <2>1, <2>2, <2>6
<1>11. \A k \in 1..14 : all[k][1] \in WorkloadKinds
  <2>0. all \in Seq(S) /\ Len(all) = 14
    BY <1>8
  <2>1. \A k \in 1..Len(all) : all[k] \in S
    <3>1. all \in Seq(S)
      BY <2>0
    <3> QED
      BY <3>1, ElementOfSeq
  <2> QED
    BY <2>0, <2>1 DEF S
<1>12. \A k \in 1..14 :
        /\ all[k][1] \in StepKinds
        /\ all[k][1] \notin {"start", "reboot", "plan", "record", "manifest", "yaml", "restart"}
  BY <1>11 DEF WorkloadKinds, StepKinds
<1>13. SentinelSeen(all)
  <2> SUFFICES ASSUME NEW k \in 1..14
               PROVE  /\ all[k][1] = "sentinel" => k < 14 /\ all[k + 1][1] = "guests-see"
                      /\ all[k][1] = "guests-see" => k < 14 /\ all[k + 1][1] = "pod-sees"
                      /\ all[k][1] = "pod-sees" => k < 14 /\ all[k + 1][1] = "remove"
    BY <1>8 DEF SentinelSeen
  <2>1. CASE k \in 4..11
    BY <1>10, <2>1
  <2>2. CASE k \in {1, 2, 3, 12, 13, 14}
    BY <1>10, <2>2
  <2> QED
    BY <2>1, <2>2
<1>14. Ordered(all)
  BY <1>8, <1>12, <1>13 DEF Ordered, OnAddons, RestartedAfter
<1>15. all \in Seq(Steps(c))
  <2>1. S \subseteq Steps(c)
    BY DEF S, Steps, StepKinds
  <2> QED
    BY <1>8, <2>1, SeqMonotonic
<1> QED
  BY <1>8, <1>12, <1>14, <1>15 DEF all

-----------------------------------------------------------------------------
(***************************************************************************)
(* What is still to do after a step: u is t without its first element and  *)
(* the skipped ones that follow it, with the second operation of the step, *)
(* if it has one, in front.                                                *)
(***************************************************************************)
Twofold == {"manifest", "token", "kubeconfig"}
Successor(t, u, step, k, m) ==
    /\ k \in 2..(Len(t) + 1) /\ m \in {0, 1}
    /\ \A j \in 2..(k - 1) : t[j] = Skip
    /\ Len(t) \in Nat /\ Len(u) = m + (Len(t) + 1 - k)
    /\ step[1] \in Twofold <=> m = 1
    /\ step[1] = "manifest" => u[1] = <<"record", step[2]>>
    /\ step[1] \in {"token", "kubeconfig"} => u[1] = <<"hide", step[1]>>
    /\ \A i \in (m + 1)..Len(u) : u[i] = t[i + (k - 1) - m]
    /\ \A j \in k..Len(t) : u[j - (k - 1) + m] = t[j]

LEMMA FollowingIsTyped ==
    ASSUME NEW c, NEW step \in Steps(c)
    PROVE  /\ Following(step) \in Seq(Steps(c))
           /\ Len(Following(step)) = IF step[1] \in Twofold THEN 1 ELSE 0
           /\ step[1] = "manifest" => Following(step)[1] = <<"record", step[2]>>
           /\ step[1] \in {"token", "kubeconfig"} => Following(step)[1] = <<"hide", step[1]>>
<1>1. CASE step[1] = "manifest"
  <2>1. <<"record", step[2]>> \in Steps(c)
    BY DEF Steps, StepKinds, ClusterKinds
  <2> QED
    BY <1>1, <2>1 DEF Following, Twofold
<1>2. CASE step[1] \in {"token", "kubeconfig"}
  <2>1. <<"hide", step[1]>> \in Steps(c)
    BY <1>2 DEF Steps, StepKinds, ClusterKinds, Subjects
  <2> QED
    BY <1>2, <2>1 DEF Following, Twofold
<1>3. CASE step[1] \notin Twofold
  BY <1>3 DEF Following, Twofold
<1> QED
  BY <1>1, <1>2, <1>3 DEF Twofold

LEMMA SplicedIsSuccessor ==
    ASSUME NEW c, NEW t \in Seq(Steps(c)), NEW step \in Steps(c), NEW k \in 2..(Len(t) + 1),
           \A j \in 2..(k - 1) : t[j] = Skip
    PROVE  LET u == Following(step) \o SubSeq(t, k, Len(t))
           IN  u \in Seq(Steps(c)) /\ \E m \in {0, 1} : Successor(t, u, step, k, m)
<1> DEFINE S == Steps(c)
           f == Following(step)
           rest == SubSeq(t, k, Len(t))
           u == f \o rest
           m == IF step[1] \in Twofold THEN 1 ELSE 0
<1>0. Len(t) \in Nat /\ k \in Int
  OBVIOUS
<1>1. f \in Seq(S) /\ Len(f) = m
  BY FollowingIsTyped
<1>2. /\ step[1] = "manifest" => f[1] = <<"record", step[2]>>
      /\ step[1] \in {"token", "kubeconfig"} => f[1] = <<"hide", step[1]>>
  BY FollowingIsTyped
<1>3. \A i \in k..Len(t) : t[i] \in S
  BY <1>0
<1>4. /\ rest \in Seq(S) /\ Len(rest) = Len(t) + 1 - k
      /\ \A i \in 1..(Len(t) - k + 1) : rest[i] = t[k + i - 1]
  BY <1>0, <1>3, SubSeqProperties
<1> HIDE DEF f, rest, S
<1>5. /\ u \in Seq(S) /\ Len(u) = Len(f) + Len(rest)
      /\ \A i \in 1..Len(f) : u[i] = f[i]
      /\ \A i \in 1..Len(rest) : u[Len(f) + i] = rest[i]
  <2>1. f \in Seq(S) /\ rest \in Seq(S)
    BY <1>1, <1>4
  <2> QED
    BY <2>1, PartsOfConcat
<1>m. m \in {0, 1} /\ (step[1] \in Twofold <=> m = 1)
  OBVIOUS
<1> HIDE DEF u, m
<1>6. Len(u) = m + (Len(t) + 1 - k)
  BY <1>1, <1>4, <1>5
<1>7. m = 1 => u[1] = f[1]
  BY <1>1, <1>5
<1>8. ASSUME NEW i \in (m + 1)..Len(u)
      PROVE  u[i] = t[i + (k - 1) - m]
  <2>1. i - m \in 1..Len(rest) /\ m + (i - m) = i /\ i - m \in 1..(Len(t) - k + 1)
    BY <1>0, <1>m, <1>4, <1>6
  <2>2. u[m + (i - m)] = rest[i - m]
    BY <1>1, <1>5, <2>1
  <2>3. rest[i - m] = t[k + (i - m) - 1]
    BY <1>4, <2>1
  <2>4. k + (i - m) - 1 = i + (k - 1) - m
    BY <1>0, <1>m
  <2> QED
    BY <2>1, <2>2, <2>3, <2>4
<1>9. ASSUME NEW j \in k..Len(t)
      PROVE  u[j - (k - 1) + m] = t[j]
  <2>1. /\ j - (k - 1) + m \in (m + 1)..Len(u)
        /\ (j - (k - 1) + m) + (k - 1) - m = j
    BY <1>0, <1>m, <1>6
  <2> QED
    BY <1>8, <2>1
<1>10. Successor(t, u, step, k, m)
  BY <1>0, <1>m, <1>2, <1>6, <1>7, <1>8, <1>9 DEF Successor, Twofold
<1> QED
  BY <1>m, <1>5, <1>10 DEF u, f, rest, S

\* The order of the steps is kept.
LEMMA SuccessorIsOrdered ==
    ASSUME NEW c, NEW t \in Seq(Steps(c)), NEW u \in Seq(Steps(c)), t # <<>>, Ordered(t),
           NEW k, NEW m, Successor(t, u, t[1], k, m)
    PROVE  Ordered(u)
<1>1. /\ Len(t) \in Nat /\ k \in 2..(Len(t) + 1) /\ m \in {0, 1}
      /\ Len(u) = m + (Len(t) + 1 - k) /\ Len(u) \in Nat
      /\ m = 1 => u[1][1] \in {"record", "hide"}
      /\ m = 1 /\ u[1][1] = "record" => u[1][2] = t[1][2] /\ t[1][1] = "manifest"
  BY DEF Successor, Twofold
<1>2. ASSUME NEW i \in (m + 1)..Len(u)
      PROVE  /\ i + (k - 1) - m \in 2..Len(t) /\ i \in 1..Len(u)
             /\ u[i] = t[i + (k - 1) - m]
  BY <1>1 DEF Successor
<1>3. ASSUME NEW j \in k..Len(t)
      PROVE  /\ j - (k - 1) + m \in (m + 1)..Len(u)
             /\ u[j - (k - 1) + m] = t[j]
  BY <1>1 DEF Successor
<1>4. ASSUME NEW i \in 1..Len(u), i \notin (m + 1)..Len(u)
      PROVE  i = 1 /\ m = 1
  BY <1>1, <1>4
<1>5. 1 \in 1..Len(t)
  BY <1>1
<1>6. \A i \in 1..Len(u) : u[i][1] \in StepKinds
  BY <1>1, <1>2, <1>4 DEF Ordered, StepKinds, ClusterKinds
<1>7. \A i \in 2..Len(u) : u[i][1] # "record"
  BY <1>1, <1>2 DEF Ordered
<1>8. OnAddons(u)
  <2> SUFFICES ASSUME NEW i \in 1..Len(u), u[i][1] \in {"manifest", "record"}
               PROVE  u[i][2] \in Addons
    BY DEF OnAddons
  <2>1. CASE i \in (m + 1)..Len(u)
    <3> DEFINE p == i + (k - 1) - m
    <3>1. p \in 1..Len(t) /\ u[i] = t[p]
      BY <1>1, <1>2, <2>1
    <3> HIDE DEF p
    <3>2. t[p][1] \in {"manifest", "record"}
      BY <3>1
    <3> QED
      BY <3>1, <3>2 DEF Ordered, OnAddons
  <2>2. CASE i \notin (m + 1)..Len(u)
    BY <1>1, <1>4, <1>5, <2>2 DEF Ordered, OnAddons
  <2> QED
    BY <2>1, <2>2
<1>9. SentinelSeen(u)
  <2> SUFFICES ASSUME NEW i \in 1..Len(u), u[i][1] \in {"sentinel", "guests-see", "pod-sees"}
               PROVE  /\ i < Len(u)
                      /\ u[i][1] = "sentinel" => u[i + 1][1] = "guests-see"
                      /\ u[i][1] = "guests-see" => u[i + 1][1] = "pod-sees"
                      /\ u[i][1] = "pod-sees" => u[i + 1][1] = "remove"
    BY DEF SentinelSeen
  <2>1. i \in (m + 1)..Len(u)
    BY <1>1, <1>4
  <2> DEFINE p == i + (k - 1) - m
  <2>2. p \in 2..Len(t) /\ p \in 1..Len(t) /\ u[i] = t[p]
    BY <1>1, <1>2, <2>1
  <2>3. /\ p < Len(t)
        /\ t[p][1] = "sentinel" => t[p + 1][1] = "guests-see"
        /\ t[p][1] = "guests-see" => t[p + 1][1] = "pod-sees"
        /\ t[p][1] = "pod-sees" => t[p + 1][1] = "remove"
    BY <2>2 DEF Ordered, SentinelSeen
  <2>4. i + 1 \in (m + 1)..Len(u) /\ (i + 1) + (k - 1) - m = p + 1 /\ i < Len(u)
    <3>1. p < Len(t)
      BY <2>3
    <3>2. i < Len(u)
      BY <1>1, <2>1, <3>1
    <3> QED
      BY <1>1, <2>1, <3>2
  <2>5. u[i + 1] = t[p + 1]
    BY <1>2, <2>4
  <2> QED
    BY <2>2, <2>3, <2>4, <2>5
<1>10. RestartedAfter(u)
  <2>1. ASSUME NEW i \in 1..Len(u), u[i][1] = "yaml"
        PROVE  \E j \in (i + 1)..Len(u) : u[j][1] = "restart"
    <3>1. i \in (m + 1)..Len(u)
      BY <1>1, <1>4, <2>1
    <3> DEFINE p == i + (k - 1) - m
    <3>2. p \in 2..Len(t) /\ p \in 1..Len(t) /\ u[i] = t[p]
      BY <1>1, <1>2, <3>1
    <3>r. t[p][1] = "yaml"
      BY <2>1, <3>2
    <3> HIDE DEF p
    <3>3. PICK j \in (p + 1)..Len(t) : t[j][1] = "restart"
      BY <3>2, <3>r DEF Ordered, RestartedAfter
    <3> USE DEF p
    <3>4. j \in k..Len(t) /\ j - (k - 1) + m \in (i + 1)..Len(u)
      BY <1>1, <3>1, <3>2
    <3>5. u[j - (k - 1) + m] = t[j]
      BY <1>3, <3>4
    <3> QED
      BY <3>3, <3>4, <3>5
  <2>2. ASSUME NEW i \in 1..Len(u), u[i][1] = "restart", NEW j \in (i + 1)..Len(u)
        PROVE  u[j][1] # "yaml"
    <3>1. i \in (m + 1)..Len(u)
      BY <1>1, <1>4, <2>2
    <3> DEFINE p == i + (k - 1) - m
               q == j + (k - 1) - m
    <3>2. p \in 2..Len(t) /\ p \in 1..Len(t) /\ u[i] = t[p]
      BY <1>1, <1>2, <3>1
    <3>3. j \in (m + 1)..Len(u)
      BY <1>1, <3>1
    <3>4. q \in (p + 1)..Len(t) /\ u[j] = t[q]
      <4>1. q \in 2..Len(t) /\ u[j] = t[q]
        BY <1>2, <3>3
      <4>2. p \in Int /\ q > p
        BY <1>1, <3>1, <3>3
      <4> QED
        BY <1>1, <4>1, <4>2
    <3>5. t[p][1] = "restart"
      BY <2>2, <3>2
    <3> HIDE DEF p, q
    <3> QED
      BY <3>2, <3>4, <3>5 DEF Ordered, RestartedAfter
  <2> QED
    BY <2>1, <2>2 DEF RestartedAfter
<1> QED
  BY <1>6, <1>7, <1>8, <1>9, <1>10 DEF Ordered

-----------------------------------------------------------------------------
(***************************************************************************)
(* A command: what its next step is, and what it has to do after it.       *)
(***************************************************************************)
LEMMA HeadOfTodo ==
    ASSUME TypeInv, Busy, ~Planning
    PROVE  /\ run # Idle /\ run.todo \in Seq(Steps(run.config)) /\ run.todo # <<>>
           /\ Len(run.todo) \in Nat \ {0}
           /\ Head(run.todo) = run.todo[1] /\ run.todo[1] \in Steps(run.config)
           /\ Ordered(run.todo) /\ run.todo[1][1] \in StepKinds
           /\ run.todo[1][1] \in {"manifest", "record"} => run.todo[1][2] \in Addons
<1>1. /\ run # Idle /\ run.todo \in Seq(Steps(run.config)) /\ run.todo # <<>>
      /\ Len(run.todo) \in Nat \ {0}
  BY DEF TypeInv, TodoTyped, Busy
<1>2. Head(run.todo) = run.todo[1] /\ 1 \in 1..Len(run.todo)
  BY <1>1
<1>3. run.todo[1] \in Steps(run.config)
  BY <1>1, <1>2
<1>4. Ordered(run.todo)
  BY <1>1, <1>2 DEF TypeInv, TodoOrdered, Unplanned, Planning
<1> QED
  BY <1>1, <1>2, <1>3, <1>4 DEF Ordered, OnAddons

LEMMA HeadOfPlanning ==
    ASSUME TypeInv, Planning
    PROVE  /\ run # Idle /\ Unplanned(run.todo) /\ Head(run.todo) = run.todo[1]
           /\ run.todo[1][2] \in Nodes \cup {Unset}
<1>1. /\ run # Idle /\ run.todo \in Seq(Steps(run.config)) /\ run.todo # <<>>
      /\ Len(run.todo) \in Nat \ {0}
  BY DEF TypeInv, TodoTyped, Busy, Planning
<1>2. Head(run.todo) = run.todo[1] /\ 1 \in 1..Len(run.todo)
  BY <1>1
<1>3. ~Ordered(run.todo)
  BY <1>2, StepsOfKinds DEF Ordered, Planning
<1> QED
  BY <1>1, <1>2, <1>3 DEF TypeInv, TodoOrdered

\* The command is the same, but for what it has to do.
SameRun ==
    /\ run' # Idle /\ DOMAIN run' = {"command", "todo", "config", "hash", "failing"}
    /\ run'.command = run.command /\ run'.config = run.config /\ run'.hash = run.hash

LEMMA ContinuedRun ==
    ASSUME TypeInv, Busy, ~Planning, Continue(run.todo[1])
    PROVE  /\ SameRun /\ run'.failing = run.failing
           /\ run'.todo \in Seq(Steps(run.config)) /\ Ordered(run'.todo)
           /\ \E k, m : Successor(run.todo, run'.todo, run.todo[1], k, m)
<1> DEFINE t == run.todo
<1>1. /\ run # Idle /\ t \in Seq(Steps(run.config)) /\ t # <<>> /\ t[1] \in Steps(run.config)
      /\ Ordered(t)
  BY HeadOfTodo
<1>2. DOMAIN run = {"command", "todo", "config", "hash", "failing"} /\ run.command \in Commands
  BY <1>1 DEF TypeInv, RunShape
<1>3. PICK k \in 2..(Len(t) + 1) :
        /\ \A j \in 2..(k - 1) : t[j] = Skip
        /\ run' = [run EXCEPT !.todo = Following(t[1]) \o SubSeq(t, k, Len(t))]
  BY DEF Continue
<1> DEFINE u == Following(t[1]) \o SubSeq(t, k, Len(t))
<1>4. u \in Seq(Steps(run.config)) /\ \E m \in {0, 1} : Successor(t, u, t[1], k, m)
  <2> HIDE DEF t
  <2> QED
    BY <1>1, <1>3, SplicedIsSuccessor
<1>5. /\ run'.todo = u /\ run'.failing = run.failing
      /\ DOMAIN run' = {"command", "todo", "config", "hash", "failing"}
      /\ run'.command = run.command /\ run'.config = run.config /\ run'.hash = run.hash
  <2> HIDE DEF u
  <2> QED
    BY <1>2, <1>3 DEF u
<1>6. run' # Idle
  BY <1>2, <1>5 DEF Idle, Commands
<1> HIDE DEF t, u
<1>7. Ordered(u)
  BY <1>1, <1>4, SuccessorIsOrdered
<1> QED
  BY <1>4, <1>5, <1>6, <1>7 DEF SameRun, t

LEMMA AbortedRun ==
    ASSUME TypeInv, Busy, ~Planning, Abort(run.todo[1])
    PROVE  /\ SameRun /\ run'.failing = TRUE
           /\ run'.todo \in Seq(Steps(run.config)) /\ Ordered(run'.todo)
           /\ IF run.todo[1][1] \in {"guests-see", "pod-sees"}
              THEN Len(run'.todo) = 1 /\ run'.todo[1][1] = "remove"
              ELSE run'.todo = <<>>
<1> DEFINE step == run.todo[1]
<1>1. run # Idle /\ step \in Steps(run.config)
  BY HeadOfTodo
<1>2. DOMAIN run = {"command", "todo", "config", "hash", "failing"} /\ run.command \in Commands
  BY <1>1 DEF TypeInv, RunShape
<1>3. run' = [run EXCEPT !.todo = Cleanup(step), !.failing = TRUE]
  BY DEF Abort
<1>4. /\ run'.todo = Cleanup(step) /\ run'.failing = TRUE
      /\ DOMAIN run' = {"command", "todo", "config", "hash", "failing"}
      /\ run'.command = run.command /\ run'.config = run.config /\ run'.hash = run.hash
  <2> HIDE DEF step
  <2> QED
    BY <1>2, <1>3
<1>5. run' # Idle
  BY <1>2, <1>4 DEF Idle, Commands
<1>6. /\ Cleanup(step) \in Seq(Steps(run.config)) /\ Ordered(Cleanup(step))
      /\ IF step[1] \in {"guests-see", "pod-sees"}
         THEN Len(Cleanup(step)) = 1 /\ Cleanup(step)[1][1] = "remove"
         ELSE Cleanup(step) = <<>>
  <2>1. CASE step[1] \in {"guests-see", "pod-sees"}
    <3>1. <<"remove", step[2]>> \in Steps(run.config)
      BY <1>1 DEF Steps, StepKinds, WorkloadKinds
    <3>2. Cleanup(step) = <<<<"remove", step[2]>>>>
      BY <2>1 DEF Cleanup
    <3> HIDE DEF step
    <3>3. Len(Cleanup(step)) = 1 /\ Cleanup(step)[1] = <<"remove", step[2]>>
      BY <3>2
    <3>4. Ordered(Cleanup(step))
      BY <3>3 DEF Ordered, OnAddons, SentinelSeen, RestartedAfter, StepKinds, WorkloadKinds
    <3> QED
      BY <2>1, <3>1, <3>2, <3>3, <3>4
  <2>2. CASE step[1] \notin {"guests-see", "pod-sees"}
    <3>1. Cleanup(step) = <<>>
      BY <2>2 DEF Cleanup
    <3> HIDE DEF step
    <3> QED
      BY <2>2, <3>1 DEF Ordered, OnAddons, SentinelSeen, RestartedAfter
  <2> QED
    BY <2>1, <2>2
<1> QED
  BY <1>4, <1>5, <1>6 DEF SameRun

LEMMA FirstOfNodes ==
    ASSUME NEW c, NEW d, c.nodes = d.nodes
    PROVE  FirstServer(c) = FirstServer(d)
<1> DEFINE Is(nodes, n) == nodes[n].role = "server" /\ nodes[n].clusterInit
           Of(nodes) ==
              CHOOSE n \in DOMAIN nodes :
                  \/ Is(nodes, n) /\ \A k \in 1..(n - 1) : ~Is(nodes, k)
                  \/ /\ \A k \in DOMAIN nodes : ~Is(nodes, k)
                     /\ nodes[n].role = "server" /\ \A k \in 1..(n - 1) : nodes[k].role # "server"
<1>1. FirstServer(c) = Of(c.nodes) /\ FirstServer(d) = Of(d.nodes)
  BY DEF FirstServer, Initial
<1> HIDE DEF Of
<1> QED
  BY <1>1

LEMMA BegunRun ==
    ASSUME TypeInv, NEW command \in Commands, NEW node \in Nodes \cup {Unset}, Begin(command, node)
    PROVE  /\ run' # Idle /\ DOMAIN run' = {"command", "todo", "config", "hash", "failing"}
           /\ run'.command = command /\ run'.config = config /\ run'.failing = FALSE
           /\ run'.hash = HashOf(packaged) /\ run'.hash \in [Addons -> 0..packaged]
           /\ run'.todo \in Seq(Steps(config)) /\ Unplanned(run'.todo)
           /\ run'.todo[1] = <<"plan", node>>
<1>1. run' = [command |-> command, todo |-> <<<<"plan", node>>>>, config |-> config,
              hash |-> HashOf(packaged), failing |-> FALSE]
  BY DEF Begin
<1>2. run' # Idle
  BY <1>1 DEF Idle, Commands
<1>3. <<"plan", node>> \in Steps(config)
  BY DEF Steps, Subjects, TypeInv, WorldShape
<1>4. HashOf(packaged) \in [Addons -> 0..packaged]
  BY DEF HashOf, TypeInv
<1>5. Unplanned(<<<<"plan", node>>>>)
  BY DEF Unplanned
<1> QED
  BY <1>1, <1>2, <1>3, <1>4, <1>5

LEMMA PlannedRun ==
    ASSUME TypeInv, MakePlan
    PROVE  /\ SameRun /\ run'.failing = run.failing
           /\ run'.todo \in Seq(Steps(run.config)) /\ Ordered(run'.todo)
           /\ \A k \in 1..Len(run'.todo) : run'.todo[k][1] \notin {"plan", "record"}
           /\ run.todo[1][2] = Unset => \A k \in 1..Len(run'.todo) : run'.todo[k][1] # "reboot"
           /\ \A k \in 1..Len(run'.todo) :
                run'.todo[k][1] = "start" /\ run'.todo[k][2] # First =>
                    HostApi \/ \E j \in 1..(k - 1) : run'.todo[j][1] = "api"
           /\ run.command = "csi" => run'.todo = CsiSteps(run.config)
<1> DEFINE c == run.config
           node == run.todo[1][2]
           plan == PlanNow(c, run.hash)
           u == StepsFor(run.command, node)
<1>1. /\ run # Idle /\ Planning /\ Head(run.todo) = run.todo[1]
      /\ node \in Nodes \cup {Unset}
  BY HeadOfPlanning DEF MakePlan
<1>2. /\ DOMAIN run = {"command", "todo", "config", "hash", "failing"} /\ run.command \in Commands
      /\ c.nodes = config.nodes /\ Len(c.nodes) \in Nat /\ Nodes = 1..Len(c.nodes)
  BY <1>1 DEF TypeInv, RunShape, WorldShape
<1>3. run' = [run EXCEPT !.todo = u]
  BY <1>1 DEF MakePlan
<1>4. /\ run'.todo = u /\ run'.failing = run.failing
      /\ DOMAIN run' = {"command", "todo", "config", "hash", "failing"}
      /\ run'.command = run.command /\ run'.config = run.config /\ run'.hash = run.hash
  <2> HIDE DEF u
  <2> QED
    BY <1>2, <1>3
<1>5. run' # Idle
  BY <1>2, <1>4 DEF Idle, Commands
<1>6. First = FirstServer(c)
  BY <1>2, FirstOfNodes DEF First
<1>7. /\ plan \in Seq(PlanSteps(c))
      /\ \A k \in 1..Len(plan) :
            plan[k][1] = "start" /\ plan[k][2] # First =>
                HostApi \/ \E j \in 1..(k - 1) : plan[j][1] = "api"
  <2>1. Inspected.api = HostApi
    BY DEF Inspected
  <2> QED
    BY <1>2, <1>6, <2>1, PlannedSteps DEF PlanNow
<1>8. ASSUME NEW k \in 1..Len(plan)
      PROVE  plan[k][1] \notin {"plan", "record", "reboot"}
  <2>1. plan[k] \in PlanSteps(c)
    <3> HIDE DEF plan
    <3> QED
      BY <1>7, ElementOfSeq
  <2> QED
    BY <2>1 DEF PlanSteps
<1> DEFINE Good(s) ==
              /\ s \in Seq(Steps(c)) /\ Ordered(s)
              /\ \A k \in 1..Len(s) : s[k][1] \notin {"plan", "record"}
              /\ node = Unset => \A k \in 1..Len(s) : s[k][1] # "reboot"
              /\ \A k \in 1..Len(s) :
                    s[k][1] = "start" /\ s[k][2] # First =>
                        HostApi \/ \E j \in 1..(k - 1) : s[j][1] = "api"
<1>9. Good(u) /\ (run.command = "csi" => u = CsiSteps(c))
  <2>1. CASE run.command = "apply"
    <3>1. u = plan
      BY <2>1 DEF StepsFor
    <3>2. PlanSteps(c) \subseteq ClusterSteps(c)
      BY DEF PlanSteps, ClusterSteps, PlannedKinds, ClusterKinds
    <3> HIDE DEF plan, u
    <3>3. plan \in Seq(ClusterSteps(c))
      BY <1>7, <3>2, SeqMonotonic
    <3>4. Good(plan)
      BY <1>7, <1>8, <3>3, OrderedClusterSteps
    <3> QED
      BY <2>1, <3>1, <3>4
  <2>2. CASE run.command = "install"
    <3>1. u = InstallSteps(plan, node)
      BY <2>2 DEF StepsFor
    <3> DEFINE s == InstallSteps(plan, node)
    <3> HIDE DEF plan, u
    <3>2. /\ s \in Seq(ClusterSteps(c)) /\ Len(plan) =< Len(s)
          /\ \A k \in 1..Len(plan) : s[k] = plan[k]
          /\ \A k \in (Len(plan) + 1)..Len(s) :
                s[k][1] # "start" /\ (s[k][1] = "reboot" => node # Unset)
      <4>1. plan \in Seq(PlanSteps(c)) /\ node \in 1..Len(c.nodes) \cup {Unset}
        BY <1>1, <1>2, <1>7
      <4> HIDE DEF c, node
      <4> QED
        BY <4>1, InstallIsTyped
    <3>3. s \in Seq(Steps(c)) /\ Ordered(s) /\ \A k \in 1..Len(s) : s[k][1] # "plan"
      BY <3>2, OrderedClusterSteps
    <3>4. Len(plan) \in Nat /\ Len(s) \in Nat
      BY <1>7, <3>2
    <3> HIDE DEF s
    <3>5. ASSUME NEW k \in 1..Len(s)
          PROVE  /\ node = Unset => s[k][1] # "reboot"
                 /\ s[k][1] = "start" /\ s[k][2] # First =>
                          HostApi \/ \E j \in 1..(k - 1) : s[j][1] = "api"
      <4>1. CASE k \in 1..Len(plan)
        <5>1. s[k] = plan[k] /\ \A j \in 1..(k - 1) : s[j] = plan[j]
          BY <3>2, <3>4, <4>1
        <5> QED
          BY <1>7, <1>8, <4>1, <5>1
      <4>2. CASE k \in (Len(plan) + 1)..Len(s)
        BY <3>2, <4>2
      <4> QED
        BY <3>4, <4>1, <4>2
    <3>6. \A k \in 1..Len(s) : s[k][1] # "record"
      <4>1. ASSUME NEW k \in 1..Len(s)
            PROVE  s[k] \in ClusterSteps(c)
        BY <3>2, ElementOfSeq
      <4> QED
        BY <4>1 DEF ClusterSteps, PlannedKinds
    <3>7. Good(s)
      BY <3>3, <3>5, <3>6
    <3> QED
      BY <2>2, <3>1, <3>7 DEF s
  <2>3. CASE run.command = "check"
    <3>1. u = <<<<"verify", 0>>>>
      BY <2>3 DEF StepsFor
    <3>2. <<"verify", 0>> \in ClusterSteps(c)
      BY DEF ClusterSteps, PlannedKinds, ClusterKinds, Subjects
    <3>3. <<<<"verify", 0>>>> \in Seq(ClusterSteps(c))
      BY <3>2
    <3> HIDE DEF u
    <3>4. u \in Seq(Steps(c)) /\ Ordered(u) /\ Len(u) = 1 /\ u[1][1] = "verify"
      BY <3>1, <3>3, OrderedClusterSteps
    <3>5. Good(u)
      BY <3>4
    <3> QED
      BY <2>3, <3>5
  <2>4. CASE run.command = "csi"
    <3>1. u = CsiSteps(c)
      BY <2>4 DEF StepsFor
    <3> HIDE DEF u
    <3>2. Good(CsiSteps(c))
      BY <1>2, CsiIsTyped
    <3> QED
      BY <3>1, <3>2
  <2>5. CASE run.command = "workload"
    <3>1. u = WorkloadSteps(c)
      BY <2>5 DEF StepsFor
    <3> HIDE DEF u
    <3>2. Good(WorkloadSteps(c))
      BY WorkloadIsTyped
    <3> QED
      BY <2>5, <3>1, <3>2
  <2> QED
    BY <1>2, <2>1, <2>2, <2>3, <2>4, <2>5 DEF Commands
<1> HIDE DEF u
<1> QED
  BY <1>4, <1>5, <1>9 DEF SameRun

-----------------------------------------------------------------------------
(***************************************************************************)
(* The type invariant.                                                     *)
(***************************************************************************)
LEMMA YamlNeedsAgent ==
    ASSUME NEW step, step[1] = "yaml", Holds(step)
    PROVE  HasAgent(step[2])
<1>1. step[1] \in CsiKinds /\ step[1] \notin ClusterKinds
  BY DEF ClusterKinds, CsiKinds
<1>2. Holds(step) = CsiHolds(step)
  <2>1. step[1] \notin WorkloadKinds
    BY <1>1, StepsOfKinds
  <2> QED
    BY <1>1, <2>1 DEF Holds
<1>3. CsiHolds(step) <=> HasAgent(step[2])
  BY DEF CsiHolds
<1> QED
  BY <1>2, <1>3

LEMMA StepTyped ==
    ASSUME TypeInv, Busy, ~Planning, Holds(run.todo[1]), Effect(run.todo[1]),
           UNCHANGED <<config, packaged>>
    PROVE  GuestsTyped' /\ StoresTyped' /\ WorldShape'
<1> DEFINE step == run.todo[1]
<1>0. FilesMay(step) /\ ClusterMay(step) /\ GuestsMay(step)
  BY EffectMay DEF TypeInv
<1>1. /\ step[1] \in {"manifest", "record"} => step[2] \in Addons
      /\ run.hash \in [Addons -> 0..packaged]
  <2>1. run # Idle /\ (step[1] \in {"manifest", "record"} => step[2] \in Addons)
    BY HeadOfTodo
  <2> QED
    BY <2>1 DEF TypeInv, RunShape
<1>2. packaged \in Nat /\ packaged' = packaged /\ config' = config /\ Nodes' = Nodes
  BY DEF TypeInv, Nodes
<1>3. step[1] = "yaml" => HasAgent(step[2])
  BY YamlNeedsAgent
<1> HIDE DEF step
<1>4. GuestsTyped'
  <2> SUFFICES ASSUME NEW n \in Nodes
               PROVE  /\ guest'[n].state \in {"off", "boot", "up", "serving"}
                      /\ HasAgent(n)' => guest'[n].given.done
                      /\ IsLoaded(n)' => /\ guest'[n].state = "serving"
                                         /\ ValidRuntimeConfig(guest'[n].plugin.config)
    BY <1>2 DEF GuestsTyped
  <2>1. /\ guest[n].state \in {"off", "boot", "up", "serving"}
        /\ HasAgent(n) => guest[n].given.done
        /\ IsLoaded(n) => guest[n].state = "serving" /\ ValidRuntimeConfig(guest[n].plugin.config)
        /\ guest[n].given.done => DOMAIN guest[n].given = {"done", "yaml", "fstab"}
    BY DEF TypeInv, GuestsTyped, WorldShape
  <2>2. /\ guest'[n].state = IF step[1] \in {"start", "reboot"} /\ n = step[2]
                             THEN "boot" ELSE guest[n].state
        /\ guest'[n].given = IF step[1] = "yaml" /\ n = step[2]
                             THEN [guest[n].given EXCEPT !.yaml = RuntimeConfig(run.config, n)]
                             ELSE guest[n].given
        /\ guest'[n].plugin \in {guest[n].plugin, NoPlugin}
        /\ step[1] \in {"start", "reboot"} /\ n = step[2] => guest'[n].plugin = NoPlugin
    BY <1>0 DEF GuestsMay
  <2>3. guest'[n].state \in {"off", "boot", "up", "serving"}
    BY <2>1, <2>2
  <2>4. HasAgent(n)' => guest'[n].given.done
    <3>1. ASSUME HasAgent(n)'
          PROVE  guest[n].given.done
      BY <2>1, <2>2, <3>1 DEF HasAgent
    <3>2. CASE step[1] = "yaml" /\ n = step[2]
      BY <1>3, <2>1, <2>2, <3>1, <3>2
    <3>3. CASE ~(step[1] = "yaml" /\ n = step[2])
      BY <2>2, <3>1, <3>3
    <3> QED
      BY <3>2, <3>3
  <2>5. ASSUME IsLoaded(n)'
        PROVE  /\ guest'[n].state = "serving"
               /\ ValidRuntimeConfig(guest'[n].plugin.config)
    <3>1. guest'[n].plugin # NoPlugin
      BY <2>5 DEF IsLoaded, NoPlugin
    <3>2. guest'[n].plugin = guest[n].plugin /\ guest'[n].state = guest[n].state
      BY <2>2, <3>1
    <3>3. IsLoaded(n)
      BY <2>5, <3>2 DEF IsLoaded
    <3> QED
      BY <2>1, <3>2, <3>3
  <2> QED
    BY <2>3, <2>4, <2>5
<1>5. StoresTyped'
  <2>1. /\ cluster.nodes \subseteq Nodes
        /\ cluster.manifests \in [Addons -> 0..packaged]
        /\ cluster.pods \subseteq {"smoke", "probe", "workload"}
        /\ files.kubeconfig \in {"none", "stale", "current"}
        /\ files.open \subseteq {"token", "kubeconfig"}
        /\ files.marker \in [Addons -> 0..packaged]
    BY DEF TypeInv, StoresTyped
  <2>2. cluster'.nodes \subseteq Nodes /\ cluster'.pods \subseteq {"smoke", "probe", "workload"}
    BY <1>0, <2>1 DEF ClusterMay
  <2>3. cluster'.manifests \in [Addons -> 0..packaged]
    <3>1. step[1] \in {"manifest", "deploy"} => Applied(step) \in Addons
      BY <1>1 DEF Applied, Addons
    <3>2. packaged \in 0..packaged
      BY <1>2
    <3> QED
      BY <1>0, <2>1, <3>1, <3>2 DEF ClusterMay
  <2>4. files'.marker \in [Addons -> 0..packaged]
    BY <1>0, <1>1, <2>1 DEF FilesMay
  <2>5. /\ files'.kubeconfig \in {"none", "stale", "current"}
        /\ files'.open \subseteq {"token", "kubeconfig"}
    BY <1>0, <2>1 DEF FilesMay
  <2> QED
    BY <1>2, <2>2, <2>3, <2>4, <2>5 DEF StoresTyped
<1>6. WorldShape'
  <2>1. \A n \in Nodes : guest'[n].given.done => DOMAIN guest'[n].given = {"done", "yaml", "fstab"}
    <3> SUFFICES ASSUME NEW n \in Nodes, guest'[n].given.done
                 PROVE  DOMAIN guest'[n].given = {"done", "yaml", "fstab"}
      OBVIOUS
    <3>1. /\ HasAgent(n) => guest[n].given.done
          /\ guest[n].given.done => DOMAIN guest[n].given = {"done", "yaml", "fstab"}
      BY DEF TypeInv, GuestsTyped, WorldShape
    <3>2. guest'[n].given = IF step[1] = "yaml" /\ n = step[2]
                            THEN [guest[n].given EXCEPT !.yaml = RuntimeConfig(run.config, n)]
                            ELSE guest[n].given
      BY <1>0 DEF GuestsMay
    <3>3. CASE step[1] = "yaml" /\ n = step[2]
      <4>1. DOMAIN guest[n].given = {"done", "yaml", "fstab"}
        BY <1>3, <3>1, <3>3
      <4> QED
        BY <3>2, <3>3, <4>1
    <3>4. CASE ~(step[1] = "yaml" /\ n = step[2])
      <4>1. guest'[n].given = guest[n].given
        BY <3>2, <3>4
      <4> QED
        BY <3>1, <4>1
    <3> QED
      BY <3>3, <3>4
  <2>2. /\ DOMAIN config = {"profile", "nodes", "exports", "addons"}
        /\ Len(config.nodes) \in Nat /\ Nodes = 1..Len(config.nodes)
    BY DEF TypeInv, WorldShape
  <2>3. GuestsShaped(guest, Nodes)'
    BY <1>0, <1>2 DEF GuestsMay, GuestsShaped
  <2> QED
    BY <1>0, <1>2, <2>1, <2>2, <2>3 DEF WorldShape, ClusterMay, FilesMay
<1> QED
  BY <1>4, <1>5, <1>6

\* The steps of the environment, guest by guest.
BootGuests(n) ==
    /\ GuestsShaped(guest', Nodes)
    /\ guest[n].state = "boot"
    /\ \A m \in Nodes :
          /\ guest'[m].state = IF m = n THEN "up" ELSE guest[m].state
          /\ guest'[m].plugin = guest[m].plugin
          /\ guest'[m].given = IF m = n /\ ~guest[m].given.done
                               THEN Given(RuntimeConfig(config, m), GuestMounts(config, m))
                               ELSE guest[m].given

PluginGuests(n) ==
    /\ GuestsShaped(guest', Nodes)
    /\ guest[n].state = "serving"
    /\ \A m \in Nodes :
          /\ guest'[m].state = guest[m].state /\ guest'[m].given = guest[m].given
          /\ guest'[m].plugin = IF m = n
                                THEN IF ValidRuntimeConfig(guest[n].given.yaml)
                                     THEN Running(guest[n].given.yaml) ELSE Refused
                                ELSE guest[m].plugin

LEMMA BootChanges ==
    ASSUME TypeInv, NEW n \in Nodes, Boot(n)
    PROVE  BootGuests(n)
<1> DEFINE yaml == RuntimeConfig(config, n)
           mounts == GuestMounts(config, n)
<1>1. guest' = [guest EXCEPT ![n].state = "up",
                             ![n].given = IF @.done THEN @ ELSE Given(yaml, mounts)]
  BY DEF Boot
<1>2. GuestsShaped(guest, Nodes)
  BY DEF TypeInv, WorldShape
<1> HIDE DEF yaml, mounts
<1>3. /\ GuestsShaped(guest', Nodes)
      /\ \A m \in Nodes :
            /\ guest'[m].state = IF m = n THEN "up" ELSE guest[m].state
            /\ guest'[m].plugin = guest[m].plugin
            /\ guest'[m].given = IF m = n /\ ~guest[m].given.done
                                 THEN Given(yaml, mounts) ELSE guest[m].given
  BY <1>1, <1>2 DEF GuestsShaped, GuestFields
<1> QED
  BY <1>3 DEF BootGuests, Boot, yaml, mounts

LEMMA PluginChanges ==
    ASSUME TypeInv, NEW n \in Nodes, StartPlugin(n)
    PROVE  PluginGuests(n)
<1> DEFINE yaml == guest[n].given.yaml
           plugin == IF ValidRuntimeConfig(yaml) THEN Running(yaml) ELSE Refused
<1>1. guest' = [guest EXCEPT ![n].plugin = plugin]
  BY DEF StartPlugin
<1>2. GuestsShaped(guest, Nodes)
  BY DEF TypeInv, WorldShape
<1> HIDE DEF plugin
<1>3. /\ GuestsShaped(guest', Nodes)
      /\ \A m \in Nodes :
            /\ guest'[m].state = guest[m].state /\ guest'[m].given = guest[m].given
            /\ guest'[m].plugin = IF m = n THEN plugin ELSE guest[m].plugin
  BY <1>1, <1>2 DEF GuestsShaped, GuestFields
<1> QED
  BY <1>3 DEF PluginGuests, StartPlugin, NodeReady, plugin

\* Serving, registering, meddling and rebuilding leave node.yaml alone, or
\* take it away.
OtherGuests ==
    /\ GuestsShaped(guest', Nodes)
    /\ \A m \in Nodes :
          /\ \/ guest'[m].given = guest[m].given
             \/ guest'[m].given = NotGiven /\ guest'[m].state = "off" /\ run = Idle
          /\ \/ guest'[m].plugin = guest[m].plugin
                /\ \/ guest'[m].state = guest[m].state
                   \/ guest[m].state = "up" /\ guest'[m].state = "serving"
             \/ guest'[m].plugin = NoPlugin /\ guest'[m].state = "off"

LEMMA OtherChanges ==
    ASSUME TypeInv,
           \/ \E n \in Nodes : Serve(n) \/ Register(n) \/ Meddle(n)
           \/ \E p \in Names : EditConfig(p)
           \/ Upgrade \/ Rebuild
    PROVE  OtherGuests
<1>1. GuestsShaped(guest, Nodes)
  BY DEF TypeInv, WorldShape
<1>2. CASE guest' = guest
  BY <1>1, <1>2 DEF OtherGuests
<1>3. ASSUME NEW n \in Nodes, Serve(n)
      PROVE  OtherGuests
  <2>1. guest[n].state = "up" /\ guest' = [guest EXCEPT ![n].state = "serving"]
    BY <1>3 DEF Serve
  <2>2. /\ GuestsShaped(guest', Nodes)
        /\ \A m \in Nodes :
              /\ guest'[m].state = IF m = n THEN "serving" ELSE guest[m].state
              /\ guest'[m].plugin = guest[m].plugin /\ guest'[m].given = guest[m].given
    BY <1>1, <2>1 DEF GuestsShaped, GuestFields
  <2> QED
    BY <2>1, <2>2 DEF OtherGuests
<1>4. ASSUME NEW n \in Nodes, Meddle(n)
      PROVE  OtherGuests
  <2>1. guest' = guest \/ guest' = [guest EXCEPT ![n].state = "off", ![n].plugin = NoPlugin]
    BY <1>4 DEF Meddle
  <2>2. CASE guest' = [guest EXCEPT ![n].state = "off", ![n].plugin = NoPlugin]
    <3>1. /\ GuestsShaped(guest', Nodes)
          /\ \A m \in Nodes :
                /\ guest'[m].state = IF m = n THEN "off" ELSE guest[m].state
                /\ guest'[m].plugin = IF m = n THEN NoPlugin ELSE guest[m].plugin
                /\ guest'[m].given = guest[m].given
      BY <1>1, <2>2 DEF GuestsShaped, GuestFields
    <3> QED
      BY <3>1 DEF OtherGuests
  <2> QED
    BY <1>2, <2>1, <2>2
<1>5. CASE Rebuild
  <2>1. guest' = [n \in Nodes |-> Off] /\ run = Idle
    BY <1>5 DEF Rebuild
  <2>2. DOMAIN Off = GuestFields /\ Off.given = NotGiven /\ Off.plugin = NoPlugin /\ Off.state = "off"
    BY DEF Off, GuestFields
  <2> QED
    BY <2>1, <2>2 DEF OtherGuests, GuestsShaped
<1>6. ASSUME NEW n \in Nodes, Register(n)
      PROVE  guest' = guest
  BY <1>6 DEF Register
<1>7. Upgrade \/ (\E p \in Names : EditConfig(p)) => guest' = guest
  BY DEF Upgrade, EditConfig, world
<1> QED
  BY <1>2, <1>3, <1>4, <1>5, <1>6, <1>7

LEMMA FaultTyped ==
    ASSUME FaultsTypeOK, NEW k \in FaultKinds, Happens(k)
    PROVE  /\ FaultsTypeOK'
           /\ faults'[k] = faults[k] + 1
           /\ \A j \in FaultKinds : j # k => faults'[j] = faults[j]
  BY DEF FaultsTypeOK, Happens, Fault

\* A command that does not go on stays as it is.
LEMMA RunTyped ==
    ASSUME TypeInv, run' \in {run, Idle}, config'.nodes = config.nodes,
           packaged' \in {packaged, packaged + 1}
    PROVE  RunShape' /\ TodoTyped' /\ TodoOrdered'
<1>1. CASE run' = Idle
  BY <1>1 DEF RunShape, TodoTyped, TodoOrdered, Idle
<1>2. CASE run' = run
  <2>1. Nodes' = Nodes
    BY DEF Nodes
  <2>2. run # Idle => run.hash \in [Addons -> 0..packaged']
    BY DEF TypeInv, RunShape
  <2> QED
    BY <1>2, <2>1, <2>2 DEF TypeInv, RunShape, TodoTyped, TodoOrdered, Idle
<1> QED
  BY <1>1, <1>2

LEMMA TypeOfInit == Init => TypeInv
<1> SUFFICES ASSUME Init PROVE TypeInv
  OBVIOUS
<1>1. /\ WorldInit /\ run = Idle
  BY DEF Init
<1>2. PICK i \in Intents, h \in Found, s \in Selections : config = HostConfigFrom(i, Discover(h), s)
  BY <1>1 DEF WorldInit
<1>3. i.servers + i.agents \in Nat
  BY IntentsAssumption
<1>4. Len(config.nodes) \in Nat /\ Nodes = 1..Len(config.nodes)
  <2> DEFINE size == i.servers + i.agents
             node(k) == IF k <= i.servers THEN NodeFrom(i, s, "server", k)
                        ELSE NodeFrom(i, s, "agent", k - i.servers)
  <2>1. config.nodes = [k \in 1..size |-> node(k)]
    BY <1>2 DEF HostConfigFrom
  <2>2. size \in Nat
    BY <1>3
  <2> HIDE DEF size, node
  <2>3. Len(config.nodes) = size /\ DOMAIN config.nodes = 1..size
    BY <2>1, <2>2
  <2> QED
    BY <2>2, <2>3 DEF Nodes
<1>5. DOMAIN config = {"profile", "nodes", "exports", "addons"}
  BY <1>2 DEF HostConfigFrom
<1>6. guest = [n \in Nodes |-> Off] /\ cluster = EmptyCluster(config) /\ packaged = 1
  BY <1>1 DEF WorldInit
<1>7. files = [token |-> FALSE, kubeconfig |-> "none", open |-> {},
               marker |-> [m \in Addons |-> 0], sentinel |-> FALSE]
  BY <1>1 DEF WorldInit
<1>8. GuestsTyped
  BY <1>6 DEF GuestsTyped, Off, HasAgent, IsLoaded, NoPlugin
<1>9. StoresTyped
  BY <1>6, <1>7 DEF StoresTyped, EmptyCluster
<1>10. WorldShape
  <2>1. GuestsShaped(guest, Nodes)
    BY <1>6 DEF GuestsShaped, GuestFields, Off
  <2>2. \A n \in Nodes : ~guest[n].given.done
    BY <1>6 DEF Off, NotGiven
  <2> QED
    BY <1>4, <1>5, <1>6, <1>7, <2>1, <2>2 DEF WorldShape, EmptyCluster
<1>11. FaultsTypeOK
  BY <1>1 DEF WorldInit, FaultsInit, FaultsTypeOK
<1> QED
  BY <1>1, <1>6, <1>8, <1>9, <1>10, <1>11 DEF TypeInv, RunShape, TodoTyped, TodoOrdered

LEMMA TypeOfCommands ==
    ASSUME TypeInv,
           \/ \E command \in Commands, node \in Nodes \cup {Unset} : Begin(command, node)
           \/ MakePlan \/ Work \/ StepFails \/ StepBreaks \/ Finish \/ Kill
    PROVE  TypeInv'
<1>0. {"crash", "fail", "meddle"} \subseteq FaultKinds
  BY FaultKindsAssumption
\* Without an effect the world keeps its type.
<1>1. ASSUME UNCHANGED <<config, packaged, world>>
      PROVE  packaged' \in Nat \ {0} /\ GuestsTyped' /\ StoresTyped' /\ WorldShape'
  BY <1>1 DEF TypeInv, GuestsTyped, StoresTyped, WorldShape, HasAgent, IsLoaded, Nodes, world
\* A command that goes on keeps its type.
<1>2. ASSUME UNCHANGED <<config, packaged>>, SameRun, run # Idle,
             run'.todo \in Seq(Steps(run.config)), Ordered(run'.todo)
      PROVE  RunShape' /\ TodoTyped' /\ TodoOrdered'
  BY <1>2 DEF TypeInv, RunShape, TodoTyped, TodoOrdered, SameRun, Idle
<1>3. ASSUME NEW command \in Commands, NEW node \in Nodes \cup {Unset}, Begin(command, node)
      PROVE  TypeInv'
  <2>1. FaultsTypeOK'
    BY <1>0, <1>3, FaultTyped DEF Begin, NoFault, TypeInv, FaultsTypeOK
  <2>2. UNCHANGED <<config, packaged, world>>
    BY <1>3 DEF Begin
  <2>3. /\ run' # Idle /\ DOMAIN run' = {"command", "todo", "config", "hash", "failing"}
        /\ run'.command = command /\ run'.config = config
        /\ run'.hash \in [Addons -> 0..packaged]
        /\ run'.todo \in Seq(Steps(config)) /\ Unplanned(run'.todo)
        /\ run'.todo[1] = <<"plan", node>>
    BY <1>3, BegunRun
  <2>4. run'.todo[1][2] \in Nodes'
            \cup {Unset}
    BY <2>2, <2>3 DEF Nodes
  <2>5. RunShape' /\ TodoTyped' /\ TodoOrdered'
    BY <2>2, <2>3, <2>4 DEF RunShape, TodoTyped, TodoOrdered, Idle
  <2> QED
    BY <1>1, <2>1, <2>2, <2>5 DEF TypeInv
<1>4. CASE MakePlan
  <2>1. UNCHANGED <<faults, config, packaged, world>> /\ run # Idle
    BY <1>4 DEF MakePlan, Planning, Busy
  <2>2. RunShape' /\ TodoTyped' /\ TodoOrdered'
    BY <1>2, <1>4, <2>1, PlannedRun
  <2> QED
    BY <1>1, <2>1, <2>2 DEF TypeInv, FaultsTypeOK
<1>5. ASSUME Busy, ~Planning, UNCHANGED <<config, packaged>>,
             Continue(run.todo[1]) \/ Abort(run.todo[1])
      PROVE  RunShape' /\ TodoTyped' /\ TodoOrdered'
  <2>1. /\ SameRun /\ run # Idle
        /\ run'.todo \in Seq(Steps(run.config)) /\ Ordered(run'.todo)
    BY <1>5, ContinuedRun, AbortedRun DEF Busy
  <2> QED
    BY <1>2, <1>5, <2>1
<1>6. CASE Work
  <2>1. /\ Busy /\ ~Planning /\ UNCHANGED <<faults, config, packaged>>
        /\ Holds(run.todo[1]) /\ Effect(run.todo[1]) /\ Continue(run.todo[1])
    BY <1>6, HeadOfTodo DEF Work
  <2>2. GuestsTyped' /\ StoresTyped' /\ WorldShape'
    BY <2>1, StepTyped
  <2> QED
    BY <1>5, <2>1, <2>2 DEF TypeInv, FaultsTypeOK
<1>7. CASE StepFails
  <2>1. /\ Busy /\ ~Planning /\ UNCHANGED <<faults, config, packaged, world>>
        /\ Continue(run.todo[1]) \/ Abort(run.todo[1])
    BY <1>7, HeadOfTodo DEF StepFails
  <2> QED
    BY <1>1, <1>5, <2>1 DEF TypeInv, FaultsTypeOK
<1>8. CASE StepBreaks
  <2>1. /\ Busy /\ ~Planning /\ Happens("fail") /\ UNCHANGED <<config, packaged>>
        /\ Holds(run.todo[1]) /\ (Effect(run.todo[1]) \/ UNCHANGED world)
        /\ Continue(run.todo[1]) \/ Abort(run.todo[1])
    BY <1>8, HeadOfTodo DEF StepBreaks
  <2>2. GuestsTyped' /\ StoresTyped' /\ WorldShape'
    BY <1>1, <2>1, StepTyped
  <2>3. FaultsTypeOK'
    BY <1>0, <2>1, FaultTyped DEF TypeInv
  <2> QED
    BY <1>5, <2>1, <2>2, <2>3 DEF TypeInv
<1>9. CASE Finish \/ Kill
  <2>1. run' = Idle /\ UNCHANGED <<config, packaged, world>>
    BY <1>9 DEF Finish, Kill
  <2>2. FaultsTypeOK'
    BY <1>0, <1>9, FaultTyped DEF Finish, Kill, TypeInv, FaultsTypeOK
  <2> QED
    BY <1>1, <2>1, <2>2, RunTyped DEF TypeInv
<1> QED
  BY <1>3, <1>4, <1>6, <1>7, <1>8, <1>9

LEMMA TypeOfEnvironment ==
    ASSUME TypeInv, Environment
    PROVE  TypeInv'
<1>0. {"meddle", "edit", "upgrade", "rebuild"} \subseteq FaultKinds
  BY FaultKindsAssumption
<1>1. FaultsTypeOK'
  BY <1>0, FaultTyped
     DEF TypeInv, FaultsTypeOK, Environment, Progress, Boot, Serve, Register, StartPlugin,
         Meddle, EditConfig, Upgrade, Rebuild
<1>2. /\ run' = run /\ config'.nodes = config.nodes /\ packaged' \in {packaged, packaged + 1}
      /\ DOMAIN config' = {"profile", "nodes", "exports", "addons"}
  <2>1. DOMAIN config = {"profile", "nodes", "exports", "addons"}
    BY DEF TypeInv, WorldShape
  <2>2. ASSUME NEW p \in Names, EditConfig(p)
        PROVE  /\ run' = run /\ config'.nodes = config.nodes /\ packaged' = packaged
               /\ DOMAIN config' = {"profile", "nodes", "exports", "addons"}
    BY <2>1, <2>2 DEF EditConfig
  <2>3. CASE config' = config
    <3>1. run' = run /\ packaged' \in {packaged, packaged + 1}
      BY DEF Environment, Progress, Boot, Serve, Register, StartPlugin,
             Meddle, EditConfig, Upgrade, Rebuild
    <3> QED
      BY <2>1, <2>3, <3>1
  <2>4. config' = config \/ \E p \in Names : EditConfig(p)
    BY DEF Environment, Progress, Boot, Serve, Register, StartPlugin, Meddle, Upgrade, Rebuild
  <2> QED
    BY <2>2, <2>3, <2>4
<1>3. Nodes' = Nodes
  BY <1>2 DEF Nodes
<1>4. RunShape' /\ TodoTyped' /\ TodoOrdered'
  BY <1>2, RunTyped
<1>5. packaged' \in Nat \ {0} /\ packaged =< packaged' /\ packaged \in Nat
  BY <1>2 DEF TypeInv
<1>6. \/ \E n \in Nodes : Boot(n) /\ BootGuests(n)
      \/ \E n \in Nodes : StartPlugin(n) /\ PluginGuests(n)
      \/ OtherGuests
  BY BootChanges, PluginChanges, OtherChanges DEF Environment, Progress
<1>7. GuestsShaped(guest, Nodes)'
  BY <1>3, <1>6 DEF BootGuests, PluginGuests, OtherGuests, GuestsShaped
<1>8. ASSUME NEW m \in Nodes
      PROVE  /\ guest'[m].state \in {"off", "boot", "up", "serving"}
             /\ HasAgent(m)' => guest'[m].given.done
             /\ IsLoaded(m)' => /\ guest'[m].state = "serving"
                                /\ ValidRuntimeConfig(guest'[m].plugin.config)
             /\ guest'[m].given.done => DOMAIN guest'[m].given = {"done", "yaml", "fstab"}
  <2>0. /\ guest[m].state \in {"off", "boot", "up", "serving"}
        /\ guest[m].state \in {"up", "serving"} => guest[m].given.done
        /\ guest[m].plugin.state = "running" =>
                guest[m].state = "serving" /\ ValidRuntimeConfig(guest[m].plugin.config)
        /\ guest[m].given.done => DOMAIN guest[m].given = {"done", "yaml", "fstab"}
    BY DEF TypeInv, GuestsTyped, WorldShape, HasAgent, IsLoaded
  <2>1. ASSUME NEW n \in Nodes, BootGuests(n)
        PROVE  /\ guest'[m].state \in {"off", "boot", "up", "serving"}
               /\ guest'[m].state \in {"up", "serving"} => guest'[m].given.done
               /\ guest'[m].plugin.state = "running" =>
                        guest'[m].state = "serving" /\ ValidRuntimeConfig(guest'[m].plugin.config)
               /\ guest'[m].given.done => DOMAIN guest'[m].given = {"done", "yaml", "fstab"}
    <3>1. /\ guest[n].state = "boot"
          /\ guest'[m].state = IF m = n THEN "up" ELSE guest[m].state
          /\ guest'[m].plugin = guest[m].plugin
          /\ \/ guest'[m].given = Given(RuntimeConfig(config, m), GuestMounts(config, m)) /\ m = n
             \/ guest'[m].given = guest[m].given /\ (m = n => guest[m].given.done)
      BY <2>1 DEF BootGuests
    <3>2. guest'[m].given = Given(RuntimeConfig(config, m), GuestMounts(config, m)) =>
            guest'[m].given.done /\ DOMAIN guest'[m].given = {"done", "yaml", "fstab"}
      BY DEF Given
    <3> QED
      BY <2>0, <3>1, <3>2
  <2>2. ASSUME NEW n \in Nodes, PluginGuests(n)
        PROVE  /\ guest'[m].state \in {"off", "boot", "up", "serving"}
               /\ guest'[m].state \in {"up", "serving"} => guest'[m].given.done
               /\ guest'[m].plugin.state = "running" =>
                        guest'[m].state = "serving" /\ ValidRuntimeConfig(guest'[m].plugin.config)
               /\ guest'[m].given.done => DOMAIN guest'[m].given = {"done", "yaml", "fstab"}
    BY <2>0, <2>2 DEF PluginGuests, Running, Refused
  <2>3. CASE OtherGuests
    BY <2>0, <2>3 DEF OtherGuests, NotGiven, NoPlugin, HasAgent, IsLoaded
  <2> QED
    BY <1>6, <2>1, <2>2, <2>3 DEF HasAgent, IsLoaded
<1>9. GuestsTyped'
  BY <1>3, <1>8 DEF GuestsTyped
<1>10. StoresTyped' /\ DOMAIN cluster' = {"nodes", "marks", "manifests", "volumes", "pods"}
       /\ DOMAIN files' = {"token", "kubeconfig", "open", "marker", "sentinel"}
  <2>0. /\ StoresTyped /\ DOMAIN cluster = {"nodes", "marks", "manifests", "volumes", "pods"}
        /\ DOMAIN files = {"token", "kubeconfig", "open", "marker", "sentinel"}
    BY DEF TypeInv, WorldShape
  <2>1. CASE UNCHANGED <<cluster, files>>
    BY <1>3, <1>5, <2>0, <2>1 DEF StoresTyped
  <2>2. ASSUME NEW n \in Nodes, Register(n)
        PROVE  /\ cluster'.nodes \subseteq Nodes /\ cluster'.manifests = cluster.manifests
               /\ cluster'.pods = cluster.pods /\ files' = files
               /\ DOMAIN cluster' = {"nodes", "marks", "manifests", "volumes", "pods"}
    BY <2>0, <2>2 DEF Register, StoresTyped
  <2>3. ASSUME NEW n \in Nodes, Meddle(n)
        PROVE  /\ cluster'.nodes = cluster.nodes /\ cluster'.manifests = cluster.manifests
               /\ cluster'.pods = cluster.pods /\ files' = files
               /\ DOMAIN cluster' = {"nodes", "marks", "manifests", "volumes", "pods"}
    BY <2>0, <2>3 DEF Meddle, StoresTyped
  <2>4. CASE Rebuild
    <3>1. cluster' = EmptyCluster(config) /\ packaged' = packaged
      BY <2>4 DEF Rebuild
    <3>2. \E kubeconfig \in {"none", "stale"} : files' = [files EXCEPT !.kubeconfig = kubeconfig]
      BY <2>4 DEF Rebuild
    <3>3. /\ files'.kubeconfig \in {"none", "stale"} /\ files'.open = files.open
          /\ files'.marker = files.marker
          /\ DOMAIN files' = {"token", "kubeconfig", "open", "marker", "sentinel"}
      BY <2>0, <3>2
    <3> QED
      BY <1>5, <2>0, <3>1, <3>3 DEF StoresTyped, EmptyCluster
  <2>5. \/ UNCHANGED <<cluster, files>> \/ Rebuild
        \/ \E n \in Nodes : Register(n) \/ Meddle(n)
    BY DEF Environment, Progress, Boot, Serve, StartPlugin, EditConfig, Upgrade, world
  <2> QED
    BY <1>3, <1>5, <2>0, <2>1, <2>2, <2>3, <2>4, <2>5 DEF StoresTyped
<1>11. WorldShape'
  BY <1>2, <1>3, <1>7, <1>8, <1>10 DEF TypeInv, WorldShape
<1> QED
  BY <1>1, <1>4, <1>5, <1>9, <1>10, <1>11 DEF TypeInv

LEMMA TypeOfSteps == TypeInv /\ [Next]_vars => TypeInv'
<1> SUFFICES ASSUME TypeInv, [Next]_vars PROVE TypeInv'
  OBVIOUS
<1>1. CASE UNCHANGED vars
  <2>1. UNCHANGED <<faults, config, packaged, world, run>>
    BY <1>1 DEF vars
  <2>2. RunShape' /\ TodoTyped' /\ TodoOrdered'
    BY <2>1, RunTyped
  <2> QED
    BY <2>1, <2>2 DEF TypeInv, FaultsTypeOK, GuestsTyped, StoresTyped, WorldShape, HasAgent,
                      IsLoaded, Nodes, world
<1>2. CASE Next
  BY <1>2, TypeOfCommands, TypeOfEnvironment DEF Next
<1> QED
  BY <1>1, <1>2

LEMMA TypeOfState == TypeInv => PlatformTypeOK
<1>1. TypeInv /\ Busy /\ ~Planning => Head(run.todo)[1] \in ClusterKinds \cup CsiKinds \cup WorkloadKinds
  BY HeadOfTodo DEF StepKinds
<1> QED
  BY <1>1 DEF TypeInv, PlatformTypeOK, GuestsTyped, StoresTyped

LEMMA TypeHolds == Spec => []TypeInv
  BY TypeOfInit, TypeOfSteps, PTL DEF Spec

(***************************************************************************)
(* The type invariant holds for all intents, nodes, packages and faults:   *)
(* in particular the plugin of a guest only ever runs a node.yaml that it  *)
(* has validated, and a command works on steps of its own, whatever was    *)
(* edited, upgraded or rebuilt meanwhile.                                  *)
(***************************************************************************)
THEOREM PlatformTyped == Spec => []PlatformTypeOK
  BY TypeHolds, TypeOfState, PTL

-----------------------------------------------------------------------------
(***************************************************************************)
(* What every property needs of a step.                                    *)
(***************************************************************************)
Kinds == {"crash", "fail", "meddle", "edit", "upgrade", "rebuild"}

LEMMA FaultsGrow ==
    ASSUME TypeInv, [Next]_vars
    PROVE  \A k \in Kinds : faults[k] \in Nat /\ faults'[k] \in Nat /\ faults[k] =< faults'[k]
<1>1. Kinds \subseteq FaultKinds
  BY FaultKindsAssumption DEF Kinds
<1>2. FaultsTypeOK
  BY DEF TypeInv
<1>3. faults' = faults \/ \E k \in Kinds : Happens(k)
  BY DEF Next, vars, Begin, NoFault, MakePlan, Work, StepFails, StepBreaks, Finish, Kill,
         Environment, Progress, Boot, Serve, Register, StartPlugin, Meddle, EditConfig,
         Upgrade, Rebuild, Kinds
<1>4. CASE faults' = faults
  BY <1>1, <1>2, <1>4 DEF FaultsTypeOK
<1>5. ASSUME NEW k \in Kinds, Happens(k)
      PROVE  \A j \in Kinds : faults[j] \in Nat /\ faults'[j] \in Nat /\ faults[j] =< faults'[j]
  <2>1. /\ faults'[k] = faults[k] + 1
        /\ \A j \in FaultKinds : j # k => faults'[j] = faults[j]
    BY <1>1, <1>2, <1>5, FaultTyped
  <2> QED
    BY <1>1, <1>2, <2>1 DEF FaultsTypeOK
<1> QED
  BY <1>3, <1>4, <1>5

LEMMA Counted ==
    ASSUME TypeInv, NEW k \in Kinds, Happens(k)
    PROVE  faults[k] \in Nat /\ faults'[k] = faults[k] + 1 /\ faults'[k] > 0
<1>1. k \in FaultKinds /\ FaultsTypeOK
  BY FaultKindsAssumption DEF Kinds, TypeInv
<1> QED
  BY <1>1, FaultTyped DEF FaultsTypeOK

LEMMA EnvironmentMay ==
    ASSUME TypeInv, Environment
    PROVE  /\ run' = run
           /\ files'.marker = files.marker /\ files'.sentinel = files.sentinel
           /\ \/ cluster'.manifests = cluster.manifests /\ files' = files
              \/ run = Idle /\ faults'["rebuild"] > 0
           /\ \/ config' = config
              \/ faults'["edit"] > 0 /\ guest' = guest
<1>0. /\ DOMAIN cluster = {"nodes", "marks", "manifests", "volumes", "pods"}
      /\ DOMAIN files = {"token", "kubeconfig", "open", "marker", "sentinel"}
      /\ {"edit", "rebuild"} \subseteq Kinds
  BY DEF TypeInv, WorldShape, Kinds
<1>1. ASSUME NEW n \in Nodes, Progress(n) \/ Meddle(n)
      PROVE  /\ UNCHANGED <<config, files, run>> /\ cluster'.manifests = cluster.manifests
  BY <1>0, <1>1 DEF Progress, Boot, Serve, Register, StartPlugin, Meddle
<1>2. ASSUME NEW p \in Names, EditConfig(p)
      PROVE  /\ UNCHANGED <<guest, cluster, files, run>> /\ faults'["edit"] > 0
  BY <1>0, <1>2, Counted DEF EditConfig, world
<1>3. CASE Upgrade
  BY <1>3 DEF Upgrade, world
<1>4. CASE Rebuild
  <2>1. /\ UNCHANGED <<config, run>> /\ run = Idle /\ faults'["rebuild"] > 0
    BY <1>0, <1>4, Counted DEF Rebuild
  <2>2. \E kubeconfig \in {"none", "stale"} : files' = [files EXCEPT !.kubeconfig = kubeconfig]
    BY <1>4 DEF Rebuild
  <2>3. files'.marker = files.marker /\ files'.sentinel = files.sentinel
    BY <1>0, <2>2
  <2> QED
    BY <2>1, <2>3
<1> QED
  BY <1>1, <1>2, <1>3, <1>4 DEF Environment

-----------------------------------------------------------------------------
(***************************************************************************)
(* The markers of the manifests.                                           *)
(***************************************************************************)
LEMMA MarkersOfInit == Init => MarkersInv
  BY DEF Init, WorldInit, MarkersInv, EmptyCluster

\* A step applies a manifest before it is recorded.
LEMMA MarkersOfEffect ==
    ASSUME TypeInv, MarkersInv, Busy, ~Planning, Effect(run.todo[1]), packaged' = packaged,
           faults'["rebuild"] = faults["rebuild"]
    PROVE  /\ \A m \in Addons : cluster.manifests[m] =< cluster'.manifests[m]
           /\ run.todo[1][1] = "manifest" => cluster'.manifests[run.todo[1][2]] = packaged
           /\ faults'["rebuild"] = 0 => \A m \in Addons : files'.marker[m] =< cluster'.manifests[m]
<1> DEFINE step == run.todo[1]
<1>1. FilesMay(step) /\ ClusterMay(step)
  BY EffectMay DEF TypeInv
<1>2. /\ run # Idle /\ run.todo # <<>> /\ Head(run.todo) = step
      /\ step[1] \in {"manifest", "record"} => step[2] \in Addons
  BY HeadOfTodo
<1>3. /\ cluster.manifests \in [Addons -> 0..packaged] /\ files.marker \in [Addons -> 0..packaged]
      /\ run.hash \in [Addons -> 0..packaged] /\ packaged \in Nat
  BY <1>2 DEF TypeInv, StoresTyped, RunShape
<1>4. step[1] = "record" => run.hash[step[2]] =< cluster.manifests[step[2]]
  BY <1>2 DEF MarkersInv
<1>5. faults["rebuild"] = 0 => \A m \in Addons : files.marker[m] =< cluster.manifests[m]
  BY DEF MarkersInv
<1> HIDE DEF step
<1>6. step[1] \in {"manifest", "deploy"} => Applied(step) \in Addons
  BY <1>2 DEF Applied, Addons
<1>7. \A m \in Addons : cluster.manifests[m] =< cluster'.manifests[m]
  BY <1>1, <1>3, <1>6 DEF ClusterMay
<1>8. step[1] = "manifest" => cluster'.manifests[step[2]] = packaged
  BY <1>1, <1>2, <1>3 DEF ClusterMay, Applied
<1>9. ASSUME faults'["rebuild"] = 0, NEW m \in Addons
      PROVE  files'.marker[m] =< cluster'.manifests[m]
  <2>1. CASE step[1] = "record"
    <3>1. files'.marker = [files.marker EXCEPT ![step[2]] = run.hash[step[2]]]
      BY <1>1, <2>1 DEF FilesMay
    <3>2. cluster'.manifests = cluster.manifests
      BY <1>1, <2>1 DEF ClusterMay
    <3> QED
      BY <1>2, <1>3, <1>4, <1>5, <1>9, <2>1, <3>1, <3>2
  <2>2. CASE step[1] # "record"
    <3>1. files'.marker = files.marker
      BY <1>1, <2>2 DEF FilesMay
    <3>2. /\ files.marker[m] =< cluster.manifests[m] /\ cluster.manifests[m] =< cluster'.manifests[m]
          /\ files.marker[m] \in Nat /\ cluster.manifests[m] \in Nat
      BY <1>3, <1>5, <1>7, <1>9
    <3>3. cluster'.manifests[m] \in Nat
      BY <1>1, <1>3, <1>6 DEF ClusterMay
    <3> QED
      BY <3>1, <3>2, <3>3
  <2> QED
    BY <2>1, <2>2
<1> QED
  BY <1>7, <1>8, <1>9 DEF step

LEMMA RecordFollowsManifest ==
    ASSUME TypeInv, Busy, ~Planning, Continue(run.todo[1]), run'.todo # <<>>,
           Head(run'.todo)[1] = "record"
    PROVE  run.todo[1][1] = "manifest" /\ Head(run'.todo)[2] = run.todo[1][2]
<1> DEFINE t == run.todo
           u == run'.todo
<1>1. Ordered(t) /\ Len(t) \in Nat \ {0}
  BY HeadOfTodo
<1>2. u \in Seq(Steps(run.config)) /\ \E k, m : Successor(t, u, t[1], k, m)
  BY ContinuedRun
<1>3. PICK k, m : Successor(t, u, t[1], k, m)
  BY <1>2
<1> HIDE DEF t, u
<1>4. Len(u) \in Nat \ {0} /\ Head(u) = u[1]
  BY <1>2 DEF u
<1>5. u[1][1] = "record"
  BY <1>4 DEF u
<1>6. CASE m = 0
  <2>1. k \in 2..Len(t) /\ 1 \in (m + 1)..Len(u) /\ 1 + (k - 1) - m = k
    BY <1>1, <1>3, <1>4, <1>6 DEF Successor
  <2>2. u[1] = t[k]
    BY <1>3, <2>1 DEF Successor
  <2> QED
    BY <1>1, <1>5, <2>1, <2>2 DEF Ordered
<1>7. CASE m = 1
  <2>1. t[1][1] \in Twofold
    BY <1>3, <1>7 DEF Successor
  <2>2. t[1][1] = "manifest"
    BY <1>3, <1>5, <2>1 DEF Successor, Twofold
  <2>3. u[1] = <<"record", t[1][2]>>
    BY <1>3, <2>2 DEF Successor
  <2> QED
    BY <1>4, <2>2, <2>3 DEF t, u
<1> QED
  BY <1>3, <1>6, <1>7 DEF Successor

LEMMA MarkersOfSteps == TypeInv /\ MarkersInv /\ [Next]_vars => MarkersInv'
<1> SUFFICES ASSUME TypeInv, MarkersInv, [Next]_vars PROVE MarkersInv'
  OBVIOUS
<1> DEFINE Marked1 == run # Idle /\ run.todo # <<>> /\ Head(run.todo)[1] = "record" =>
                        run.hash[Head(run.todo)[2]] =< cluster.manifests[Head(run.todo)[2]]
           Marked2 == faults["rebuild"] = 0 =>
                        \A m \in Addons : files.marker[m] =< cluster.manifests[m]
<1>a. MarkersInv = (Marked1 /\ Marked2) /\ MarkersInv' = (Marked1' /\ Marked2')
  BY DEF MarkersInv
<1>b. faults["rebuild"] \in Nat /\ faults'["rebuild"] \in Nat /\ faults["rebuild"] =< faults'["rebuild"]
  BY FaultsGrow DEF Kinds
<1>c. files' = files /\ cluster' = cluster => Marked2'
  <2>1. faults'["rebuild"] = 0 => faults["rebuild"] = 0
    BY <1>b
  <2> QED
    BY <1>a, <2>1
\* Before and after the work.
<1>1. CASE UNCHANGED vars
  BY <1>a, <1>1, <1>c DEF vars, world
<1>2. ASSUME NEW command \in Commands, NEW node \in Nodes \cup {Unset}, Begin(command, node)
      PROVE  MarkersInv'
  <2>1. UNCHANGED world
    BY <1>2 DEF Begin
  <2>2. Head(run'.todo)[1] = "plan"
    BY <1>2 DEF Begin
  <2>3. Marked1'
    BY <2>2
  <2> QED
    BY <1>a, <1>c, <2>1, <2>3 DEF world
<1>3. CASE MakePlan
  <2>1. UNCHANGED world
    BY <1>3 DEF MakePlan
  <2>2. /\ run'.todo \in Seq(Steps(run.config))
        /\ \A k \in 1..Len(run'.todo) : run'.todo[k][1] # "record"
    BY <1>3, PlannedRun
  <2>3. run'.todo # <<>> => Head(run'.todo) = run'.todo[1] /\ 1 \in 1..Len(run'.todo)
    BY <2>2
  <2> QED
    BY <1>a, <1>c, <2>1, <2>2, <2>3 DEF world
<1>4. CASE Finish \/ Kill
  <2>1. run' = Idle /\ UNCHANGED world
    BY <1>4 DEF Finish, Kill
  <2> QED
    BY <1>a, <1>c, <2>1 DEF world
\* The work.
<1>5. ASSUME Busy, ~Planning, Abort(run.todo[1])
      PROVE  Marked1'
  <2>1. /\ run'.todo \in Seq(Steps(run.config))
        /\ run'.todo # <<>> => Len(run'.todo) = 1 /\ run'.todo[1][1] = "remove"
    BY <1>5, AbortedRun
  <2>2. run'.todo # <<>> => Head(run'.todo) = run'.todo[1]
    BY <2>1
  <2> QED
    BY <2>1, <2>2
<1>6. ASSUME Busy, ~Planning, Continue(run.todo[1]), packaged' = packaged,
             run.todo[1][1] = "manifest" => cluster'.manifests[run.todo[1][2]] = packaged
      PROVE  Marked1'
  <2> SUFFICES ASSUME run'.todo # <<>>, Head(run'.todo)[1] = "record"
               PROVE  run'.hash[Head(run'.todo)[2]] =< cluster'.manifests[Head(run'.todo)[2]]
    OBVIOUS
  <2>1. run.todo[1][1] = "manifest" /\ Head(run'.todo)[2] = run.todo[1][2]
    BY <1>6, RecordFollowsManifest
  <2>2. run.todo[1][2] \in Addons /\ run # Idle
    BY <1>6, <2>1, HeadOfTodo
  <2>3. run'.hash = run.hash
    BY <1>6, ContinuedRun DEF SameRun
  <2>4. run.hash \in [Addons -> 0..packaged] /\ packaged \in Nat
    BY <2>2 DEF TypeInv, RunShape
  <2> QED
    BY <1>6, <2>1, <2>2, <2>3, <2>4
<1>7. CASE Work
  <2>1. /\ Busy /\ ~Planning /\ UNCHANGED <<faults, config, packaged>>
        /\ Effect(run.todo[1]) /\ Continue(run.todo[1])
    BY <1>7, HeadOfTodo DEF Work
  <2>2. /\ run.todo[1][1] = "manifest" => cluster'.manifests[run.todo[1][2]] = packaged
        /\ Marked2'
    BY <2>1, MarkersOfEffect
  <2> QED
    BY <1>a, <1>6, <2>1, <2>2
<1>8. CASE StepFails
  <2>1. /\ Busy /\ ~Planning /\ UNCHANGED <<faults, config, packaged, world>>
        /\ IF Ignored(run.todo[1]) THEN Continue(run.todo[1]) ELSE Abort(run.todo[1])
    BY <1>8, HeadOfTodo DEF StepFails
  <2>2. Ignored(run.todo[1]) => run.todo[1][1] # "manifest"
    BY DEF Ignored
  <2>3. Marked1'
    BY <1>5, <1>6, <2>1, <2>2
  <2> QED
    BY <1>a, <1>c, <2>1, <2>3 DEF world
<1>9. CASE StepBreaks
  <2>1. /\ Busy /\ ~Planning /\ Happens("fail") /\ packaged' = packaged
        /\ Effect(run.todo[1]) \/ UNCHANGED world
        /\ IF Ignored(run.todo[1]) \/ run.todo[1][1] = "remove"
           THEN Continue(run.todo[1]) ELSE Abort(run.todo[1])
    BY <1>9, HeadOfTodo DEF StepBreaks
  <2>2. Ignored(run.todo[1]) => run.todo[1][1] # "manifest"
    BY DEF Ignored
  <2>3. Marked1'
    BY <1>5, <1>6, <2>1, <2>2
  <2>4. faults'["rebuild"] = faults["rebuild"]
    BY <2>1, FaultTyped, FaultKindsAssumption DEF TypeInv
  <2>5. Marked2'
    BY <1>c, <2>1, <2>4, MarkersOfEffect DEF world
  <2> QED
    BY <1>a, <2>3, <2>5
<1>10. CASE Environment
  <2>1. /\ run' = run /\ files'.marker = files.marker
        /\ \/ cluster'.manifests = cluster.manifests
           \/ run = Idle /\ faults'["rebuild"] > 0
    BY <1>10, EnvironmentMay
  <2>2. Marked1'
    BY <1>a, <2>1
  <2>3. Marked2'
    <3>1. faults'["rebuild"] = 0 => faults["rebuild"] = 0 /\ cluster'.manifests = cluster.manifests
      BY <1>b, <2>1
    <3> QED
      BY <1>a, <2>1, <3>1
  <2> QED
    BY <1>a, <2>2, <2>3
<1> QED
  BY <1>1, <1>2, <1>3, <1>4, <1>7, <1>8, <1>9, <1>10 DEF Next

(***************************************************************************)
(* cluster apply never takes a manifest for current that is not, as long   *)
(* as the cluster is not rebuilt under the markers: whatever a command     *)
(* that is killed or fails leaves undone, and whatever package is          *)
(* installed while it runs.                                                *)
(***************************************************************************)
THEOREM MarkersTell == Spec => []MarkersTrue
<1>1. TypeInv /\ MarkersInv => MarkersTrue
  BY DEF TypeInv, StoresTyped, MarkersInv, MarkersTrue
<1> QED
  BY <1>1, TypeHolds, MarkersOfInit, MarkersOfSteps, PTL DEF Spec

-----------------------------------------------------------------------------
(***************************************************************************)
(* The sentinel of workload validate.                                      *)
(***************************************************************************)
Removing == {"guests-see", "pod-sees", "remove"}

LEMMA SeenNext ==
    ASSUME TypeInv, Busy, ~Planning, Continue(run.todo[1]),
           run.todo[1][1] \in {"sentinel", "guests-see", "pod-sees"}
    PROVE  run'.todo # <<>> /\ Head(run'.todo)[1] \in Removing
<1> DEFINE t == run.todo
           u == run'.todo
<1>1. Ordered(t) /\ Len(t) \in Nat \ {0}
  BY HeadOfTodo
<1>2. u \in Seq(Steps(run.config)) /\ \E k, m : Successor(t, u, t[1], k, m)
  BY ContinuedRun
<1>3. PICK k, m : Successor(t, u, t[1], k, m)
  BY <1>2
<1>4. 1 \in 1..Len(t) /\ 2 =< Len(t) /\ t[2][1] \in Removing
  BY <1>1 DEF Ordered, SentinelSeen, Removing
<1> HIDE DEF t, u
<1>5. k = 2
  <2>1. t[2] # Skip
    BY <1>4 DEF Removing, Skip
  <2>2. 2 \notin 2..(k - 1)
    BY <1>3, <2>1 DEF Successor
  <2> QED
    BY <1>3, <2>2 DEF Successor
<1>6. m = 0
  BY <1>3 DEF Successor, Twofold, t
<1>7. Len(u) = Len(t) - 1 /\ Len(u) \in Nat \ {0} /\ 1 \in (m + 1)..Len(u) /\ 1 + (k - 1) - m = 2
  BY <1>1, <1>3, <1>4, <1>5, <1>6 DEF Successor
<1>8. u[1] = t[2]
  BY <1>3, <1>7 DEF Successor
<1>9. u # <<>> /\ Head(u) = u[1]
  BY <1>2, <1>7 DEF u
<1> QED
  BY <1>4, <1>8, <1>9 DEF u

LEMMA SentinelOfInit == Init => SentinelInv
  BY DEF Init, WorldInit, SentinelInv

LEMMA SentinelOfSteps == TypeInv /\ SentinelInv /\ [Next]_vars => SentinelInv'
<1> SUFFICES ASSUME TypeInv, SentinelInv, [Next]_vars,
                    faults'["crash"] + faults'["fail"] = 0, files'.sentinel
             PROVE  run' # Idle /\ run'.todo # <<>> /\ Head(run'.todo)[1] \in Removing
  BY DEF SentinelInv, Removing
<1>0. /\ faults["crash"] + faults["fail"] = 0
      /\ ~(faults'["crash"] > 0) /\ ~(faults'["fail"] > 0)
  BY FaultsGrow DEF Kinds
<1>a. files.sentinel => run # Idle /\ run.todo # <<>> /\ Head(run.todo)[1] \in Removing
  BY <1>0 DEF SentinelInv, Removing
<1>1. CASE UNCHANGED vars
  BY <1>a, <1>1 DEF vars, world
<1>2. ASSUME NEW command \in Commands, NEW node \in Nodes \cup {Unset}, Begin(command, node)
      PROVE  FALSE
  BY <1>a, <1>2 DEF Begin, world
<1>3. CASE MakePlan
  BY <1>a, <1>3 DEF MakePlan, Planning, world, Removing
<1>4. CASE Finish
  BY <1>a, <1>4 DEF Finish, world
<1>5. ~Kill /\ ~StepBreaks
  BY <1>0, Counted DEF Kill, StepBreaks, Kinds
<1>6. CASE Work
  <2>1. /\ Busy /\ ~Planning /\ Effect(run.todo[1]) /\ Continue(run.todo[1])
        /\ Head(run.todo) = run.todo[1]
    BY <1>6, HeadOfTodo DEF Work
  <2>2. FilesMay(run.todo[1])
    BY <2>1, EffectMay DEF TypeInv
  <2>3. run.todo[1][1] \in {"sentinel", "guests-see", "pod-sees"}
    BY <1>a, <2>1, <2>2 DEF FilesMay, Removing
  <2>4. run' # Idle
    BY <2>1, ContinuedRun DEF SameRun
  <2> QED
    BY <2>1, <2>3, <2>4, SeenNext
<1>7. CASE StepFails
  <2>1. /\ Busy /\ ~Planning /\ ~Holds(run.todo[1]) /\ files' = files
        /\ IF Ignored(run.todo[1]) THEN Continue(run.todo[1]) ELSE Abort(run.todo[1])
        /\ Head(run.todo) = run.todo[1]
    BY <1>7, HeadOfTodo DEF StepFails, world
  <2>2. run.todo[1][1] \in Removing
    BY <1>a, <2>1
  <2>3. Abort(run.todo[1])
    BY <2>1, <2>2 DEF Ignored, Removing
  <2>4. run.todo[1][1] # "remove"
    <3>1. run.todo[1][1] = "remove" => Holds(run.todo[1]) = WorkloadHolds(run.todo[1])
      BY DEF Holds, ClusterKinds, CsiKinds, WorkloadKinds
    <3>2. run.todo[1][1] = "remove" => WorkloadHolds(run.todo[1])
      BY DEF WorkloadHolds
    <3> QED
      BY <2>1, <3>1, <3>2
  <2>5. /\ SameRun /\ run'.todo \in Seq(Steps(run.config))
        /\ Len(run'.todo) = 1 /\ run'.todo[1][1] = "remove"
    BY <2>1, <2>2, <2>3, <2>4, AbortedRun DEF Removing
  <2>6. run'.todo # <<>> /\ Head(run'.todo) = run'.todo[1]
    BY <2>5
  <2> QED
    BY <2>5, <2>6 DEF SameRun, Removing
<1>8. CASE Environment
  BY <1>a, <1>8, EnvironmentMay
<1> QED
  BY <1>1, <1>2, <1>3, <1>4, <1>5, <1>6, <1>7, <1>8 DEF Next

(***************************************************************************)
(* workload validate leaves no sentinel file behind, for all exports and   *)
(* nodes, unless it is killed or a step breaks.                            *)
(***************************************************************************)
THEOREM SentinelIsRemoved == Spec => []SentinelRemoved
<1>1. SentinelInv => SentinelRemoved
  BY DEF SentinelInv, SentinelRemoved
<1> QED
  BY <1>1, TypeHolds, SentinelOfInit, SentinelOfSteps, PTL DEF Spec

-----------------------------------------------------------------------------
(***************************************************************************)
(* The nodes that join.                                                    *)
(***************************************************************************)
\* The first node that was materialized stays the one that the others join.
FirstInv == 1 \in Nodes /\ Initial(config, 1)

LEMMA NodesKept ==
    ASSUME TypeInv, [Next]_vars
    PROVE  config'.nodes = config.nodes /\ Nodes' = Nodes /\ First' = First
<1>1. DOMAIN config = {"profile", "nodes", "exports", "addons"}
  BY DEF TypeInv, WorldShape
<1>2. ASSUME NEW p \in Names, EditConfig(p)
      PROVE  config'.nodes = config.nodes
  BY <1>1, <1>2 DEF EditConfig
<1>3. config' = config \/ \E p \in Names : EditConfig(p)
  BY DEF Next, vars, Begin, MakePlan, Work, StepFails, StepBreaks, Finish, Kill, Environment,
         Progress, Boot, Serve, Register, StartPlugin, Meddle, Upgrade, Rebuild
<1>4. config'.nodes = config.nodes
  BY <1>2, <1>3
<1> QED
  BY <1>4, FirstOfNodes DEF Nodes, First

LEMMA FirstOfInit == Init => FirstInv
<1> SUFFICES ASSUME Init PROVE FirstInv
  OBVIOUS
<1>1. PICK i \in Intents, h \in Found, s \in Selections :
            /\ Materializes(i, Discover(h), s)
            /\ config = HostConfigFrom(i, Discover(h), s)
  BY DEF Init, WorldInit
<1>2. i.servers \in Nat /\ i.agents \in Nat /\ i.servers > 0
  BY <1>1, IntentsAssumption DEF Materializes, ValidIntent
<1> DEFINE size == i.servers + i.agents
           node(k) == IF k <= i.servers THEN NodeFrom(i, s, "server", k)
                      ELSE NodeFrom(i, s, "agent", k - i.servers)
<1>3. config.nodes = [k \in 1..size |-> node(k)]
  BY <1>1 DEF HostConfigFrom
<1>4. 1 \in 1..size /\ node(1) = NodeFrom(i, s, "server", 1)
  BY <1>2
<1> HIDE DEF size, node
<1>5. 1 \in Nodes /\ config.nodes[1] = NodeFrom(i, s, "server", 1)
  BY <1>3, <1>4 DEF Nodes
<1>6. NodeFrom(i, s, "server", 1).role = "server" /\ NodeFrom(i, s, "server", 1).clusterInit = TRUE
  BY DEF NodeFrom
<1> QED
  BY <1>5, <1>6 DEF FirstInv, Initial

LEMMA FirstOfSteps == TypeInv /\ FirstInv /\ [Next]_vars => FirstInv'
  BY NodesKept DEF FirstInv, Initial

LEMMA FirstIsANode ==
    ASSUME FirstInv
    PROVE  First \in Nodes
<1> DEFINE Is(n) == \/ Initial(config, n) /\ \A k \in 1..(n - 1) : ~Initial(config, k)
                    \/ /\ \A k \in Nodes : ~Initial(config, k)
                       /\ config.nodes[n].role = "server"
                       /\ \A k \in 1..(n - 1) : config.nodes[k].role # "server"
<1>1. First = CHOOSE n \in Nodes : Is(n)
  BY DEF First, FirstServer, Nodes
<1>2. 1 \in Nodes /\ Is(1)
  BY DEF FirstInv
<1> HIDE DEF Is
<1> QED
  BY <1>1, <1>2

\* Whether a command that still has the steps s to do starts no node too early.
JoinsLater(s) ==
    \A k \in 1..Len(s) :
        /\ s[k][1] # "reboot"
        /\ s[k][1] = "start" /\ s[k][2] # First =>
                HostApi \/ \E j \in 1..(k - 1) : s[j][1] = "api"

\* The API keeps answering during the steps of a command that reboots no node.
LEMMA ApiAfterStep ==
    ASSUME TypeInv, FirstInv, Busy, ~Planning, Holds(run.todo[1]), Effect(run.todo[1]),
           [Next]_vars, HostApi, run.todo[1][1] # "reboot"
    PROVE  HostApi'
<1> DEFINE step == run.todo[1]
<1>1. FilesMay(step) /\ GuestsMay(step)
  BY EffectMay DEF TypeInv
<1>2. First' = First /\ First \in Nodes
  BY NodesKept, FirstIsANode
<1>3. guest[First].state = "serving" /\ files.kubeconfig = "current"
  BY DEF HostApi, ApiUp
<1>4. step[1] = "start" => guest[step[2]].state = "off"
  <2>1. step[1] = "start" => Holds(step) = ClusterHolds(step)
    BY DEF Holds, ClusterKinds, CsiKinds, WorkloadKinds
  <2>2. step[1] = "start" => (ClusterHolds(step) <=> guest[step[2]].state = "off")
    BY DEF ClusterHolds
  <2> QED
    BY <2>1, <2>2
<1>5. guest'[First].state = "serving"
  BY <1>1, <1>2, <1>3, <1>4 DEF GuestsMay
<1>6. files'.kubeconfig = "current"
  BY <1>1, <1>3 DEF FilesMay
<1> QED
  BY <1>2, <1>5, <1>6 DEF HostApi, ApiUp

LEMMA JoinsAfterContinue ==
    ASSUME TypeInv, [Next]_vars, Busy, ~Planning, Continue(run.todo[1]), JoinsLater(run.todo),
           HostApi => HostApi', run.todo[1][1] = "api" => HostApi'
    PROVE  /\ \A i \in 1..Len(run'.todo) :
                /\ run'.todo[i][1] # "reboot" /\ run'.todo[i][1] # "plan"
                /\ run'.todo[i][1] = "start" /\ run'.todo[i][2] # First =>
                        HostApi' \/ \E j \in 1..(i - 1) : run'.todo[j][1] = "api"
<1> DEFINE t == run.todo
           u == run'.todo
<1>1. Ordered(t) /\ Len(t) \in Nat \ {0}
  BY HeadOfTodo
<1>2. u \in Seq(Steps(run.config)) /\ Ordered(u) /\ \E k, m : Successor(t, u, t[1], k, m)
  BY ContinuedRun
<1>3. PICK k, m : Successor(t, u, t[1], k, m)
  BY <1>2
<1>4. /\ JoinsLater(t) /\ (HostApi => HostApi') /\ (t[1][1] = "api" => HostApi')
  OBVIOUS
<1> HIDE DEF t, u
<1>5. k \in 2..(Len(t) + 1) /\ m \in {0, 1} /\ Len(u) = m + (Len(t) + 1 - k) /\ Len(u) \in Nat
  BY <1>1, <1>3 DEF Successor
<1>6. ASSUME NEW i \in 1..Len(u)
      PROVE  /\ u[i][1] # "reboot" /\ u[i][1] # "plan"
             /\ u[i][1] = "start" /\ u[i][2] # First =>
                     HostApi' \/ \E j \in 1..(i - 1) : u[j][1] = "api"
  <2>1. u[i][1] # "plan"
    BY <1>2, StepsOfKinds DEF Ordered
  <2>2. CASE i \in (m + 1)..Len(u)
    <3> DEFINE p == i + (k - 1) - m
    <3>1. p \in k..Len(t) /\ p \in 1..Len(t) /\ u[i] = t[p]
      BY <1>3, <1>5, <2>2 DEF Successor
    <3>2. u[i][1] # "reboot"
      <4> HIDE DEF p
      <4> QED
        BY <1>4, <3>1 DEF JoinsLater
    <3>3. ASSUME u[i][1] = "start", u[i][2] # First, ~HostApi'
          PROVE  \E j \in 1..(i - 1) : u[j][1] = "api"
      <4>1. PICK j \in 1..(p - 1) : t[j][1] = "api"
        <5> HIDE DEF p
        <5> QED
          BY <1>4, <3>1, <3>3 DEF JoinsLater
      <4>2. j # 1
        BY <1>4, <3>3, <4>1
      <4>3. j \notin 2..(k - 1)
        BY <1>3, <4>1 DEF Successor, Skip
      <4>4. j \in k..Len(t) /\ j - (k - 1) + m \in 1..(i - 1)
        <5>1. j \in Int /\ k \in Int /\ m \in Int /\ Len(t) \in Int
          BY <1>1, <1>5, <3>1
        <5>2. 1 =< j /\ j =< p - 1 /\ p =< Len(t) /\ 0 =< m
          BY <1>5, <3>1
        <5>3. k =< j
          BY <4>2, <4>3, <5>1, <5>2
        <5> QED
          BY <5>1, <5>2, <5>3
      <4>5. u[j - (k - 1) + m] = t[j]
        BY <1>3, <4>4 DEF Successor
      <4> QED
        BY <4>1, <4>4, <4>5
    <3> QED
      BY <2>1, <3>2, <3>3
  <2>3. CASE i \notin (m + 1)..Len(u)
    <3>1. i = 1 /\ m = 1
      BY <1>5, <2>3
    <3>2. u[1][1] \in {"record", "hide"}
      BY <1>3, <3>1 DEF Successor, Twofold
    <3> QED
      BY <2>1, <3>1, <3>2
  <2> QED
    BY <2>2, <2>3
<1> QED
  BY <1>6 DEF u

LEMMA JoinsOfInit == Init => JoinsInv
  BY DEF Init, JoinsInv

LEMMA JoinsOfSteps == TypeInv /\ FirstInv /\ JoinsInv /\ [Next]_vars => JoinsInv'
<1> DEFINE Good(s, api, first) ==
        \A k \in 1..Len(s) :
            /\ s[k][1] # "reboot"
            /\ s[k][1] = "plan" => s[k][2] = Unset
            /\ s[k][1] = "start" /\ s[k][2] # first =>
                    api \/ \E j \in 1..(k - 1) : s[j][1] = "api"
<1> SUFFICES ASSUME TypeInv, FirstInv, JoinsInv, [Next]_vars,
                    run' # Idle, faults'["meddle"] + faults'["rebuild"] = 0
             PROVE  Good(run'.todo, HostApi', First')
  BY DEF JoinsInv
<1>0. /\ faults["meddle"] + faults["rebuild"] = 0
      /\ ~(faults'["meddle"] > 0) /\ ~(faults'["rebuild"] > 0)
  BY FaultsGrow DEF Kinds
<1>a. run # Idle => Good(run.todo, HostApi, First)
  BY <1>0 DEF JoinsInv
<1>b. First' = First /\ First \in Nodes
  BY NodesKept, FirstIsANode
\* As long as nothing is started the API answers as before.
<1>c. ASSUME run' = run, HostApi => HostApi'
      PROVE  Good(run'.todo, HostApi', First')
  BY <1>a, <1>b, <1>c
<1>1. CASE UNCHANGED vars
  <2>1. run' = run /\ (HostApi => HostApi')
    BY <1>b, <1>1 DEF vars, world, HostApi, ApiUp
  <2> QED
    BY <1>c, <2>1
<1>2. ASSUME NEW command \in Commands, NEW node \in Nodes \cup {Unset}, Begin(command, node)
      PROVE  Good(run'.todo, HostApi', First')
  <2>1. node = Unset
    BY <1>0, <1>2, Counted DEF Begin, Kinds
  <2>2. Len(run'.todo) = 1 /\ run'.todo[1] = <<"plan", Unset>>
    BY <1>2, <2>1, BegunRun DEF Unplanned
  <2> QED
    BY <2>2
<1>3. CASE MakePlan
  <2>1. run # Idle /\ Unplanned(run.todo)
    BY <1>3, HeadOfPlanning DEF MakePlan
  <2>2. run.todo[1][2] = Unset
    BY <1>a, <2>1 DEF Unplanned
  <2>3. HostApi' = HostApi
    BY <1>b, <1>3 DEF MakePlan, world, HostApi, ApiUp
  <2> QED
    BY <1>b, <1>3, <2>2, <2>3, PlannedRun
<1>4. ~Finish /\ ~Kill
  BY DEF Finish, Kill
<1>5. ASSUME Busy, ~Planning, Continue(run.todo[1]), HostApi => HostApi',
             run.todo[1][1] = "api" => HostApi'
      PROVE  Good(run'.todo, HostApi', First')
  <2>1. JoinsLater(run.todo)
    BY <1>a, <1>5 DEF JoinsLater, Busy
  <2>2. \A i \in 1..Len(run'.todo) :
            /\ run'.todo[i][1] # "reboot" /\ run'.todo[i][1] # "plan"
            /\ run'.todo[i][1] = "start" /\ run'.todo[i][2] # First =>
                    HostApi' \/ \E j \in 1..(i - 1) : run'.todo[j][1] = "api"
    BY <1>5, <2>1, JoinsAfterContinue
  <2> QED
    BY <1>b, <2>2
<1>6. ASSUME Busy, ~Planning, Abort(run.todo[1])
      PROVE  Good(run'.todo, HostApi', First')
  <2>1. \A k \in 1..Len(run'.todo) : run'.todo[k][1] = "remove"
    BY <1>6, AbortedRun
  <2> QED
    BY <2>1
<1>7. ASSUME Busy, ~Planning, Holds(run.todo[1]), run.todo[1][1] = "api"
      PROVE  HostApi
  <2>1. Holds(run.todo[1]) = ClusterHolds(run.todo[1])
    BY <1>7 DEF Holds, ClusterKinds, CsiKinds, WorkloadKinds
  <2>2. ClusterHolds(run.todo[1]) <=> HostApi
    BY <1>7 DEF ClusterHolds
  <2> QED
    BY <1>7, <2>1, <2>2
<1>8. ASSUME Busy, ~Planning, Holds(run.todo[1]), Effect(run.todo[1]) \/ UNCHANGED world
      PROVE  HostApi => HostApi'
  <2>1. CASE UNCHANGED world
    BY <1>b, <2>1 DEF world, HostApi, ApiUp
  <2>2. CASE Effect(run.todo[1])
    <3>1. run # Idle /\ 1 \in 1..Len(run.todo)
      BY <1>8, HeadOfTodo
    <3>2. run.todo[1][1] # "reboot"
      BY <1>a, <3>1
    <3> QED
      BY <1>8, <2>2, <3>2, ApiAfterStep
  <2> QED
    BY <1>8, <2>1, <2>2
<1>9. CASE Work
  <2>1. /\ Busy /\ ~Planning /\ Holds(run.todo[1]) /\ Effect(run.todo[1]) /\ Continue(run.todo[1])
    BY <1>9, HeadOfTodo DEF Work
  <2> QED
    BY <1>5, <1>7, <1>8, <2>1
<1>10. CASE StepFails
  <2>1. /\ Busy /\ ~Planning /\ UNCHANGED world
        /\ IF Ignored(run.todo[1]) THEN Continue(run.todo[1]) ELSE Abort(run.todo[1])
    BY <1>10, HeadOfTodo DEF StepFails
  <2>2. HostApi => HostApi'
    BY <1>b, <2>1 DEF world, HostApi, ApiUp
  <2>3. CASE Ignored(run.todo[1])
    <3>1. run.todo[1][1] # "api"
      BY <2>3 DEF Ignored
    <3> QED
      BY <1>5, <2>1, <2>2, <2>3, <3>1
  <2>4. CASE ~Ignored(run.todo[1])
    BY <1>6, <2>1, <2>4
  <2> QED
    BY <2>3, <2>4
<1>11. CASE StepBreaks
  <2>1. /\ Busy /\ ~Planning /\ Holds(run.todo[1])
        /\ Effect(run.todo[1]) \/ UNCHANGED world
        /\ Abort(run.todo[1]) \/ Continue(run.todo[1])
    BY <1>11, HeadOfTodo DEF StepBreaks
  <2> QED
    BY <1>5, <1>6, <1>7, <1>8, <2>1
<1>12. CASE Environment
  <2>1. run' = run /\ files' = files
    BY <1>0, <1>12, EnvironmentMay
  <2>2. ASSUME guest[First].state = "serving"
        PROVE  guest'[First].state = "serving"
    <3>1. ASSUME NEW n \in Nodes, Boot(n)
          PROVE  guest'[First].state = "serving"
      <4>1. BootGuests(n)
        BY <3>1, BootChanges
      <4> QED
        BY <1>b, <2>2, <4>1 DEF BootGuests
    <3>2. ASSUME NEW n \in Nodes, StartPlugin(n)
          PROVE  guest'[First].state = "serving"
      <4>1. PluginGuests(n)
        BY <3>2, PluginChanges
      <4> QED
        BY <1>b, <2>2, <4>1 DEF PluginGuests
    <3>3. ASSUME NEW n \in Nodes, Serve(n)
          PROVE  guest'[First].state = "serving"
      <4>1. guest' = [guest EXCEPT ![n].state = "serving"] /\ DOMAIN guest = Nodes
            /\ DOMAIN guest[First] = GuestFields
        BY <1>b, <3>3 DEF Serve, TypeInv, WorldShape, GuestsShaped
      <4> QED
        BY <1>b, <2>2, <4>1 DEF GuestFields
    <3>4. ~Rebuild /\ \A n \in Nodes : ~Meddle(n)
      BY <1>0, Counted DEF Rebuild, Meddle, Kinds
    <3>5. CASE guest' = guest
      BY <2>2, <3>5
    <3> QED
      BY <1>12, <3>1, <3>2, <3>3, <3>4, <3>5
         DEF Environment, Progress, Register, EditConfig, Upgrade, world
  <2>3. HostApi => HostApi'
    BY <1>b, <2>1, <2>2 DEF HostApi, ApiUp
  <2> QED
    BY <1>c, <2>1, <2>3
<1> QED
  BY <1>1, <1>2, <1>3, <1>4, <1>9, <1>10, <1>11, <1>12 DEF Next

LEMMA StartsAfterApi ==
    TypeInv /\ FirstInv /\ JoinsInv /\ [Next]_vars =>
        (faults["meddle"] + faults["rebuild"] = 0 /\ Busy =>
            \A n \in Nodes \ {First} :
                guest[n].state = "off" /\ guest'[n].state = "boot" => HostApi)
<1> SUFFICES ASSUME TypeInv, JoinsInv, [Next]_vars,
                    faults["meddle"] + faults["rebuild"] = 0, Busy,
                    NEW n \in Nodes, n # First, guest[n].state = "off", guest'[n].state = "boot"
             PROVE  HostApi
  OBVIOUS
<1>1. ASSUME ~Planning, Effect(run.todo[1])
      PROVE  HostApi
  <2>1. GuestsMay(run.todo[1])
    BY <1>1, EffectMay DEF TypeInv
  <2>2. run.todo[1][1] \in {"start", "reboot"} /\ run.todo[1][2] = n
    BY <2>1 DEF GuestsMay
  <2>3. run # Idle /\ 1 \in 1..Len(run.todo)
    BY <1>1, HeadOfTodo
  <2>4. ~\E j \in 1..(1 - 1) : TRUE
    OBVIOUS
  <2> QED
    BY <2>2, <2>3, <2>4 DEF JoinsInv
<1>2. CASE guest' = guest
  BY <1>2
<1>3. CASE Environment
  <2>1. \/ \E m \in Nodes : Boot(m) /\ BootGuests(m)
        \/ \E m \in Nodes : StartPlugin(m) /\ PluginGuests(m)
        \/ OtherGuests
    BY <1>3, BootChanges, PluginChanges, OtherChanges DEF Environment, Progress
  <2> QED
    BY <2>1 DEF BootGuests, PluginGuests, OtherGuests
<1>4. CASE Work \/ StepBreaks
  <2>1. ~Planning /\ (Effect(run.todo[1]) \/ guest' = guest)
    BY <1>4, HeadOfTodo DEF Work, StepBreaks, world
  <2> QED
    BY <1>1, <1>2, <2>1
<1> QED
  BY <1>2, <1>3, <1>4 DEF Next, vars, world, Begin, MakePlan, StepFails, Finish, Kill

(***************************************************************************)
(* No command starts a joining node before the first server's API answers, *)
(* whatever it found done when it planned, and whichever steps failed.     *)
(***************************************************************************)
THEOREM JoinsFollow == Spec => JoinsFollowFirst
<1>1. Spec => [](TypeInv /\ FirstInv /\ JoinsInv)
  <2>1. Spec => []FirstInv
    BY TypeHolds, FirstOfInit, FirstOfSteps, PTL DEF Spec
  <2> QED
    BY <2>1, TypeHolds, JoinsOfInit, JoinsOfSteps, PTL DEF Spec
<1> QED
  BY <1>1, StartsAfterApi, PTL DEF Spec, JoinsFollowFirst


-----------------------------------------------------------------------------
(***************************************************************************)
(* The node.yaml of a guest.                                               *)
(***************************************************************************)
LEMMA GivenAfterStep ==
    ASSUME TypeInv, Busy, ~Planning, Holds(run.todo[1]),
           Effect(run.todo[1]) \/ UNCHANGED world, NEW n \in Nodes
    PROVE  /\ \/ guest'[n].given = guest[n].given
              \/ /\ run.todo[1] = <<"yaml", n>> /\ guest[n].given.done
                 /\ guest'[n].given.done
                 /\ guest'[n].given.yaml = RuntimeConfig(run.config, n)
           /\ run.todo[1] = <<"yaml", n>> /\ Effect(run.todo[1]) =>
                /\ guest'[n].given.done
                /\ guest'[n].given.yaml = RuntimeConfig(run.config, n)
           /\ guest'[n].plugin \in {guest[n].plugin, NoPlugin}
           /\ run.todo[1][1] = "restart" /\ Effect(run.todo[1]) => guest'[n].plugin = NoPlugin
<1> DEFINE step == run.todo[1]
<1>1. CASE UNCHANGED world /\ ~Effect(step)
  BY <1>1 DEF world
<1>2. CASE Effect(step)
  <2>1. GuestsMay(step)
    BY <1>2, EffectMay DEF TypeInv
  <2>2. step \in Steps(run.config)
    BY HeadOfTodo
  <2>3. CASE step[1] = "yaml" /\ step[2] = n
    <3>1. HasAgent(n)
      BY <2>3, YamlNeedsAgent
    <3>2. guest[n].given.done /\ DOMAIN guest[n].given = {"done", "yaml", "fstab"}
      BY <3>1 DEF TypeInv, GuestsTyped, WorldShape
    <3>3. guest'[n].given = [guest[n].given EXCEPT !.yaml = RuntimeConfig(run.config, n)]
      BY <2>1, <2>3 DEF GuestsMay
    <3>4. guest'[n].given.done /\ guest'[n].given.yaml = RuntimeConfig(run.config, n)
      BY <3>2, <3>3
    <3>5. step = <<"yaml", n>>
      BY <2>2, <2>3 DEF Steps
    <3> QED
      BY <2>1, <2>3, <3>2, <3>4, <3>5 DEF GuestsMay
  <2>4. CASE ~(step[1] = "yaml" /\ step[2] = n)
    <3>1. step # <<"yaml", n>>
      BY <2>4
    <3>2. guest'[n].given = guest[n].given
      BY <2>1, <2>4 DEF GuestsMay
    <3> QED
      BY <2>1, <3>1, <3>2 DEF GuestsMay
  <2> QED
    BY <2>3, <2>4
<1> QED
  BY <1>1, <1>2

\* A configuration that was materialized is one its node plugins start with,
\* but for tags and paths.
LEMMA MaterializedStarts ==
    ASSUME NEW i \in Intents, NEW found, NEW s, Materializes(i, found, s),
           NEW c, c = HostConfigFrom(i, found, s), NEW n \in DOMAIN c.nodes
    PROVE  \/ ValidRuntimeConfig(RuntimeConfig(c, n))
           \/ \E p, q \in DOMAIN c.exports :
                /\ p # q
                /\ c.exports[p].tag = c.exports[q].tag \/ Segment[p] = Segment[q]
<1> DEFINE D == DOMAIN i.policies
           name == PolicyNames(i)
           r == RuntimeConfig(c, n)
<1>1. /\ \A k \in D : name[k] # Blank
      /\ \A j, k \in D : name[j] = name[k] => j = k
  BY DEF Materializes, ValidIntent, Injective, PolicyNames
<1>2. \A p \in DOMAIN c.exports : c.exports[p].tag # Blank
  <2>1. ExportsValid(c)
    BY DEF Materializes, ValidHostConfig
  <2> QED
    BY <2>1 DEF ExportsValid
<1>3. DOMAIN c.exports = {name[k] : k \in D}
  BY DEF HostConfigFrom, PolicyNames
<1>4. ASSUME NEW k \in D
      PROVE  c.exports[name[k]].policy = name[k]
  <2> DEFINE policy == CHOOSE q \in {i.policies[j] : j \in D} : q.name = name[k]
  <2>1. policy.name = name[k]
    BY DEF PolicyNames
  <2>2. c.exports[name[k]] = ExportFrom(found, s, policy)
    BY <1>3 DEF HostConfigFrom
  <2> HIDE DEF policy
  <2>3. ExportFrom(found, s, policy).policy = policy.name
    BY DEF ExportFrom
  <2> QED
    BY <2>1, <2>2, <2>3
<1>5. \E role \in Roles, index \in Nat : c.nodes[n] = NodeFrom(i, s, role, index)
  <2>1. i.servers \in Nat /\ i.agents \in Nat
    BY IntentsAssumption
  <2>2. c.nodes = [k \in 1..(i.servers + i.agents) |->
                     IF k <= i.servers THEN NodeFrom(i, s, "server", k)
                     ELSE NodeFrom(i, s, "agent", k - i.servers)]
    BY DEF HostConfigFrom
  <2>3. n \in 1..(i.servers + i.agents)
    BY <2>2
  <2>4. CASE n <= i.servers
    BY <2>2, <2>3, <2>4 DEF Roles
  <2>5. CASE ~(n <= i.servers)
    <3>1. n - i.servers \in Nat /\ c.nodes[n] = NodeFrom(i, s, "agent", n - i.servers)
      BY <2>1, <2>2, <2>3, <2>5
    <3> QED
      BY <3>1 DEF Roles
  <2> QED
    BY <2>4, <2>5
<1>6. PICK role \in Roles, index \in Nat : c.nodes[n] = NodeFrom(i, s, role, index)
  BY <1>5
<1>7. /\ c.nodes[n].name = <<role, index>> /\ c.nodes[n].domain = <<"nascsi", role, index>>
      /\ c.nodes[n].exports = name /\ DOMAIN name = D
  BY <1>6 DEF NodeFrom, PolicyNames
<1>8. Blank \notin {r.node, r.domain}
  <2>1. Blank # <<role, index>>
    BY BlankAssumption DEF Roles
  <2>2. Blank # <<"nascsi", role, index>>
    BY BlankAssumption DEF Roles
  <2>3. r.node = <<role, index>> /\ r.domain = <<"nascsi", role, index>>
    BY <1>7 DEF RuntimeConfig
  <2> QED
    BY <2>1, <2>2, <2>3
<1>9. /\ DOMAIN r.exports = D
      /\ \A e \in D : /\ r.exports[e].id = name[e] /\ r.exports[e].tag = c.exports[name[e]].tag
                       /\ r.exports[e].policy = c.exports[name[e]].policy
                       /\ r.exports[e].path = Segment[name[e]]
  <2> HIDE DEF D, name
  <2> QED
    BY <1>7 DEF RuntimeConfig
<1> HIDE DEF D, name, r
<1>10. \A e \in D : Blank \notin {r.exports[e].id, r.exports[e].tag, r.exports[e].policy}
  <2> SUFFICES ASSUME NEW e \in D
               PROVE  Blank \notin {r.exports[e].id, r.exports[e].tag, r.exports[e].policy}
    OBVIOUS
  <2>1. name[e] # Blank /\ name[e] \in DOMAIN c.exports
    BY <1>1, <1>3
  <2>2. c.exports[name[e]].tag # Blank /\ c.exports[name[e]].policy # Blank
    BY <1>2, <1>4, <2>1
  <2> QED
    BY <1>9, <2>1, <2>2
<1>11. Injective(FieldsOf(r, "id"))
  <2>1. FieldsOf(r, "id") = [e \in D |-> name[e]]
    BY <1>9 DEF FieldsOf
  <2> QED
    BY <1>1, <2>1 DEF Injective
<1>12. CASE \E p, q \in DOMAIN c.exports :
                /\ p # q
                /\ c.exports[p].tag = c.exports[q].tag \/ Segment[p] = Segment[q]
  BY <1>12
<1>13. CASE \A p, q \in DOMAIN c.exports :
                c.exports[p].tag = c.exports[q].tag \/ Segment[p] = Segment[q] => p = q
  <2>1. \A d, e \in D : name[d] \in DOMAIN c.exports /\ name[e] \in DOMAIN c.exports
    BY <1>3
  <2>2. Injective(FieldsOf(r, "tag"))
    <3>1. FieldsOf(r, "tag") = [e \in D |-> c.exports[name[e]].tag]
      BY <1>9 DEF FieldsOf
    <3> QED
      BY <1>1, <1>13, <2>1, <3>1 DEF Injective
  <2>3. Injective(FieldsOf(r, "path"))
    <3>1. FieldsOf(r, "path") = [e \in D |-> Segment[name[e]]]
      BY <1>9 DEF FieldsOf
    <3> QED
      BY <1>1, <1>13, <2>1, <3>1 DEF Injective
  <2>4. ValidRuntimeConfig(r)
    BY <1>8, <1>9, <1>10, <1>11, <2>2, <2>3 DEF ValidRuntimeConfig
  <2> QED
    BY <2>4 DEF r
<1> QED
  BY <1>12, <1>13

LEMMA StartOfInit == Init => StartInv
<1> SUFFICES ASSUME Init PROVE StartInv
  OBVIOUS
<1>1. \E i \in Intents, h \in Found, s \in Selections :
            /\ Materializes(i, Discover(h), s)
            /\ config = HostConfigFrom(i, Discover(h), s)
  BY DEF Init, WorldInit
<1>2. \A n \in Nodes : ~guest[n].given.done /\ guest[n].plugin # Refused
  <2>1. guest = [n \in Nodes |-> Off]
    BY DEF Init, WorldInit
  <2> QED
    BY <2>1 DEF Off, NotGiven, NoPlugin, Refused
<1> QED
  BY <1>1, <1>2 DEF Init, StartInv

LEMMA StartOfSteps == TypeInv /\ StartInv /\ [Next]_vars => StartInv'
<1> DEFINE Made == \E i \in Intents, h \in Found, s \in Selections :
                        /\ Materializes(i, Discover(h), s)
                        /\ config = HostConfigFrom(i, Discover(h), s)
           Current(n) == guest[n].given.done => guest[n].given.yaml = RuntimeConfig(config, n)
           Starts(n) == guest[n].plugin = Refused => Clash
<1> SUFFICES ASSUME TypeInv, StartInv, [Next]_vars, faults'["edit"] = 0
             PROVE  /\ Made' /\ (run' # Idle => run'.config = config')
                    /\ \A n \in Nodes' : Current(n)' /\ Starts(n)'
  BY DEF StartInv
<1>0. faults["edit"] = 0 /\ ~(faults'["edit"] > 0)
  BY FaultsGrow DEF Kinds
<1>a. /\ Made /\ (run # Idle => run.config = config)
      /\ \A n \in Nodes : Current(n) /\ Starts(n)
  BY <1>0 DEF StartInv
<1>b. config' = config
  BY <1>0, EnvironmentMay
     DEF Next, vars, Begin, MakePlan, Work, StepFails, StepBreaks, Finish, Kill
<1>c. Made' /\ Nodes' = Nodes /\ Clash' = Clash
  BY <1>a, <1>b DEF Nodes, Clash, Names
<1>d. \A n \in Nodes : /\ Current(n)' <=> (guest'[n].given.done =>
                                            guest'[n].given.yaml = RuntimeConfig(config, n))
                       /\ Starts(n)' <=> (guest'[n].plugin = Refused => Clash)
  BY <1>b, <1>c DEF RuntimeConfig
<1> HIDE DEF Made, Current, Starts
<1> SUFFICES /\ run' # Idle => run'.config = config
             /\ \A n \in Nodes : Current(n)' /\ Starts(n)'
  BY <1>b, <1>c
<1>1. ASSUME guest' = guest
      PROVE  \A n \in Nodes : Current(n)' /\ Starts(n)'
  BY <1>1, <1>a, <1>d DEF Current, Starts
<1>2. CASE UNCHANGED vars
  BY <1>1, <1>2, <1>a DEF vars, world
<1>3. ASSUME NEW command \in Commands, NEW node \in Nodes \cup {Unset}, Begin(command, node)
      PROVE  run'.config = config /\ guest' = guest
  BY <1>3, BegunRun DEF Begin, world
<1>4. CASE MakePlan
  BY <1>1, <1>4, <1>a, PlannedRun, HeadOfPlanning DEF MakePlan, SameRun, world
<1>5. CASE Finish \/ Kill
  BY <1>1, <1>5 DEF Finish, Kill, world
<1>6. CASE Work \/ StepFails \/ StepBreaks
  <2>1. /\ Busy /\ ~Planning /\ run # Idle
        /\ Continue(run.todo[1]) \/ Abort(run.todo[1])
        /\ \/ UNCHANGED world
           \/ Holds(run.todo[1]) /\ (Effect(run.todo[1]) \/ UNCHANGED world)
    BY <1>6, HeadOfTodo DEF Work, StepFails, StepBreaks
  <2>2. run'.config = config
    BY <1>a, <2>1, ContinuedRun, AbortedRun DEF SameRun
  <2>3. ASSUME Holds(run.todo[1]), Effect(run.todo[1]) \/ UNCHANGED world, NEW n \in Nodes
        PROVE  Current(n)' /\ Starts(n)'
    <3>1. /\ \/ guest'[n].given = guest[n].given
             \/ guest'[n].given.yaml = RuntimeConfig(run.config, n)
          /\ guest'[n].plugin \in {guest[n].plugin, NoPlugin}
      BY <2>1, <2>3, GivenAfterStep
    <3>2. NoPlugin # Refused
      BY DEF NoPlugin, Refused
    <3> QED
      BY <1>a, <1>d, <2>1, <3>1, <3>2 DEF Current, Starts
  <2>4. CASE UNCHANGED world
    BY <1>1, <2>2, <2>4 DEF world
  <2> QED
    BY <2>1, <2>2, <2>3, <2>4
<1>7. CASE Environment
  <2>1. run' = run
    BY <1>7, EnvironmentMay
  <2>2. ASSUME NEW m \in Nodes, BootGuests(m), NEW n \in Nodes
        PROVE  Current(n)' /\ Starts(n)'
    <3>1. guest'[n].plugin = guest[n].plugin
      BY <2>2 DEF BootGuests
    <3>2. CASE guest'[n].given = guest[n].given
      BY <1>a, <1>d, <3>1, <3>2 DEF Current, Starts
    <3>3. CASE guest'[n].given = Given(RuntimeConfig(config, n), GuestMounts(config, n))
      <4>1. guest'[n].given.yaml = RuntimeConfig(config, n)
        BY <3>3 DEF Given
      <4> QED
        BY <1>a, <1>d, <3>1, <4>1 DEF Starts
    <3> QED
      BY <2>2, <3>2, <3>3 DEF BootGuests
  <2>3. ASSUME NEW m \in Nodes, PluginGuests(m), NEW n \in Nodes
        PROVE  Current(n)' /\ Starts(n)'
    <3>1. CASE n # m
      BY <1>a, <1>d, <2>3, <3>1 DEF PluginGuests, Current, Starts
    <3>2. CASE n = m
      <4>1. guest[m].given.done
        BY <2>3 DEF PluginGuests, TypeInv, GuestsTyped, HasAgent
      <4>2. guest[m].given.yaml = RuntimeConfig(config, m)
        BY <1>a, <4>1 DEF Current
      <4>3. ValidRuntimeConfig(guest[m].given.yaml) \/ Clash
        BY <1>a, <4>2, MaterializedStarts DEF Made, Clash, Names, Nodes
      <4>4. Running(guest[m].given.yaml) # Refused
        BY DEF Running, Refused
      <4> QED
        BY <1>a, <1>d, <2>3, <3>2, <4>3, <4>4 DEF PluginGuests, Current, Starts
    <3> QED
      BY <3>1, <3>2
  <2>4. ASSUME OtherGuests, NEW n \in Nodes
        PROVE  Current(n)' /\ Starts(n)'
    BY <1>a, <1>d, <2>4 DEF OtherGuests, Current, Starts, NotGiven, NoPlugin, Refused
  <2>5. \/ \E m \in Nodes : BootGuests(m)
        \/ \E m \in Nodes : PluginGuests(m)
        \/ OtherGuests
    BY <1>7, BootChanges, PluginChanges, OtherChanges DEF Environment, Progress
  <2> QED
    BY <1>a, <2>1, <2>2, <2>3, <2>4, <2>5
<1> QED
  BY <1>1, <1>2, <1>3, <1>4, <1>5, <1>6, <1>7 DEF Next

(***************************************************************************)
(* A node plugin refuses its node.yaml only when two exports clash: every  *)
(* other condition of NodeRuntimeConfig::validate, the validation of the   *)
(* intent and of the host configuration has established, for all intents   *)
(* and hosts.                                                              *)
(***************************************************************************)
THEOREM PluginsDoStart == Spec => []PluginsStart
<1>1. TypeInv /\ StartInv => PluginsStart
  <2>1. TypeInv => faults["edit"] \in Nat
    BY FaultKindsAssumption DEF TypeInv, FaultsTypeOK
  <2> QED
    BY <2>1 DEF StartInv, PluginsStart, Clash
<1> QED
  BY <1>1, TypeHolds, StartOfInit, StartOfSteps, PTL DEF Spec

-----------------------------------------------------------------------------
(***************************************************************************)
(* The configuration the node plugins run with.                            *)
(***************************************************************************)
LEMMA CurrentOfInit == Init => CurrentInv
  BY DEF Init, CurrentInv

\* A yaml step and a restart stay to be done until they are taken.
LEMMA StillToDo ==
    ASSUME TypeInv, Busy, ~Planning, Continue(run.todo[1]),
           NEW j \in 1..Len(run.todo), run.todo[j][1] \in {"yaml", "restart"}
    PROVE  \/ j = 1
           \/ \E i \in 1..Len(run'.todo) : run'.todo[i] = run.todo[j]
<1> DEFINE t == run.todo
           u == run'.todo
<1>1. Len(t) \in Nat /\ \E k, m : Successor(t, u, t[1], k, m)
  BY HeadOfTodo, ContinuedRun
<1>2. PICK k, m : Successor(t, u, t[1], k, m)
  BY <1>1
<1>3. t[j] # Skip /\ j \in 1..Len(t)
  BY DEF Skip
<1> HIDE DEF t, u
<1>4. /\ k \in 2..(Len(t) + 1) /\ m \in {0, 1} /\ Len(u) = m + (Len(t) + 1 - k)
      /\ j \notin 2..(k - 1)
  BY <1>2, <1>3 DEF Successor
<1>5. CASE j # 1
  <2>1. j \in k..Len(t)
    BY <1>1, <1>3, <1>4, <1>5
  <2> DEFINE i == j - (k - 1) + m
  <2>2. i \in 1..Len(u)
    BY <1>1, <1>4, <2>1
  <2>3. u[i] = t[j]
    BY <1>2, <2>1 DEF Successor
  <2> HIDE DEF i
  <2> QED
    BY <2>2, <2>3 DEF t, u
<1> QED
  BY <1>5

LEMMA CurrentAfterContinue ==
    ASSUME TypeInv, CurrentInv, Busy, ~Planning, Continue(run.todo[1]), Nodes' = Nodes,
           \A n \in Nodes :
              /\ \/ guest'[n].given = guest[n].given
                 \/ guest'[n].given.done /\ guest'[n].given.yaml = RuntimeConfig(run.config, n)
              /\ run.todo[1] = <<"yaml", n>> =>
                    guest'[n].given.done /\ guest'[n].given.yaml = RuntimeConfig(run.config, n)
              /\ guest'[n].plugin \in {guest[n].plugin, NoPlugin}
              /\ run.todo[1][1] = "restart" => guest'[n].plugin = NoPlugin
    PROVE  CurrentInv'
<1>1. /\ run # Idle /\ ~Unplanned(run.todo) /\ Len(run.todo) \in Nat \ {0}
      /\ SameRun /\ run'.failing = run.failing
  BY HeadOfTodo, StepsOfKinds, ContinuedRun DEF Planning, Unplanned
<1> SUFFICES ASSUME run.command = "csi", ~run.failing
             PROVE  /\ \A n \in Nodes :
                        \/ guest'[n].given.done /\ guest'[n].given.yaml = RuntimeConfig(run.config, n)
                        \/ \E k \in 1..Len(run'.todo) : run'.todo[k] = <<"yaml", n>>
                    /\ \/ \E k \in 1..Len(run'.todo) : run'.todo[k][1] = "restart"
                       \/ \A n \in Nodes : IsLoaded(n)' =>
                            guest'[n].plugin.config = RuntimeConfig(run.config, n)
  <2>1. run'.command = run.command /\ run'.config = run.config /\ run'.failing = run.failing
    BY <1>1 DEF SameRun
  <2> QED
    BY <2>1 DEF CurrentInv, Installed
<1>2. /\ \A n \in Nodes : \/ guest[n].given.done /\ guest[n].given.yaml = RuntimeConfig(run.config, n)
                          \/ \E k \in 1..Len(run.todo) : run.todo[k] = <<"yaml", n>>
      /\ \/ \E k \in 1..Len(run.todo) : run.todo[k][1] = "restart"
         \/ \A n \in Nodes : IsLoaded(n) => guest[n].plugin.config = RuntimeConfig(run.config, n)
  BY <1>1 DEF CurrentInv, Installed
<1>3. ASSUME NEW n \in Nodes
      PROVE  \/ guest'[n].given.done /\ guest'[n].given.yaml = RuntimeConfig(run.config, n)
             \/ \E k \in 1..Len(run'.todo) : run'.todo[k] = <<"yaml", n>>
  <2>1. CASE guest[n].given.done /\ guest[n].given.yaml = RuntimeConfig(run.config, n)
    BY <2>1
  <2>2. ASSUME NEW k \in 1..Len(run.todo), run.todo[k] = <<"yaml", n>>
        PROVE  \/ run.todo[1] = <<"yaml", n>>
               \/ \E i \in 1..Len(run'.todo) : run'.todo[i] = <<"yaml", n>>
    BY <2>2, StillToDo
  <2> QED
    BY <1>2, <2>1, <2>2
<1>4. ASSUME NEW k \in 1..Len(run.todo), run.todo[k][1] = "restart"
      PROVE  \/ run.todo[1][1] = "restart"
             \/ \E i \in 1..Len(run'.todo) : run'.todo[i][1] = "restart"
  BY <1>4, StillToDo
<1>5. ASSUME NEW n \in Nodes, guest'[n].plugin = NoPlugin
      PROVE  ~IsLoaded(n)'
  BY <1>5 DEF IsLoaded, NoPlugin
<1>6. ASSUME NEW n \in Nodes, IsLoaded(n)'
      PROVE  IsLoaded(n) /\ guest'[n].plugin = guest[n].plugin
  BY <1>5, <1>6 DEF IsLoaded
<1> QED
  BY <1>2, <1>3, <1>4, <1>5, <1>6

LEMMA CurrentOfEnvironment ==
    ASSUME TypeInv, CurrentInv, Environment, Nodes' = Nodes
    PROVE  CurrentInv'
<1>1. run' = run
  BY EnvironmentMay
<1> SUFFICES ASSUME run # Idle, run.command = "csi", ~Unplanned(run.todo), ~run.failing
             PROVE  /\ \A n \in Nodes : Installed(n) => Installed(n)'
                    /\ \/ \E k \in 1..Len(run.todo) : run.todo[k][1] = "restart"
                       \/ \A n \in Nodes : IsLoaded(n)' =>
                            guest'[n].plugin.config = RuntimeConfig(run.config, n)
  BY <1>1 DEF CurrentInv
<1>2. /\ \A n \in Nodes : Installed(n) \/ \E k \in 1..Len(run.todo) : run.todo[k] = <<"yaml", n>>
      /\ \/ \E k \in 1..Len(run.todo) : run.todo[k][1] = "restart"
         \/ \A n \in Nodes : IsLoaded(n) => guest[n].plugin.config = RuntimeConfig(run.config, n)
  BY DEF CurrentInv
\* Without a restart to come every node.yaml is written.
<1>3. ASSUME ~\E k \in 1..Len(run.todo) : run.todo[k][1] = "restart", NEW n \in Nodes
      PROVE  Installed(n)
  <2>1. Ordered(run.todo) /\ Len(run.todo) \in Nat
    BY DEF TypeInv, TodoOrdered, TodoTyped
  <2>2. ASSUME NEW k \in 1..Len(run.todo), run.todo[k] = <<"yaml", n>>
        PROVE  FALSE
    <3>1. \E j \in (k + 1)..Len(run.todo) : run.todo[j][1] = "restart"
      BY <2>1, <2>2 DEF Ordered, RestartedAfter
    <3> QED
      BY <1>3, <2>1, <3>1
  <2> QED
    BY <1>2, <2>2
<1>4. ASSUME NEW n \in Nodes, Installed(n),
             guest'[n].given = guest[n].given
      PROVE  Installed(n)'
  BY <1>1, <1>4 DEF Installed
<1>5. ASSUME NEW m \in Nodes, BootGuests(m)
      PROVE  /\ \A n \in Nodes : Installed(n) => guest'[n].given = guest[n].given
             /\ \A n \in Nodes : guest'[n].plugin = guest[n].plugin
  BY <1>5 DEF BootGuests, Installed
<1>6. ASSUME NEW m \in Nodes, PluginGuests(m)
      PROVE  /\ \A n \in Nodes : guest'[n].given = guest[n].given
             /\ \A n \in Nodes : guest'[n].plugin \in {guest[n].plugin, Refused,
                                                       Running(guest[n].given.yaml)}
  BY <1>6 DEF PluginGuests
<1>7. ASSUME OtherGuests
      PROVE  /\ \A n \in Nodes : guest'[n].given = guest[n].given
             /\ \A n \in Nodes : guest'[n].plugin \in {guest[n].plugin, NoPlugin}
  BY <1>7 DEF OtherGuests
<1>8. \/ \E m \in Nodes : BootGuests(m)
      \/ \E m \in Nodes : PluginGuests(m)
      \/ OtherGuests
  BY BootChanges, PluginChanges, OtherChanges DEF Environment, Progress
<1>9. \A n \in Nodes : /\ Installed(n) => guest'[n].given = guest[n].given
                       /\ guest'[n].plugin \in {guest[n].plugin, NoPlugin, Refused,
                                                Running(guest[n].given.yaml)}
  BY <1>5, <1>6, <1>7, <1>8
<1>10. ASSUME ~\E k \in 1..Len(run.todo) : run.todo[k][1] = "restart",
              NEW n \in Nodes, IsLoaded(n)'
       PROVE  guest'[n].plugin.config = RuntimeConfig(run.config, n)
  <2>1. Installed(n)
    BY <1>3, <1>10
  <2>2. guest'[n].plugin \in {guest[n].plugin, Running(guest[n].given.yaml)}
    BY <1>9, <1>10 DEF IsLoaded, NoPlugin, Refused
  <2>3. CASE guest'[n].plugin = guest[n].plugin
    BY <1>2, <1>10, <2>3 DEF IsLoaded
  <2>4. CASE guest'[n].plugin = Running(guest[n].given.yaml)
    BY <2>1, <2>4 DEF Running, Installed
  <2> QED
    BY <2>2, <2>3, <2>4
<1> QED
  BY <1>4, <1>9, <1>10

LEMMA CurrentOfSteps == TypeInv /\ CurrentInv /\ [Next]_vars => CurrentInv'
<1> SUFFICES ASSUME TypeInv, CurrentInv, [Next]_vars PROVE CurrentInv'
  OBVIOUS
<1>0. Nodes' = Nodes
  BY NodesKept
<1>1. CASE UNCHANGED vars
  BY <1>0, <1>1 DEF vars, world, CurrentInv, Installed, IsLoaded
<1>2. ASSUME NEW command \in Commands, NEW node \in Nodes \cup {Unset}, Begin(command, node)
      PROVE  CurrentInv'
  <2>1. Unplanned(run'.todo)
    BY <1>2, BegunRun
  <2>2. Unplanned(run.todo)'
    BY <2>1 DEF Unplanned
  <2> QED
    BY <2>2 DEF CurrentInv
<1>3. CASE MakePlan
  <2>1. SameRun /\ (run.command = "csi" => run'.todo = CsiSteps(run.config))
    BY <1>3, PlannedRun
  <2>2. /\ run # Idle /\ Len(run.config.nodes) \in Nat /\ Nodes = 1..Len(run.config.nodes)
    BY <1>3, HeadOfPlanning DEF MakePlan, TypeInv, RunShape, WorldShape
  <2>3. ASSUME run.command = "csi"
        PROVE  /\ \A n \in Nodes : \E k \in 1..Len(run'.todo) : run'.todo[k] = <<"yaml", n>>
               /\ \E k \in 1..Len(run'.todo) : run'.todo[k][1] = "restart"
    <3>1. /\ \A n \in Nodes : /\ n \in 1..Len(CsiSteps(run.config))
                              /\ CsiSteps(run.config)[n] = <<"yaml", n>>
          /\ \E k \in 1..Len(CsiSteps(run.config)) : CsiSteps(run.config)[k][1] = "restart"
      BY <2>2, CsiIsTyped
    <3> QED
      BY <2>1, <2>3, <3>1
  <2> QED
    BY <1>0, <2>1, <2>3 DEF CurrentInv, SameRun
<1>4. CASE Finish \/ Kill
  <2>1. run' = Idle
    BY <1>4 DEF Finish, Kill
  <2> QED
    BY <2>1 DEF CurrentInv, Idle
<1>5. ASSUME Busy, ~Planning, Abort(run.todo[1])
      PROVE  CurrentInv'
  <2>1. run'.failing = TRUE
    BY <1>5, AbortedRun
  <2> QED
    BY <2>1 DEF CurrentInv
<1>6. ASSUME Busy, ~Planning, Holds(run.todo[1]), Effect(run.todo[1]), Continue(run.todo[1])
      PROVE  CurrentInv'
  BY <1>0, <1>6, GivenAfterStep, CurrentAfterContinue
<1>7. ASSUME Busy, ~Planning, run.todo[1][1] \in {"delete-probe", "remove"},
             Continue(run.todo[1]),
             UNCHANGED world \/ (Holds(run.todo[1]) /\ Effect(run.todo[1]))
      PROVE  CurrentInv'
  <2>1. CASE UNCHANGED world
    BY <1>0, <1>7, <2>1, CurrentAfterContinue DEF world
  <2> QED
    BY <1>6, <1>7, <2>1
<1>8. CASE Work
  <2>1. /\ Busy /\ ~Planning /\ Holds(run.todo[1]) /\ Effect(run.todo[1]) /\ Continue(run.todo[1])
    BY <1>8, HeadOfTodo DEF Work
  <2> QED
    BY <1>6, <2>1
<1>9. CASE StepFails
  <2>1. /\ Busy /\ ~Planning /\ UNCHANGED world
        /\ IF Ignored(run.todo[1]) THEN Continue(run.todo[1]) ELSE Abort(run.todo[1])
    BY <1>9, HeadOfTodo DEF StepFails
  <2> QED
    BY <1>5, <1>7, <2>1 DEF Ignored
<1>10. CASE StepBreaks
  <2>1. /\ Busy /\ ~Planning /\ Holds(run.todo[1])
        /\ Effect(run.todo[1]) \/ UNCHANGED world
        /\ IF Ignored(run.todo[1]) \/ run.todo[1][1] = "remove"
           THEN Continue(run.todo[1]) ELSE Abort(run.todo[1])
    BY <1>10, HeadOfTodo DEF StepBreaks
  <2> QED
    BY <1>5, <1>7, <2>1 DEF Ignored
<1>11. CASE Environment
  BY <1>0, <1>11, CurrentOfEnvironment
<1> QED
  BY <1>1, <1>2, <1>3, <1>4, <1>8, <1>9, <1>10, <1>11 DEF Next

(***************************************************************************)
(* When csi install completes, every node plugin that runs has the         *)
(* node.yaml it installed, for all numbers of nodes and exports and        *)
(* whatever the guests do meanwhile.                                       *)
(***************************************************************************)
THEOREM PluginsAreCurrent == Spec => []PluginsCurrent
<1>1. TypeInv /\ CurrentInv => PluginsCurrent
  <2> SUFFICES ASSUME TypeInv, CurrentInv, Completes("csi") PROVE PluginsCurrent
    BY DEF PluginsCurrent
  <2>1. run # Idle /\ run.command = "csi" /\ Len(run.todo) = 0 /\ ~run.failing
    BY DEF Completes
  <2>2. ~Unplanned(run.todo) /\ ~\E k \in 1..Len(run.todo) : TRUE
    BY <2>1 DEF Unplanned
  <2> QED
    BY <2>1, <2>2 DEF CurrentInv, PluginsCurrent
<1> QED
  BY <1>1, TypeHolds, CurrentOfInit, CurrentOfSteps, PTL DEF Spec
=============================================================================
