------------------------------ MODULE HostPlan ------------------------------
(***************************************************************************)
(* The planner of the host agent: crates/vm-manager.                       *)
(*                                                                         *)
(* plan_host_apply lists the steps that bring up the node VMs of a         *)
(* configuration, and plan_host_reconcile decides for each of them, from   *)
(* what an inspection of the host saw, whether to apply it, to skip it or  *)
(* to refuse.  Both are pure: this module has no variables.                *)
(*                                                                         *)
(* A step is a triple: its kind, its node, and its export (0 for a step    *)
(* that belongs to the whole node, 0 twice for the one that belongs to the *)
(* host).  The content of a file stands for its hash; a domain's           *)
(* desired-hash is the content of the XML file it was defined from.        *)
(***************************************************************************)
EXTENDS Integers, Sequences, FiniteSets

CONSTANTS Nodes,        \* positions in the configuration's list of nodes
          Exports,      \* positions in the list of exports
          Versions,     \* contents a rendered file can have
          Missing,      \* no file, no domain definition, a stopped daemon
          Foreign,      \* a domain definition without nas-csi metadata
          NoDisk        \* a node without a root disk image

ASSUME NodesAssumption == Nodes \subseteq Nat \ {0} /\ Exports \subseteq Nat \ {0}
ASSUME ContentsAssumption ==
    /\ Missing \notin Versions /\ Foreign \notin Versions
    /\ Missing # Foreign

Units == Nodes \X Exports                   \* one virtiofsd service each

Dir(n) == <<"dir", n, 0>>                   \* the parent of the root disk
Xml(n) == <<"xml", n, 0>>                   \* the rendered artifacts of a node
Seed(n) == <<"seed", n, 0>>                 \* the NoCloud seed image
Unit(u) == <<"unit", u[1], u[2]>>           \* an installed systemd unit

NodeFiles == {Dir(n) : n \in Nodes} \cup {Xml(n) : n \in Nodes} \cup {Seed(n) : n \in Nodes}
UnitFiles == {Unit(u) : u \in Units}
Files == NodeFiles \cup UnitFiles
Contents == Versions \cup {Missing}
Definitions == Contents \cup {Foreign}

\* An existing root disk: foreign when qemu-img tells nothing of it, or
\* another format or backing image than the configuration's.  used: a guest
\* has booted from it, so it holds that node's state.
Disks == [size: Nat, foreign: BOOLEAN, used: BOOLEAN]

ASSUME NoDiskAssumption == NoDisk \notin Disks

\* What the planner reads of a HostConfig.  want: the content every file is
\* rendered to, Missing for the unit of an export the node does not have;
\* odd: a path of it holds a parent traversal; inside: what lies under the
\* source path of an export.
HostConfigs == [want: {w \in [Files -> Contents] : \A f \in NodeFiles : w[f] # Missing},
                size: [Nodes -> Nat], autostart: SUBSET Nodes, odd: BOOLEAN,
                inside: SUBSET (Files \cup {<<"disk", n, 0>> : n \in Nodes})]

UnitsOf(c) == {u \in Units : c.want[Unit(u)] # Missing}

(***************************************************************************)
(* plan_host_apply: the steps, and their order.                            *)
(***************************************************************************)
NodeSteps(kinds) == {<<k, n, 0>> : k \in kinds, n \in Nodes}
UnitSteps(c, k) == {<<k, u[1], u[2]>> : u \in UnitsOf(c)}
Reload == <<"reload", 0, 0>>

\* The step that removes a stale seed image is left out: the planner skips it
\* in every state, for the rewrite that follows replaces the file.
Steps(c, starts) ==
    NodeSteps({"xml", "dir", "disk", "seed", "define"})
    \cup {<<"autostart", n, 0>> : n \in c.autostart}
    \cup (IF starts THEN NodeSteps({"start"}) ELSE {})
    \cup UnitSteps(c, "unit") \cup UnitSteps(c, "daemon")
    \cup (IF UnitsOf(c) = {} THEN {} ELSE {Reload})

StageDefineFirst(k) ==                  \* a mutant of Stage
    CASE k = "define" -> 0
      [] k = "xml" -> 1
      [] k \in {"dir", "disk", "seed"} -> 2
      [] k = "unit" -> 3
      [] k = "reload" -> 4
      [] k = "daemon" -> 5
      [] OTHER -> 6
Stage(k) == CASE k = "xml" -> 1
              [] k \in {"dir", "disk", "seed"} -> 2
              [] k = "unit" -> 3
              [] k = "reload" -> 4
              [] k = "daemon" -> 5
              [] k \in {"define", "autostart", "start"} -> 6

\* Order of the steps of one node in one stage.
Position(k) == CASE k \in {"disk", "autostart"} -> 2
                 [] k \in {"seed", "start"} -> 3
                 [] OTHER -> 1

Precedes(s, t) ==
    LET key(x) == <<Stage(x[1]), x[2], x[3], Position(x[1])>>
    IN  \E i \in 1..4 : /\ key(s)[i] < key(t)[i]
                        /\ \A j \in 1..(i - 1) : key(s)[j] = key(t)[j]

IsFirst(s, steps) == \A t \in steps \ {s} : Precedes(s, t)

(***************************************************************************)
(* plan_host_reconcile: the decision about one step.  a is what the        *)
(* inspection saw: [file, disk, image, tools, enabled, active, domain].    *)
(***************************************************************************)
Changes(c, a, f) == a.file[f] # c.want[f]
ChangedUnits(c, a) == {u \in UnitsOf(c) : Changes(c, a, Unit(u))}

FileDecision(c, a, f) == IF Changes(c, a, f) THEN "write" ELSE "skip"

\* reconcile_missing_root_disk_create: without a base image nothing is
\* checked, with one it must exist with the right format and checksum.
MissingDiskDecision(a) == IF a.image = "unverified" THEN "refuse" ELSE "create"

\* reconcile_existing_qemu_image: an existing disk may only grow.
ResizeAnyDisk(c, a, n) ==               \* a mutant of ExistingDiskDecision
    CASE a.disk[n].foreign -> "refuse"
      [] ~a.disk[n].foreign /\ a.disk[n].size # c.size[n] -> "resize"
      [] OTHER -> "skip"
ExistingDiskDecision(c, a, n) ==
    CASE a.disk[n].foreign \/ a.disk[n].size > c.size[n] -> "refuse"
      [] ~a.disk[n].foreign /\ a.disk[n].size < c.size[n] -> "resize"
      [] OTHER -> "skip"

DiskDecision(c, a, n) ==
    CASE "qemu-img" \notin a.tools -> "refuse"
      [] "qemu-img" \in a.tools /\ a.disk[n] = NoDisk -> MissingDiskDecision(a)
      [] OTHER -> ExistingDiskDecision(c, a, n)

ReloadDecision(c, a) ==
    CASE "systemctl" \notin a.tools -> "refuse"
      [] "systemctl" \in a.tools /\ ChangedUnits(c, a) = {} -> "skip"
      [] OTHER -> "reload"

EnableOnly(c, a, u) == IF u \in a.enabled \cap a.active THEN "skip" ELSE "enable"
RestartAlways(c, a, u) ==               \* mutants of DaemonDecision
    IF u \in a.enabled \cap a.active THEN "restart" ELSE "enable"
DaemonDecision(c, a, u) ==
    CASE "systemctl" \notin a.tools -> "refuse"
      [] "systemctl" \in a.tools /\ u \notin a.enabled \cap a.active -> "enable"
      [] OTHER -> IF u \in ChangedUnits(c, a) THEN "restart" ELSE "skip"

\* hash is the definition the inspection saw; allow holds the flags given.
RedefineAlways(c, a, allow, n) ==       \* a mutant of DefineDecision
    LET seen == a.domain[n].hash
    IN  CASE "virsh" \notin a.tools -> "refuse"
          [] "virsh" \in a.tools /\ seen = Missing -> "define"
          [] "virsh" \in a.tools /\ seen = c.want[Xml(n)] -> "skip"
          [] OTHER -> "redefine"
DefineDecision(c, a, allow, n) ==
    LET seen == a.domain[n].hash
    IN  CASE "virsh" \notin a.tools -> "refuse"
          [] "virsh" \in a.tools /\ seen = Missing -> "define"
          [] "virsh" \in a.tools /\ seen = Foreign /\ "adoption" \notin allow -> "refuse"
          [] "virsh" \in a.tools /\ seen = c.want[Xml(n)] -> "skip"
          [] OTHER -> IF a.domain[n].active /\ "redefine" \notin allow
                      THEN "refuse" ELSE "redefine"

FlagDecision(a, done, op) ==
    CASE "virsh" \notin a.tools -> "refuse"
      [] "virsh" \in a.tools /\ done -> "skip"
      [] OTHER -> op

Decision(c, a, allow, s) ==
    LET n == s[2]
    IN  CASE s[1] \in {"xml", "dir", "seed", "unit"} -> FileDecision(c, a, s)
          [] s[1] = "disk" -> DiskDecision(c, a, n)
          [] s[1] = "reload" -> ReloadDecision(c, a)
          [] s[1] = "daemon" -> DaemonDecision(c, a, <<n, s[3]>>)
          [] s[1] = "define" -> DefineDecision(c, a, allow, n)
          [] s[1] = "autostart" -> FlagDecision(a, a.domain[n].autostart, "autostart")
          [] s[1] = "start" -> FlagDecision(a, a.domain[n].active, "start")

Plan(c, a, allow, starts) == [s \in Steps(c, starts) |-> Decision(c, a, allow, s)]

HasRefusals(plan) == \E s \in DOMAIN plan : plan[s] = "refuse"
ToApply(plan) == {s \in DOMAIN plan : plan[s] \notin {"skip", "refuse"}}
Converged(plan) == \A s \in DOMAIN plan : plan[s] = "skip"
=============================================================================
