------------------------------- MODULE Intent -------------------------------
(***************************************************************************)
(* From an intent to the configuration of a node: crates/types, with the   *)
(* facts crates/discovery collects and the node documents crates/vm-manager *)
(* renders.                                                                *)
(*                                                                         *)
(* host-install validates a ClusterIntent and a HostSelections, discovers  *)
(* the host, and materializes a HostConfig; every other command loads a    *)
(* HostConfig and validates it again, for it may have been edited.  All    *)
(* of it is pure: this module has no variables.                            *)
(*                                                                         *)
(* The names of storage policies are model values; the three conversions   *)
(* that make identifiers of them are functions on them, and not injective. *)
(***************************************************************************)
EXTENDS Integers, Sequences, FiniteSets

CONSTANTS Policies,     \* storage policy names, which become export ids
          DevLooking,   \* the ones that contain "dev"
          Identifier,   \* safe_identifier: the default virtiofs tag
          Segment,      \* safe_path_segment: mount paths, sockets, units
          ResourceName, \* safe_k8s_name: volumes, claims and pods
          Datasets,     \* ZFS datasets of TrueNAS
          Bridges,
          MaxU16,       \* the largest node count or sequence number
          Blank,        \* the empty string
          Unset         \* an optional field without a value

ASSUME PoliciesAssumption ==
    /\ DevLooking \subseteq Policies
    /\ DOMAIN Identifier = Policies /\ DOMAIN Segment = Policies
    /\ DOMAIN ResourceName = Policies
ASSUME BlankAssumption ==               \* no node or domain has an empty name
    Blank \notin (({"server", "agent"} \X Nat) \cup ({"nascsi"} \X {"server", "agent"} \X Nat))
ASSUME MaxU16Assumption == MaxU16 \in Nat \ {0}

Profiles == {"maintenance-basic", "maintenance-control-plane"}
Roles == {"server", "agent"}
Accesses == {"read-write", "read-only"}
Addons == {"metrics-server", "nas-csi"}

Injective(s) == \A i, j \in DOMAIN s : s[i] = s[j] => i = j

(***************************************************************************)
(* Discovery: what the host knows of its datasets.  midclt lists them all, *)
(* without it the directories under /mnt are taken for pools.              *)
(***************************************************************************)
Hosts == [midclt: {"missing", "fails", "works"}, bridges: SUBSET Bridges,
          kind: [Datasets -> {"FILESYSTEM", "VOLUME", Unset}],
          mountpoint: [Datasets -> {"own", "legacy", Unset}], pools: SUBSET Datasets]

\* A directory of the host: where the dataset is mounted, or /mnt/<dataset>.
Mnt(d) == <<"/mnt", d>>

Discover(h) ==
    [bridges |-> h.bridges,
     mountpoint |->
        IF h.midclt = "works"
        THEN [d \in {e \in Datasets : h.kind[e] # "VOLUME"} |->
                IF h.mountpoint[d] = Unset THEN Unset ELSE <<h.mountpoint[d], d>>]
        ELSE [d \in h.pools |-> Mnt(d)]]

DatasetPath(found, d) ==
    IF d \in DOMAIN found.mountpoint /\ found.mountpoint[d] \notin {<<"legacy", d>>, Unset}
    THEN found.mountpoint[d] ELSE Mnt(d)

(***************************************************************************)
(* Intent and selections.  complete: every required string is there and    *)
(* every checksum has its format; size stands for the three sizes of a     *)
(* node.                                                                   *)
(***************************************************************************)
NamesUnchecked(i) ==                    \* a mutant of ValidIntent
    /\ i.servers > 0
    /\ i.profile = "maintenance-control-plane" => i.servers >= 3
    /\ i.profile = "maintenance-basic" => i.agents > 0
    /\ ~i.applications
ValidIntent(i) ==
    /\ i.servers > 0
    /\ i.profile = "maintenance-control-plane" => i.servers >= 3
    /\ i.profile = "maintenance-basic" => i.agents > 0
    /\ ~i.applications
    /\ \A k \in DOMAIN i.policies : i.policies[k].name # Blank
    /\ Injective([k \in DOMAIN i.policies |-> i.policies[k].name])

ValidSelections(s) ==
    /\ s.complete
    /\ \A r \in Roles : s.size[r] > 0
    /\ \A p \in DOMAIN s.exports : s.exports[p].dataset # Blank

Selectable(i, found, s) ==
    /\ found.bridges = {} \/ s.bridge \in found.bridges
    /\ \A k \in DOMAIN i.policies : i.policies[k].name \in DOMAIN s.exports

(***************************************************************************)
(* HostConfig::from_intent_discovery_selections.                           *)
(***************************************************************************)
Default(value, default) == IF value = Unset THEN default ELSE value

ExportFrom(found, s, policy) ==
    LET selected == s.exports[policy.name]
    IN  [dataset |-> selected.dataset,
         sourcePath |-> Default(selected.sourcePath, DatasetPath(found, selected.dataset)),
         tag |-> Default(selected.tag, Identifier[policy.name]),
         policy |-> policy.name, access |-> policy.access]

PolicyNames(i) == [k \in DOMAIN i.policies |-> i.policies[k].name]

\* The sequence number of an agent continues that of the servers, modulo 2^16.
NodeFrom(i, s, role, index) ==
    LET first == role = "server" /\ index = 1
    IN  [name |-> <<role, index>>, domain |-> <<"nascsi", role, index>>,
         mac |-> IF role = "server" THEN index ELSE (i.servers + index) % (MaxU16 + 1),
         role |-> role, size |-> s.size[role], checksum |-> TRUE,
         clusterInit |-> first, server |-> ~first,
         labels |-> {"nas-csi.dev/storage-node"}, taints |-> {},
         exports |-> PolicyNames(i)]

HostConfigFrom(i, found, s) ==
    [profile |-> i.profile,
     nodes |-> [k \in 1..(i.servers + i.agents) |->
                    IF k <= i.servers THEN NodeFrom(i, s, "server", k)
                    ELSE NodeFrom(i, s, "agent", k - i.servers)],
     exports |-> [p \in {i.policies[k].name : k \in DOMAIN i.policies} |->
                    ExportFrom(found, s, CHOOSE policy \in {i.policies[k] : k \in DOMAIN i.policies} :
                                            policy.name = p)],
     addons |-> i.addons]

(***************************************************************************)
(* HostConfig::validate.                                                   *)
(***************************************************************************)
CountOf(c, role) == Cardinality({k \in DOMAIN c.nodes : c.nodes[k].role = role})

EnoughNodes(c) ==
    /\ CountOf(c, "server") > 0
    /\ c.profile = "maintenance-basic" => CountOf(c, "agent") > 0
    /\ c.profile = "maintenance-control-plane" => CountOf(c, "server") >= 3

NodesValid(c) ==
    /\ Injective([k \in DOMAIN c.nodes |-> c.nodes[k].name])
    /\ Injective([k \in DOMAIN c.nodes |-> c.nodes[k].domain])
    /\ Injective([k \in DOMAIN c.nodes |-> c.nodes[k].mac])
    /\ \A k \in DOMAIN c.nodes :
          LET node == c.nodes[k]
          IN  /\ node.size > 0 /\ node.checksum
              /\ \A e \in DOMAIN node.exports : node.exports[e] \in DOMAIN c.exports

ExportsValid(c) ==
    \A p \in DOMAIN c.exports :
        LET export == c.exports[p]
        IN  /\ Blank \notin {export.dataset, export.sourcePath, export.tag}
            /\ ~(export.access = "read-only" /\ export.policy \in DevLooking)

ValidHostConfig(c) == NodesValid(c) /\ EnoughNodes(c) /\ ExportsValid(c)

Materializes(i, found, s) ==
    /\ ValidIntent(i) /\ ValidSelections(s) /\ Selectable(i, found, s)
    /\ ValidHostConfig(HostConfigFrom(i, found, s))

(***************************************************************************)
(* What a node is given: node.yaml for the node plugin, and the lines of   *)
(* its fstab that mount the exports.                                       *)
(***************************************************************************)
RuntimeConfig(c, n) ==
    [node |-> c.nodes[n].name, domain |-> c.nodes[n].domain,
     exports |-> [e \in DOMAIN c.nodes[n].exports |->
                    LET p == c.nodes[n].exports[e]
                    IN  [id |-> p, tag |-> c.exports[p].tag, policy |-> c.exports[p].policy,
                         access |-> c.exports[p].access, path |-> Segment[p]]]]

FieldsOf(r, field) == [e \in DOMAIN r.exports |-> r.exports[e][field]]

\* NodeRuntimeConfig::validate: what the node plugin asks of its node.yaml.
ValidRuntimeConfig(r) ==
    /\ Blank \notin {r.node, r.domain}
    /\ \A e \in DOMAIN r.exports : Blank \notin {r.exports[e].id, r.exports[e].tag,
                                                 r.exports[e].policy}
    /\ Injective(FieldsOf(r, "id")) /\ Injective(FieldsOf(r, "tag"))
    /\ Injective(FieldsOf(r, "path"))

GuestMounts(c, n) ==
    LET r == RuntimeConfig(c, n)
    IN  {[tag |-> r.exports[e].tag, path |-> r.exports[e].path,
          readOnly |-> r.exports[e].access = "read-only"] : e \in DOMAIN r.exports}

IdsOf(r) == {r.exports[e].id : e \in DOMAIN r.exports}
=============================================================================
