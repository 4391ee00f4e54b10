----------------------------- MODULE MCPlatform -----------------------------
(***************************************************************************)
(* Small instances of Platform for TLC.                                    *)
(***************************************************************************)
EXTENDS Platform, TLC

CONSTANTS repo, content, devlike, tank, br0

MCFaultKinds == {"crash", "fail", "meddle", "edit", "upgrade", "rebuild"}
MaxFaultsOf(crash, fail, meddle, edit, upgrade, rebuild) ==
    ("crash" :> crash) @@ ("fail" :> fail) @@ ("meddle" :> meddle) @@ ("edit" :> edit)
    @@ ("upgrade" :> upgrade) @@ ("rebuild" :> rebuild)
SomeMixes == {{"fail", "meddle"}, {"crash"}, {"upgrade"}, {"edit"}, {"rebuild"}}
AnyMix == {MCFaultKinds}
OneOfEach == MaxFaultsOf(1, 1, 1, 1, 1, 1)
RebuiltOnce == MaxFaultsOf(0, 0, 0, 0, 0, 1)

\* devlike and repo become the same tag.
MCPolicies == {repo, content, devlike}
MCIdentifier == (repo :> "r") @@ (devlike :> "r") @@ (content :> "c")
MCSegment == (repo :> "repo") @@ (devlike :> "devlike") @@ (content :> "content")

Intent(policies, addons) ==
    [profile |-> "maintenance-basic", servers |-> 1, agents |-> 1, applications |-> FALSE,
     policies |-> policies, addons |-> addons]
Policy(name, access) == [name |-> name, access |-> access]
Both == <<Policy(repo, "read-write"), Policy(content, "read-only")>>

MCIntents ==
    {Intent(Both, {"nas-csi", "metrics-server"}),
     Intent(<<Policy(repo, "read-write"), Policy(repo, "read-write")>>, {"nas-csi"}),   \* refused
     Intent(<<Policy(repo, "read-write"), Policy(devlike, "read-write")>>, {}),
     Intent(<<Policy(content, "read-write"), Policy(devlike, "read-only")>>, {"nas-csi"})} \* refused
OneIntent == {Intent(Both, {"nas-csi"})}

MCFound == {[midclt |-> midclt, bridges |-> {br0}, kind |-> [d \in {tank} |-> "FILESYSTEM"],
             mountpoint |-> [d \in {tank} |-> "legacy"], pools |-> {tank}] :
                midclt \in {"missing", "works"}}
MCSelections ==
    {[complete |-> TRUE, bridge |-> br0, size |-> [r \in Roles |-> 1],
      exports |-> [p \in MCPolicies |-> [dataset |-> tank, sourcePath |-> Unset, tag |-> Unset]]]}
=============================================================================
