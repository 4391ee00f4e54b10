---------------------------- MODULE MCNodePlugin ----------------------------
(***************************************************************************)
(* Small instances of NodePlugin for TLC.                                  *)
(***************************************************************************)
EXTENDS NodePlugin, TLC

CONSTANTS repos, samples, pod1, pod2, pod3, h1, h2, t1, t2

MCPaths == {ExportPath(v) : v \in Volumes} \cup {StagingPath(v) : v \in Volumes}
           \cup {TargetPath(t) : t \in Targets}

MCFaultKinds == {"crash", "mount", "export"}

\* Crashes, failing mount commands and lost exports a behaviour may hold.
MaxFaultsOf(crash, mount, export) ==
    [k \in MCFaultKinds |-> CASE k = "crash" -> crash
                              [] k = "mount" -> mount
                              [] k = "export" -> export]
OneOfEach == MaxFaultsOf(1, 1, 1)
OneMount == MaxFaultsOf(0, 1, 0)

HandlersAlike == Permutations(Handlers)

Export(tag, readOnly) == [tag |-> tag, readOnly |-> readOnly]

\* repos is read-write and samples read-only; the second configuration has
\* dropped repos.
Both == [v \in Volumes |-> IF v = repos THEN Export(t1, FALSE) ELSE Export(t2, TRUE)]
SamplesOnly == [Both EXCEPT ![repos] = NoExport]

FixedConfig == {Both}
DroppingConfigs == {Both, SamplesOnly}

Stage(v) == [volume |-> v, readOnly |-> FALSE]
Publish(v, t, readOnly) == [volume |-> v, target |-> t, readOnly |-> readOnly]

StageAll == {Stage(v) : v \in Volumes}
StageReadOnlyToo == StageAll \cup {[volume |-> repos, readOnly |-> TRUE]}
ReposPods == {Publish(repos, pod1, FALSE), Publish(repos, pod2, TRUE)}
AllPods == ReposPods \cup {Publish(samples, pod3, FALSE)}
TwoPods == {Publish(repos, pod1, TRUE), Publish(samples, pod3, FALSE)}

\* The instances are ones the theorems about SerialSpec speak of.
ASSUME TagsFixed /\ AccessFixed
=============================================================================
