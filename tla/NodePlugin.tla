----------------------------- MODULE NodePlugin -----------------------------
(***************************************************************************)
(* The CSI node service of nas-csi: crates/node-plugin.                    *)
(*                                                                         *)
(* The plugin keeps no state.  Every handler reads the mount table, plans  *)
(* from it, and then runs one or two mount commands; nothing serialises    *)
(* handlers, and the table may change between two of their steps.  A       *)
(* handler is therefore cut at each command.  The guest mounts the         *)
(* virtiofs exports on its own (fstab, nofail), and kubelet sends the      *)
(* requests and repeats them until they succeed.                           *)
(***************************************************************************)
EXTENDS MountTable

CONSTANTS Volumes,          \* volume ids, which are also export ids
          Targets,          \* directories of pods
          Handlers,         \* calls the plugin can have in flight at once
          NoExport,         \* the configuration has no export of this id
          NoPublish,        \* no publish is acknowledged for this target
          RuntimeConfigs,   \* the contents /etc/nas-csi/node.yaml may have
          StageRequests,    \* NodeStageVolume requests: volume, readOnly
          PublishRequests,  \* NodePublishVolume requests: volume, target, readOnly
          Unstageable,      \* volumes kubelet may unstage
          Unpublishable     \* targets kubelet may unpublish

ExportPath(v) == <<"export", v>>      \* guest_mount_path of the export
StagingPath(v) == <<"staging", v>>    \* kubelet's staging directory
TargetPath(t) == <<"target", t>>      \* kubelet's directory for a pod

Exports == [tag: Tags, readOnly: BOOLEAN]

ASSUME PathsAssumption ==
    Paths = {ExportPath(v) : v \in Volumes} \cup {StagingPath(v) : v \in Volumes}
            \cup {TargetPath(t) : t \in Targets}
ASSUME NoExportAssumption == NoExport \notin Exports
ASSUME ConfigsAssumption == RuntimeConfigs \subseteq [Volumes -> Exports \cup {NoExport}]
ASSUME StageRequestsAssumption ==
    StageRequests \subseteq [volume: Volumes, readOnly: BOOLEAN]
ASSUME PublishRequestsAssumption ==
    /\ PublishRequests \subseteq [volume: Volumes, target: Targets, readOnly: BOOLEAN]
    /\ \A r, s \in PublishRequests : r.target = s.target => r.volume = s.volume
ASSUME TeardownAssumption == Unstageable \subseteq Volumes /\ Unpublishable \subseteq Targets
ASSUME FaultKindsAssumption == {"crash", "export"} \subseteq FaultKinds

VARIABLES
    up,          \* the plugin process runs
    exports,     \* the configuration it has loaded
    call,        \* what each handler is doing
    staged,      \* volumes whose staging kubelet holds for done
    published,   \* what the last acknowledged publish of a target stands for
    gone         \* targets whose unpublish was acknowledged, with no publish
                 \* started since and none in flight

vars == <<faults, mounts, up, exports, call, staged, published, gone>>

Idle == [step |-> "idle"]

\* What the publish of a target stands for: the tag the configuration named,
\* and whether the pod may write.
Publishes == [tag: Tags, readOnly: BOOLEAN]

MountPlans == [step: {"bind", "remount", "reply"}, operation: {"stage"},
               request: StageRequests, source: Paths, target: Paths, readOnly: BOOLEAN]
         \cup [step: {"bind", "remount", "reply"}, operation: {"publish"},
               request: PublishRequests, source: Paths, target: Paths, readOnly: BOOLEAN]
UnmountPlans == [step: {"umount"}, operation: {"unstage"}, of: Unstageable]
           \cup [step: {"umount"}, operation: {"unpublish"}, of: Unpublishable]
Calls == {Idle} \cup MountPlans \cup UnmountPlans

\* A mount in flight joins the two paths of its request.
FitsRequest(c) ==
    \/ /\ c.operation = "stage"
       /\ c.source = ExportPath(c.request.volume)
       /\ c.target = StagingPath(c.request.volume)
    \/ /\ c.operation = "publish"
       /\ c.source = StagingPath(c.request.volume)
       /\ c.target = TargetPath(c.request.target)

\* Every variable keeps its type, and the mount a handler is about to make is
\* the one of its request (the plans NodeStageAction and NodePublishAction).
NodeTypeOK ==
    /\ FaultsTypeOK
    /\ MountsTypeOK
    /\ up \in BOOLEAN
    /\ exports \in RuntimeConfigs
    /\ call \in [Handlers -> Calls]
    /\ \A h \in Handlers : call[h].step \in {"bind", "remount", "reply"} => FitsRequest(call[h])
    /\ staged \subseteq Volumes
    /\ published \in [Targets -> Publishes \cup {NoPublish}]
    /\ gone \subseteq Targets

Init ==
    /\ FaultsInit
    /\ mounts = [p \in Paths |-> <<>>]
    /\ up = FALSE
    /\ exports \in RuntimeConfigs
    /\ call = [h \in Handlers |-> Idle]
    /\ staged = {}
    /\ published = [t \in Targets |-> NoPublish]
    /\ gone = {}

-----------------------------------------------------------------------------
(***************************************************************************)
(* Helpers                                                                 *)
(***************************************************************************)
\* find_mount: the first line of mountinfo for the path, which is the mount
\* made first and not the one a process sees.
FoundMount(p) == mounts[p][1]

\* Mutant of MatchingExports: the id is not compared.
AnyExport(v) == {w \in Volumes : exports[w] # NoExport}

\* The exports of the configuration with the id of the volume.
MatchingExports(v) == {w \in {v} : exports[w] # NoExport}

\* The checks of plan_node_stage on the guest's mount of an export.
ExportReady(w) ==
    /\ Mounted(ExportPath(w))
    /\ IsVirtiofs(FoundMount(ExportPath(w)))
    /\ FoundMount(ExportPath(w)).source = exports[w].tag

\* Mutant of StagingReady: the type of the staging mount is not verified.
StagingMounted(v) == Mounted(StagingPath(v))

\* The checks of plan_node_publish on the staging directory.
StagingReady(v) ==
    Mounted(StagingPath(v)) /\ IsVirtiofs(FoundMount(StagingPath(v)))

\* Mutant of SameShare: the flags must agree as well.
SameMount(m, n) == m = n

\* Two mounts count as the same share when either field agrees.
SameShare(m, n) == m.source = n.source \/ Root(m) = Root(n)

\* read_only of the plan of a stage; the plan of a publish takes the request's
\* and relies on the staging mount for the access of the export.
StageReadOnly(r, w) == r.readOnly \/ exports[w].readOnly

MountPlan(operation, r, source, target, readOnly) ==
    [step |-> "bind", operation |-> operation, request |-> r,
     source |-> source, target |-> target, readOnly |-> readOnly]

Continue(h, next) == call' = [call EXCEPT ![h] = next]
Return(h) == call' = [call EXCEPT ![h] = Idle]
HandlerIdle(h) == up /\ call[h] = Idle
AtStep(h, step) == call[h].step = step

\* What an acknowledged publish stands for.
Promise(r) ==
    IF exports[r.volume] = NoExport THEN NoPublish
    ELSE [tag |-> exports[r.volume].tag,
          readOnly |-> r.readOnly \/ exports[r.volume].readOnly]

\* The answer OK to a stage or a publish.
Acknowledge(operation, r) ==
    IF operation = "stage"
    THEN staged' = staged \cup {r.volume} /\ UNCHANGED published
    ELSE published' = [published EXCEPT ![r.target] = Promise(r)] /\ UNCHANGED staged

PublishInFlight(t) ==
    \E h \in Handlers : /\ call[h].step \in {"bind", "remount", "reply"}
                        /\ call[h].operation = "publish"
                        /\ call[h].request.target = t

-----------------------------------------------------------------------------
(***************************************************************************)
(* NodeStageVolume and NodePublishVolume: read the mount table and plan    *)
(***************************************************************************)
\* A refusal leaves everything as it is.  What is mounted on the staging path
\* already is acknowledged when it counts as the same share, whatever its flags.
NodeStageVolume(h, r) ==
    LET staging == StagingPath(r.volume)
    IN  /\ HandlerIdle(h)
        /\ \E w \in MatchingExports(r.volume) :
              /\ ExportReady(w)
              /\ \/ /\ ~Mounted(staging)
                    /\ Continue(h, MountPlan("stage", r, ExportPath(w), staging,
                                             StageReadOnly(r, w)))
                    /\ UNCHANGED <<staged, published>>
                 \/ /\ Mounted(staging)
                    /\ SameShare(FoundMount(staging), FoundMount(ExportPath(w)))
                    /\ Acknowledge("stage", r)
                    /\ UNCHANGED call
        /\ UNCHANGED <<faults, mounts, up, exports, gone>>

\* kubelet publishes a volume whose staging was acknowledged.
NodePublishVolume(h, r) ==
    LET staging == StagingPath(r.volume)
        target == TargetPath(r.target)
    IN  /\ HandlerIdle(h)
        /\ r.volume \in staged
        /\ StagingReady(r.volume)
        /\ \/ /\ ~Mounted(target)
              /\ Continue(h, MountPlan("publish", r, staging, target, r.readOnly))
              /\ UNCHANGED <<staged, published>>
           \/ /\ Mounted(target)
              /\ SameShare(FoundMount(target), FoundMount(staging))
              /\ Acknowledge("publish", r)
              /\ UNCHANGED call
        /\ gone' = gone \ {r.target}
        /\ UNCHANGED <<faults, mounts, up, exports>>

-----------------------------------------------------------------------------
(***************************************************************************)
(* bind_mount: mount --bind, then for a read-only mount a second command.  *)
(* The answer is a step of its own: a crash before it loses the answer.    *)
(***************************************************************************)
Then(c, step) == [c EXCEPT !.step = step]

\* Mutant of AfterBind: the second command is forgotten.
AfterBindDone(c) == Then(c, "reply")

\* What is left to do after the first command.
AfterBind(c) == Then(c, IF c.readOnly THEN "remount" ELSE "reply")

Bind(h) ==
    LET c == call[h]
    IN  /\ AtStep(h, "bind")
        /\ \E ok \in BOOLEAN :
              /\ BindMount(c.source, c.target, ok)
              /\ Continue(h, IF ok THEN AfterBind(c) ELSE Idle)
        /\ UNCHANGED <<up, exports, staged, published, gone>>

\* When the second command fails the mount of the first one stays.
Remount(h) ==
    LET c == call[h]
    IN  /\ AtStep(h, "remount")
        /\ \E ok \in BOOLEAN :
              /\ RemountReadOnly(c.target, ok)
              /\ Continue(h, IF ok THEN Then(c, "reply") ELSE Idle)
        /\ UNCHANGED <<up, exports, staged, published, gone>>

Answer(h) ==
    /\ AtStep(h, "reply")
    /\ Acknowledge(call[h].operation, call[h].request)
    /\ Return(h)
    /\ UNCHANGED <<faults, mounts, up, exports, gone>>

-----------------------------------------------------------------------------
(***************************************************************************)
(* NodeUnstageVolume and NodeUnpublishVolume                               *)
(***************************************************************************)
NodeUnstageVolume(h, v) ==
    /\ HandlerIdle(h)
    /\ staged' = staged \ {v}
    /\ IF Mounted(StagingPath(v))
       THEN Continue(h, [step |-> "umount", operation |-> "unstage", of |-> v])
       ELSE UNCHANGED call
    /\ UNCHANGED <<faults, mounts, up, exports, published, gone>>

\* Mutant of Release: the exit status of umount is ignored.
ReleaseAnyway(t, ok) == gone' = IF PublishInFlight(t) THEN gone ELSE gone \cup {t}

\* The answer to an unpublish of t: OK unless umount failed.
Release(t, ok) == gone' = IF ~ok \/ PublishInFlight(t) THEN gone ELSE gone \cup {t}

NodeUnpublishVolume(h, t) ==
    /\ HandlerIdle(h)
    /\ published' = [published EXCEPT ![t] = NoPublish]
    /\ \/ /\ Mounted(TargetPath(t))
          /\ Continue(h, [step |-> "umount", operation |-> "unpublish", of |-> t])
          /\ UNCHANGED gone
       \/ /\ ~Mounted(TargetPath(t))
          /\ Release(t, TRUE)
          /\ UNCHANGED call
    /\ UNCHANGED <<faults, mounts, up, exports, staged>>

UnmountStaging(h) ==
    /\ AtStep(h, "umount")
    /\ call[h].operation = "unstage"
    /\ \E ok \in BOOLEAN : Unmount(StagingPath(call[h].of), ok)
    /\ Return(h)
    /\ UNCHANGED <<up, exports, staged, published, gone>>

UnmountTarget(h) ==
    /\ AtStep(h, "umount")
    /\ call[h].operation = "unpublish"
    /\ \E ok \in BOOLEAN :
          /\ Unmount(TargetPath(call[h].of), ok)
          /\ Release(call[h].of, ok)
    /\ Return(h)
    /\ UNCHANGED <<up, exports, staged, published>>

-----------------------------------------------------------------------------
(***************************************************************************)
(* The plugin process and the guest                                        *)
(***************************************************************************)
\* main: load the configuration, which may have changed, and serve.
Start ==
    /\ ~up
    /\ up' = TRUE
    /\ exports' \in RuntimeConfigs
    /\ UNCHANGED <<faults, mounts, call, staged, published, gone>>

\* The container dies with the mount commands it runs.  What it mounted stays.
Crash ==
    /\ up
    /\ Fault("crash")
    /\ up' = FALSE
    /\ call' = [h \in Handlers |-> Idle]
    /\ UNCHANGED <<mounts, exports, staged, published, gone>>

\* The guest mounts an export with the access its configuration gives it.
ExportMounted(v) ==
    /\ ~Mounted(ExportPath(v))
    /\ \E c \in RuntimeConfigs :
          /\ c[v] # NoExport
          /\ mounts' = [mounts EXCEPT ![ExportPath(v)] =
                           <<[source |-> c[v].tag, readOnly |-> c[v].readOnly]>>]
    /\ UNCHANGED <<faults, up, exports, call, staged, published, gone>>

ExportUnmounted(v) ==
    /\ Mounted(ExportPath(v))
    /\ Fault("export")
    /\ mounts' = [mounts EXCEPT ![ExportPath(v)] = <<>>]
    /\ UNCHANGED <<up, exports, call, staged, published, gone>>

Request(h) ==
    \/ \E r \in StageRequests : NodeStageVolume(h, r)
    \/ \E r \in PublishRequests : NodePublishVolume(h, r)
    \/ \E v \in Unstageable : NodeUnstageVolume(h, v)
    \/ \E t \in Unpublishable : NodeUnpublishVolume(h, t)

Advance(h) ==
    Bind(h) \/ Remount(h) \/ Answer(h) \/ UnmountStaging(h) \/ UnmountTarget(h)

Next ==
    \/ \E h \in Handlers : Request(h) \/ Advance(h)
    \/ Start
    \/ Crash
    \/ \E v \in Volumes : ExportMounted(v) \/ ExportUnmounted(v)

Spec == Init /\ [][Next]_vars

-----------------------------------------------------------------------------
(***************************************************************************)
(* Calls that overlap only where they do not touch the same paths: one     *)
(* call at a time on a staging directory or a target, and no unstage under *)
(* a publish that is about to bind the staging directory.  The plugin does *)
(* not see to this, its caller may.                                        *)
(***************************************************************************)
\* The path whose mounts a call in flight changes.
ChangedPath(c) ==
    IF c.step # "umount" THEN c.target
    ELSE IF c.operation = "unstage" THEN StagingPath(c.of) ELSE TargetPath(c.of)

Quiet(p) == \A h \in Handlers : ~AtStep(h, "idle") => ChangedPath(call[h]) # p
Unread(p) == \A h \in Handlers : AtStep(h, "bind") => call[h].source # p

SerialRequest(h) ==
    \/ \E r \in StageRequests : Quiet(StagingPath(r.volume)) /\ NodeStageVolume(h, r)
    \/ \E r \in PublishRequests : Quiet(TargetPath(r.target)) /\ NodePublishVolume(h, r)
    \/ \E v \in Unstageable :
          Quiet(StagingPath(v)) /\ Unread(StagingPath(v)) /\ NodeUnstageVolume(h, v)
    \/ \E t \in Unpublishable : Quiet(TargetPath(t)) /\ NodeUnpublishVolume(h, t)

SerialNext ==
    \/ \E h \in Handlers : SerialRequest(h) \/ Advance(h)
    \/ Start
    \/ Crash
    \/ \E v \in Volumes : ExportMounted(v) \/ ExportUnmounted(v)

SerialSpec == Init /\ [][SerialNext]_vars

\* No configuration gives an export another tag; it may drop an export.
TagsFixed ==
    \A c, d \in RuntimeConfigs, v \in Volumes :
        c[v] # NoExport /\ d[v] # NoExport => c[v].tag = d[v].tag

\* No configuration gives an export another access, and what is published on a
\* target is always asked for in the same way.
AccessFixed ==
    /\ \A c, d \in RuntimeConfigs, v \in Volumes :
          c[v] # NoExport /\ d[v] # NoExport => c[v].readOnly = d[v].readOnly
    /\ \A r, s \in PublishRequests : r.target = s.target => r = s

-----------------------------------------------------------------------------
(***************************************************************************)
(* Safety                                                                  *)
(***************************************************************************)
\* The tags some configuration gives to the export of a volume.
TagsOf(v) == {c[v].tag : c \in {c \in RuntimeConfigs : c[v] # NoExport}}

ShowsOnly(p, v) ==
    \A i \in 1..Len(mounts[p]) : mounts[p][i].source \in TagsOf(v) \cup {Disk}

\* No pod sees the files of another volume: whatever is mounted on the staging
\* path of a volume or on a target it is published to is a share of that volume
\* (or an empty directory), also under overlapping calls, failing commands,
\* vanishing exports and changed configurations (plan_node_stage looks the
\* export up by id and compares the tag).
MountsConfined ==
    /\ \A v \in Volumes : ShowsOnly(StagingPath(v), v)
    /\ \A r \in PublishRequests : ShowsOnly(TargetPath(r.target), r.volume)

\* A publish is acknowledged only when the pod sees the share the configuration
\* names, never an empty directory that hides a broken transport
\* (plan_node_publish is fail-closed), and it stays like that.
PublishedShowExport ==
    \A t \in Targets :
        published[t] # NoPublish => Top(TargetPath(t)).source = published[t].tag

\* A pod that may only read gets a read-only mount: because it asked for it, or
\* because the export is read-only ("enforce read-only publishes").
ReadOnlyPublishes ==
    \A t \in Targets :
        published[t] # NoPublish /\ published[t].readOnly
            => Top(TargetPath(t)).readOnly

\* This holds while every mount command succeeds and the plugin stays up, in
\* whatever order volumes are staged, published and undone, and also when
\* exports are lost and configurations change: bind mounts and remounts pass
\* the access of the export on to the staging path and to the pods.
ReadOnlyEnforced ==
    faults["mount"] = 0 /\ faults["crash"] = 0 => ReadOnlyPublishes

\* After an acknowledged unpublish nothing is mounted on the target: no publish
\* that was repeated, interrupted by a crash or failed half way leaves a mount.
UnpublishedAreGone == \A t \in gone : ~Mounted(TargetPath(t))

-----------------------------------------------------------------------------
(***************************************************************************)
(* Liveness.  A mount command ends, the DaemonSet restarts the plugin, the *)
(* guest mounts its exports in the end, and kubelet repeats a stage and a  *)
(* publish until they succeed.                                             *)
(***************************************************************************)
Fairness ==
    /\ WF_vars(Start)
    /\ \A v \in Volumes : WF_vars(ExportMounted(v))
    /\ \A h \in Handlers : WF_vars(Advance(h))
    /\ \A r \in StageRequests : SF_vars(\E h \in Handlers : NodeStageVolume(h, r))
    /\ \A r \in PublishRequests : SF_vars(\E h \in Handlers : NodePublishVolume(h, r))

FairSpec == Spec /\ Fairness

\* The guest mounts another share than the configuration names, or the staging
\* path shows another one, or an empty directory; nothing is staged there until
\* the configurations agree and the volume is unstaged.
OtherShare(v) ==
    /\ exports[v] # NoExport
    /\ \E p \in {ExportPath(v), StagingPath(v)} :
          \E i \in DOMAIN mounts[p] : mounts[p][i].source # exports[v].tag

\* The retries of kubelet get every wanted volume published, whatever crash,
\* failing command or lost export interrupted an earlier attempt, unless another
\* share is in the way.
RetriesSucceed ==
    \A r \in PublishRequests :
        published[r.target] = NoPublish ~> published[r.target] # NoPublish \/ OtherShare(r.volume)
=============================================================================
