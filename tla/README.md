# Verification of nas-csi

TLA+ models of nas-csi, the TLC runs that check them and the TLAPS proofs about
them. nas-csi makes TrueNAS datasets available to a k3s cluster that runs in VMs
on the same TrueNAS host: a CSI driver registers datasets as volumes, virtiofs
carries them into the VMs, and a host agent builds the VMs and the cluster.

## 1. The system

| part | state | operations | talks to |
|---|---|---|---|
| CSI controller service (`crates/csi-driver`) | volumes, publish assignments and snapshot metadata in memory behind one mutex; the same as a JSON state file | CreateVolume, DeleteVolume, ControllerPublish/Unpublish, Create/DeleteSnapshot, read-only lists; startup registers configured volumes | Kubernetes sidecars (gRPC), TrueNAS backend |
| TrueNAS backend and JSON-RPC client (`crates/csi-driver`, `crates/truenas-client`) | one WebSocket, request ids, authentication | query, create, delete of datasets and snapshots; reconnect, timeouts, bounded retries | TrueNAS |
| CSI node plugin (`crates/node-plugin`) | none of its own: `/proc/self/mountinfo` is its state | stage (virtiofs mount), publish (bind, then read-only remount), unpublish, unstage | kubelet, kernel mount table, runtime config written by the host agent |
| Host agent (`crates/host-agent`): apply, host-install | apply lock file, files it writes, what it staged for a rollback | inspect, plan, execute, roll back, verify | VM manager, systemd, libvirt, qemu-img |
| Host agent: cluster, csi, workload commands | token and kubeconfig files, a marker per applied manifest | cluster apply and install, csi install, workload validate | cluster manager, libvirt, guests over the qemu guest agent, kubectl |
| VM manager (`crates/vm-manager`) | none: pure planner | steps of an apply and the decision about each of them; documents of the guests | host agent |
| Cluster manager (`crates/cluster-manager`) | none: pure planner | ordered cluster bring-up, and what of it is done already | host agent |
| Types and discovery (`crates/types`, `crates/discovery`) | none | intent, selections and host facts become a host configuration, with validation | host agent |
| CSI bindings, xtask | none | generated code, packaging | - |

Hard behaviours, by part (PROJECT.json lists each as a hazard at its line):

- controller: handlers run on a thread pool; some call TrueNAS with the mutex
  held and some without it, so searches go stale; memory is changed before the
  state file and before TrueNAS, so each of them can be left behind by an error
  or a crash; answers from memory acknowledge what was never written.
- JSON-RPC client: late answers, repeated sends, a request whose effect is unknown
  and may come long after its call has failed.
- node plugin: the mount table is read and changed without a lock; a publish is
  two mounts; a path can be mounted twice.
- host agent, apply: a plan older than the lock, an inspection command that fails
  and is read as "there is nothing", a lock left by a killed process, a crash
  between a file and the daemon that reads it, a rollback that stops half way or
  puts files back and leaves daemons, VMs that run while their disk, definition or
  file shares change.
- host agent, cluster: no lock and no rollback, so every command starts from what
  the last one left; markers and a kubeconfig that outlive the cluster they speak
  of; node plugins that read their configuration once, while csi install rewrites
  it; guests that boot, join and stop by themselves.
- types: one validation accepts what a later one, in another process on another
  machine, refuses.

What makes each part correct:

- controller: existing datasets are never deleted; nothing is removed without
  permission; publishes are durable and belong to volumes; volume identity
  survives restarts; datasets are not shared by accident; it always comes back.
- JSON-RPC client: an answer belongs to its request; no request is sent twice
  after it may have been executed; a lost connection is replaced.
- node plugin: a pod sees the right export or an error; read-only is enforced;
  unpublish leaves no mount; retries converge.
- host agent, apply: two applies exclude each other; an executed plan leaves a
  host on which nothing is left to do and every daemon serves what it should; a
  rollback puts back what it promises; root disks that were booted from, exported
  datasets and running VMs are left alone; applying again settles.
- host agent, cluster: the first server before the others; a marker tells the
  truth; the cluster converges when it is applied again; no command leaves test
  files behind in a dataset; the node plugins start on every validated
  configuration whose export names stay distinct as tags and paths.

## 2. Modules

| module | models |
|---|---|
| `Faults` | the budget of crashes, failing writes, mount commands and connections that a behaviour may hold |
| `TrueNasBackend` | datasets and snapshots in TrueNAS, what the five calls of `ControllerBackend` do and answer, and requests TrueNAS executes after their call has failed |
| `Controller` | the controller process, its handlers, its memory and its state file |
| `VolumeRegistry` | abstract: a durable registry of volumes and their publishes |
| `ControllerRefinement` | the refinement mapping from `Controller` to `VolumeRegistry` |
| `MountTable` | the mounts of a node VM, and what mount and umount do to them |
| `NodePlugin` | the node plugin, its handlers, the guest's exports and what kubelet holds for done |
| `RpcService` | abstract: calls that TrueNAS executes at most once and whose answers are their own |
| `RpcClient` | the JSON-RPC client, its connection, the messages on it, and TrueNAS at its end |
| `FaultMixes` | `Faults` with a second bound: which kinds of faults may meet in one behaviour |
| `HostPlan` | the VM manager: the steps of an apply, their order, the decision about each of them |
| `HostApply` | the host agent's apply, host-install and its post-reboot check, with the host they act on |
| `Intent` | discovery, intent, selections and host configuration with their validations; node.yaml and fstab of a guest |
| `ClusterPlan` | the cluster manager: the steps of the bring-up and which of them are done already |
| `Guests` | what the cluster commands act on: guests, the Kubernetes cluster, files of the host, and what happens to them |
| `Cluster` | cluster apply, cluster install with its verification and reboot |
| `CsiInstall`, `Workload` | csi install; workload validate |
| `Platform` | an operator who runs these commands one after the other, killed or failing at any step |
| `MCController`, `MCNodePlugin`, `MCRpcClient`, `MCHostApply`, `MCPlatform` | instances for TLC |
| `ControllerProofs`, `NodePluginProofs`, `RpcClientProofs`, `HostApplyProofs` | TLAPS proofs that hold without a condition on who calls when |
| `NodePluginSerialProofs`, `HostApplySerialProofs` | TLAPS proofs for calls on one path that wait for each other, and for one host agent |
| `PlatformProofs` | TLAPS proofs about the cluster, csi and workload commands |
| `ControllerAgreementProofs` | TLAPS proofs that the controller agrees with its answers, its state file and TrueNAS, each under the condition it needs |

`HostApply` extends the planner it executes (`HostPlan`). `Intent`, `ClusterPlan`,
`Guests`, `Cluster`, `CsiInstall`, `Workload` and `Platform` extend each other in
that order: the pure parts first, then the world, then one module per command,
then the operator. What node.yaml a guest gets in `Guests` is the configuration
that `NodePlugin` starts with.

### 2.1 Controller

| in the model | in `crates/csi-driver/src/lib.rs` |
|---|---|
| `volumes`, `assignments`, `snapshots` | `ControllerState` behind the mutex |
| `file` | the JSON state file at `metadata_path` |
| `lock` | a handler that keeps the mutex across a TrueNAS call |
| `call` | the point a handler has reached |
| `config`, `pending`, `running` | the runtime configuration, the configured volumes startup still has to register, the process |
| `datasets`, `zfsSnapshots` | TrueNAS |
| `late` | requests whose calls failed (`truenas-client`, `lib.rs:195-225`) and that TrueNAS may still execute |
| `promised`, `published`, `failed` | history: what callers were last told, and every request a call for which has failed |

A handler is cut at its TrueNAS calls. A section that holds the mutex and makes
no such call is one action together with its write of the state file: no other
handler sees its middle, and a crash in it looks like one before or after it.

| operation | actions |
|---|---|
| CreateVolume | `CreateVolumeFound` (answered from memory); `CreateVolumeStart`, then `LookupExisting` or `AllocateDataset` without the lock, then `InsertVolume` |
| DeleteVolume | `DeleteVolumeAbsent`; `DeleteVolumeKeepDataset`; `DeleteVolumeAndDataset` (memory, then TrueNAS, lock held), `SaveDelete` |
| ControllerPublishVolume, ControllerUnpublishVolume | `PublishVolume`, `UnpublishVolume` |
| CreateSnapshot | `CreateSnapshot` (TrueNAS, lock held), `SaveSnapshot` |
| DeleteSnapshot | `DeleteSnapshot` (TrueNAS, no lock), `ForgetSnapshot` |
| startup | `Start` (configuration and state file), `RegisterConfigured` once per configured volume, `StartupFails` |
| process death | `Crash` |
| TrueNAS | `LateExecution`: it executes a request whose caller has given up, at any time |

Abstractions. Names, datasets, nodes and snapshot names are model values. Of a
volume the model keeps its name, dataset, access policy, multi-writer permission
and opt-in to deletion; tags, paths, capacity, SMB shares and retention are data
no property tells apart. Access modes are grouped in the classes that
`validate_capability` distinguishes. Requests that are refused before they
change anything (empty names, missing parameters, failed capability checks) are
stutters, and so are the read-only calls. `find_volume_for_create` takes the
first match in the order of ids; the model lets any match be the first one. The
state file is replaced by rename: a write that fails leaves the old content, or
the new one when only the sync of the directory failed. A TrueNAS call that
TrueNAS did not refuse may still end in an error, the client's own timeout among
them (`Fails`). Nobody then knows whether the request arrived: TrueNAS may execute
it at once, much later, when other calls have changed what it is about, or never
(`CatchUp`), and it refuses then what it would refuse from anybody. A controller
that dies during a call leaves the same behind as one whose call failed just
before.

Not modelled in the controller: the backend that does nothing
(`NoopControllerBackend`), a controller without a state file, a state file that
cannot be parsed, and more than one controller process (the deployment has one
replica).

### 2.2 NodePlugin

| in the model | in the code (`crates/node-plugin/src/lib.rs` unless named) |
|---|---|
| `mounts` | `/proc/self/mountinfo`: per path, the stack of mounts in the order they were made |
| `FoundMount`, `Top` | the first entry for a path, which `find_mount` takes; the last one, which a process sees |
| `exports`, `up` | the runtime configuration loaded at startup; the process |
| `call` | the plan of a handler (`NodeStageAction`, `NodePublishAction`, ...) and the command it is at |
| `staged`, `published`, `gone` | history: what kubelet was last told |

The plugin keeps no state and takes no lock. A handler reads the mount table and
plans in one step, then runs each mount command in a step of its own, then
answers; anything may happen between two steps.

| operation | actions |
|---|---|
| NodeStageVolume, NodePublishVolume | `NodeStageVolume`, `NodePublishVolume` (read and plan, or answered as done already), `Bind`, `Remount` for a read-only mount, `Answer` |
| NodeUnstageVolume, NodeUnpublishVolume | `NodeUnstageVolume`, `NodeUnpublishVolume` (read and plan, or nothing to do), `UnmountStaging`, `UnmountTarget` |
| process | `Start` with a configuration of its own, `Crash` (also before an answer) |
| guest | `ExportMounted` (fstab), `ExportUnmounted` (virtiofsd or the guest loses the share) |

A staging path fits its volume, and each pod directory one volume, as kubelet
lays them out. Abstractions: a mount is its virtiofs tag and its read-only flag,
or the directory of the root disk that shows where nothing is mounted; the
`root` field of mountinfo tells only shares from directories. Bind mounts take
over the flags of what they show. A refused request, a directory that cannot be
made and a mount table that cannot be read change nothing and are stutters.
Mount propagation and other file systems on these paths are left out.

The plugin itself lets any two calls overlap, and `Spec` does too. `SerialSpec`
is the same plugin under the caller it has: kubelet does not start a call that
changes a path while another one does (`Quiet`), nor unstages a volume while a
publish of it is under way (`Unread`). Calls on different paths still overlap.

### 2.3 RpcClient

| in the model | in `crates/truenas-client/src/lib.rs` |
|---|---|
| `nextId`, `attempt` | `JsonRpcClient::next_id`, the loop variable of `send` |
| `phase` | where the blocking call is: connecting, sending, reading |
| `socket` | `TrueNasWebSocketTransport::socket`, with what the network did to it |
| `inbox`, `here` | messages on their way to the client, and the requests whose answers can still take it |
| `received`, `outcome` | TrueNAS: requests it has and what it did |
| `told`, `disturbed`, `futile` | history: the end of each call, and how many failed in a row undisturbed |

| operation | actions |
|---|---|
| `call` | `Call`, then the actions of `send`, then `Read` (`parse_response`) |
| `send` | `Connect` (connection, TLS, authentication), `SendRequest`, `SendIntoTheVoid`, `SendFails`; `ReadFails` and `Timeout` of `read_text_message` |
| TrueNAS and network | `Execute` at any time and in any order, `Break` at any time |

The client is used under a mutex (`TrueNasApiBackend::with_client`), so calls
come one after the other. A send that fails has not transmitted a whole request,
since the bytes that remain are never sent and TrueNAS reads whole frames. A
controller that dies takes its client with it, and the next one starts over:
that is a new behaviour. The method and its result are data; a result that
cannot be parsed is an error like any other and is left out.

How this fits under `Controller`: `RpcService` lets TrueNAS execute a request at
most once, before or at any time after the call for it has failed. That is what
`TrueNasBackend` makes of a failed call: one request that is `late`, executed once
or never.

### 2.4 HostPlan and HostApply

| in the model | in the code (`crates/host-agent/src/main.rs` unless named) |
|---|---|
| steps `<<kind, node, export>>`, `Steps`, `Precedes` | `plan_host_apply` of `crates/vm-manager`: the list of `ApplyStep` and its order |
| `Decision` | `plan_host_reconcile`: apply (and which operation), skip or refuse |
| `file`, `disk` | rendered artifacts, seed images and unit files by content; root disk images by size, origin and use |
| `loaded`, `enabled`, `running` | systemd: unit files as last read, units started at boot, the unit content each virtiofsd was started from |
| `domain` | libvirt: persistent definition, live definition, autostart |
| `lock` | `apply.lock`: free, held by a process, or left by one |
| `run` | what a process is doing: its configuration and plan, the steps it has yet to execute, `ExecutionRollback` |

| operation | actions |
|---|---|
| load, inspect, plan, guard of host-install | `Begin`, before the lock is taken; `missed` are the commands of the inspection that fail |
| `ApplyLock::acquire`, drop | `Acquire`, `AcquireFails` (the file exists and cannot be written: nobody removes it), `Release` inside the actions that end a run |
| `ExecuteSafety::from_config`, refused plans | `Check` |
| `execute_reconcile_plan` | `Execute` once per operation (staging, then the operation), `ExecuteFails` with or without the effect |
| `ExecutionRollback::restore`, `commit` | `Restore` once per staged item, `RestoreFails`, `Restored`; `Commit`, `CommitFails` |
| verification of host-install | `Verify`, `VerifyFails` |
| environment | `Kill`, `Reboot`, `EditConfig`, `ClearLock`, `Meddle` (VMs started and stopped) |

Abstractions. The content of a file stands for its hash, and the definition of a
domain for the content of the XML file it was defined from, which is what the
hash in its metadata says. All rendered artifacts of a node are one file, since
they are written together and always read together. The step that removes a
stale seed image is left out: the planner skips it in every state. A root disk
remembers whether a guest has booted from it, which no code reads. The
environment's part is modelled from how the host agent uses it: qemu keeps the
image of a running VM locked, `systemctl enable` reads all unit files again,
`systemctl enable --now` starts a stopped unit and leaves a running one alone, a
reboot starts enabled units and autostarted VMs.

An inspection command that exits with an error ends nothing: the code reads it as
an answer (`CommandRunner::output`, `main.rs:4636`), and so does `Seen`. A failed
`virsh dumpxml` is a domain that does not exist; a failed `domstate`, or any state
other than running, such as a paused VM, is a domain that is not active; a failed
`dominfo` is no autostart; a failed `is-active` or `is-enabled` is "no"; an image
`qemu-img info` tells nothing of is one the planner refuses, which is also what
becomes of the disk of a running VM where qemu-img cannot read it, as `-U` is not
passed. `Probes` names these commands, and any set of them may fail together as
far as the proofs are concerned. Three things are left out: a command that cannot
be started at all ends the run before it changes anything (a stutter); a file that
exists and cannot be examined counts as absent in the code and is not modelled;
and the second inspection, which host-install verifies with, can only reject where
a command of it fails, which `VerifyFails` stands for. `status`, `health` and
diagnostics change nothing and are left out, but for the health report that
host-install verifies with.

### 2.5 The cluster commands

| in the model | in the code |
|---|---|
| `ValidIntent`, `Selectable`, `HostConfigFrom`, `ValidHostConfig`, `ValidRuntimeConfig` | the validations and conversions of `crates/types` |
| `Discover`, `DatasetPath` | `crates/discovery`, and what `HostConfig` takes from it |
| `Identifier`, `Segment`, `ResourceName` | `safe_identifier`, `safe_path_segment`, `safe_k8s_name`: functions that need not be injective |
| `RuntimeConfig`, `GuestMounts` | node.yaml and fstab that `crates/vm-manager` renders for a guest |
| `FirstSteps`, `JoinSteps`, `NodeSteps`, `ManifestSteps`, `AlreadyCorrect`, `PlanCluster`, `IsCurrent` | `plan_cluster_reconcile` and `is_current` of `crates/cluster-manager`; `Skip` is `SkipAlreadyCorrect` |
| `guest` | per node VM: off, booting, up with its guest agent, serving k3s; the documents it was given; the configuration its node plugin runs with |
| `cluster` | what Kubernetes stores: nodes with labels and taints, manifests, static volumes, pods |
| `files` | token, kubeconfig, which of them is still readable by everybody, manifest markers, the sentinel of workload validate |
| `run` | the command in progress: its configuration, the hashes of the manifests it loaded, the steps it has yet to do |

A command is `Begin` (load, validate), `MakePlan` (inspect, plan), then one
`Work` per step. `Holds` tells whether a step can succeed and the operators named
`Step...` what it does. A step that does not hold fails (`StepFails`, a command
refused or a deadline that passes), any other one may (`StepBreaks`), with or
without its effect; the command then ends, after what `Cleanup` still does. A
command may be killed between any two steps. A step the inspection found done
stays in the plan as `Skip`, and `Continue` passes over those that come next, for
they do nothing and take no time. Three steps of the plan are two operations each,
because something can come in between: a secret is written and then made private, a
manifest is applied and then its marker written. Guests boot, serve, register and
start their node plugin as steps of their own, at any time.

Abstractions. The commands take no lock; the model runs one at a time, as an
operator does. The scripts that run in workload pods, the observation of daemons
around them and the exports an operator may name are left out: they change
nothing of what is modelled. Names, paths and checksums are model values or a
flag; node counts and the numbers made from them keep their wrap-around
(`MaxU16`). Kubernetes and the guests are modelled from how the code observes
and drives them, and marked external.

## 3. Runs

Faults are bounded per behaviour by `MaxFaults`, requests and configurations are
the sets named in the MC modules. Handlers are interchangeable, so the large
safety runs with two of them use symmetry; no run with a liveness property does.

Controller (`MCController`): two volume names, two datasets of which one exists
beforehand, one node, one snapshot name. Two names and two datasets are the
least that let a call be about another volume or another dataset; every property
relates at most two volumes. One handler where the question is about sequences
of calls and failures, two where it is about interleavings.

| run | handlers | faults | requests | configuration | shows |
|---|---|---|---|---|---|
| `controller_safety` | 2 | 1 crash, 1 write | a dataset per volume, repeated, with odd opt-ins and datasets | changes between processes | `TypeOK`, `ExistingDatasetsKept`, `PublishedVolumesRegistered`, `PublishesDurable`, `VolumesBacked`, `SnapshotsMatch` |
| `controller_restart` | 2 | 2 crashes, 1 TrueNAS | a dataset per volume, repeated | never deletes datasets; may have a configured volume whose dataset is missing | `PromisesKept`, `ImplementsRegistry`, `ComesBack` |
| `controller_serial` | 1 | 1 TrueNAS, and 1 crash or 1 write | any name, any dataset, both modes, refused ones | may delete datasets, or a later process may not | `DatasetsRegisteredOnce`, `VolumesBacked`, `RemovalsAllowed` |

A TrueNAS fault is a failed call together with the late execution of its request,
so one of them is enough for a delete that comes after the dataset was registered
again. `CrashOrSave` keeps `controller_serial` from having both a crash and a
failing write in one behaviour; with both it does not end within the time a run
has. The runs have 909, 406 and 1630 thousand states.

Node plugin (`MCNodePlugin`): a read-write volume with a read-only and a
read-write pod, a read-only volume with one pod, each volume with a tag of its
own; `node_liveness` has one pod per volume.

| run | handlers | faults | configuration | shows |
|---|---|---|---|---|
| `node_sequential` | 2, `SerialSpec` | 1 crash, 1 mount command, 1 lost export | may drop an export | `NodeTypeOK`, `PublishedShowExport`, `ReadOnlyEnforced`, `UnpublishedAreGone` |
| `node_liveness` | 2 | 1 crash, 1 mount command, 1 lost export | fixed | `MountsConfined`, `RetriesSucceed` |

JSON-RPC client (`MCRpcClient`): `rpc_client` has four calls, one retry, three
connection failures and two late answers, and shows `RpcTypeOK`,
`ImplementsService` and `LossesAreOvercome`. Three failures exhaust both
attempts of a call and leave one more for another; two late answers put the
client two messages behind. The run ends when its calls are used up, so it does
not check for deadlock.

Host agent (`MCHostApply`): `host_apply` has one node with two exports, so that a
reload serves several daemons and an export can be taken away; one process; three
configurations (another unit, everything else with a larger disk in a dataset,
one that execution refuses); three hosts (fresh, one with VMs defined by hand, one
an older configuration was applied to); tools that are all there or lack virsh;
every command with and without the operator's permissions. One fault of each
kind, in the combinations `FaultMixes` allows: a kill, a reboot, an edit and a
meddled VM; a failing operation with the same; a kill, a failing operation and a
broken rollback with an edit; one inspection command of any kind that fails
(`OneMissed`) with a failing operation and an edit. It shows `HostTypeOK`, `LockOwned`,
`ExecutedIsConverged`, `ServesDesired`, `RestartsNeeded`, `RootDisksKept`,
`RunningVmsKept`, `DatasetsUntouched`, `RollbackRestores` and `ApplySettles`, on
370 thousand states. More processes than one are left to the proofs: with one,
`LockOwned` still says that no end of a run leaves its lock behind.

Cluster commands (`MCPlatform`): `platform` has a server and an agent, two
exports, two add-ons, four intents (a good one, two that validation refuses and
one without add-ons whose export names become one tag) and a host with and without midclt;
`MaxNodes` is the number of nodes and `MaxU16` the largest sequence number they
need. The faults (a kill, a failing step with a meddled guest, an upgrade, an
edit, a rebuilt cluster) come one kind at a time but for the failing step, which
is what `FaultMixes` says. It shows `PlatformTypeOK`, `MarkersTrue`,
`PluginsCurrent`, `PluginsStart`, `SentinelRemoved`, `JoinsFollowFirst` and
`ClusterConverges`, on 270 thousand states. It does not check for deadlock: with
an edited configuration that is invalid every command is refused and, once the
guests are up, nothing happens. The runs not named here check for deadlock.

The assumptions in the tables are part of the results; the proofs of section 4
state them as hypotheses:

- `PromisesKept` and `ImplementsRegistry` need a state file that can be written
  and datasets that stay. `controller_lost_volume` is the counterexample without
  the first. Without the second a delete that TrueNAS refuses has already left
  memory, its retry is answered OK, and after a restart the volume is back. The
  part about acknowledged creates, `CreatedVolumesKept`, needs the first only.
- `DatasetsRegisteredOnce` needs calls one at a time, since the search of
  CreateVolume and its insert are two critical sections: two concurrent creates
  of one dataset under two names register it twice. So would a client that asks
  for a configured volume's dataset under another name before a restart, since
  startup looks for no dataset. With a dataset per name neither matters.
- `VolumesBacked` needs calls one at a time, or datasets that are never asked for
  both as existing and as new, and configured datasets that are there: startup
  registers a configured volume whose dataset TrueNAS does not have. It has one
  exception (`Doomed`): a dataset for which a delete call failed once. The volume
  has left memory when that call fails, so a create in existing-dataset mode can
  register the dataset again, and then TrueNAS executes the old request. One
  handler and no crash are enough: without the exception `controller_serial` finds
  this behaviour.
- `RemovalsAllowed` is about the process that asks: it allows TrueNAS to execute,
  under any later configuration, a removal that was allowed when it was asked for
  and whose call failed.
- `SnapshotsMatch` needs calls one at a time or a dataset per volume, since the
  snapshots of one dataset are listed by volume.
- `SnapshotsMatch` and `VolumesBacked` say in their formulas that they are about
  behaviours without a crash, and the first without a TrueNAS error; writes may
  fail. A crash between the deletion of a dataset and the write brings the volume
  back without it, and one between the two halves of a snapshot leaves a snapshot
  that the controller does not list.
- `ReadOnlyEnforced` is stated for behaviours in which no mount command failed
  and the plugin did not die; `node_writable` is the counterexample without. It
  also needs calls on one path that wait for each other, and an access of exports
  and targets that no configuration and no request changes.
- `PublishedShowExport` and `UnpublishedAreGone` need calls on one path that wait
  for each other: two overlapping publishes of one target mount it twice, and the
  unpublish that is answered OK takes one of the two away. kubelet, the only
  caller, serialises the calls for a target. The first also needs tags that stay
  as they are:
  `plan_node_publish` never compares the tag of what is staged, so a share that
  was staged under an older configuration is published under the new one.
- `RetriesSucceed` names the state that retries do not get out of: a stage that
  bound the empty directory of a lost export blocks every later stage until it is
  unstaged.
- `LossesAreOvercome` needs answers in time. After a timed-out request the
  connection stays in use and its late answer is read by the next call, which
  fails on the id, as does every call after it until the connection breaks. It
  also needs `max_retries` of at least one.
- `ServesDesired` needs runs that are not killed and rollbacks that complete; and
  operations that do not fail, or one configuration. A kill between the write of
  a unit file and the restart of its daemon leaves a file that every later plan
  takes for converged, and the daemon stays old until a reboot. A rollback does
  the same to a daemon it had restarted, when the configuration is edited back.
  Its half about VMs makes one exception, `AwaitedRestart`. The planner compares
  the desired definition with the live one of a running VM, and not with the
  persistent one. So when the configuration is edited from one definition to
  another and back while a VM runs, the second apply leaves the VM with the other
  persistent definition, and its next start is the wrong one. The proof below
  found this; the run has one edit and cannot reach it.
- `RestartsNeeded` needs runs that are not killed, and operations and inspections
  that do not fail. The part of `ServesDesired` about daemons needs the last too: when
  `is-active` fails, the plan enables a unit that it should restart, and the daemon
  keeps serving the old unit behind a unit file that is right.
- `RunningVmsKept` excepts VMs for which the run's `dumpxml` or `domstate` failed:
  the first is planned as a new domain, the second as one that does not run, and
  both are defined without the operator's permission to redefine running VMs. A
  paused VM is the second case without any failure: its state is not "running".
- `RollbackRestores` excepts VMs whose `dumpxml` failed: nothing is staged for a
  definition that seems not to exist, so a completed rollback leaves the new one.
  Without these exceptions `host_apply` refutes `RunningVmsKept`, `RollbackRestores`
  and `ServesDesired`. `ExecutedIsConverged`, `RootDisksKept`, `DatasetsUntouched`,
  `LockOwned` and `ApplySettles` make none for failing inspections.
- `RollbackRestores` is about runs whose rollback completes. A domain that was
  already waiting for a restart gets its live definition back, not its persistent
  one, which is what the code recorded.
- `RootDisksKept` and `ExecutedIsConverged` are checked with VMs that are started
  and stopped between runs and with one process. With two, a plan made before the
  other process took the lock creates a root disk again that a guest has booted
  from by then, once its VM is stopped (`main.rs:348-385`): the plan is not made
  again under the lock.
- `ApplySettles` names the state it can end in besides a converged one: a larger
  disk for a VM that runs, which qemu-img cannot resize and no plan avoids.
- `MarkersTrue` and `ClusterConverges` need a cluster that is not rebuilt behind
  the files on the host (`cluster_rebuild`), `PluginsStart` a configuration that
  is not edited.

Runs that are expected to fail show where the code does not do what the
documentation says (PROJECT.json, findings):

- `controller_lost_volume`: a create whose write failed stays in memory; the
  retry is answered OK from memory without a write; after a restart the volume
  is gone.
- `node_writable`: the remount of a read-only publish fails, the read-write bind
  mount stays, and the retry is answered as done already.
- `host_install`: on a fresh host host-install --execute does all its work, finds
  the host healthy and verified, and then fails, since its check for idempotence
  plans from an inspection that does not look at the rendered artifacts; the
  post-reboot check fails in the same way. One process and no failure are enough.
- `cluster_rebuild`: after the cluster was rebuilt from nothing the markers on the
  host still name the manifests, so cluster install skips them, verifies the
  markers and completes without them.

Two more disagreements were met and have no run of their own. workload validate
--execute fails at its pod sentinel check in every run, because the runner trims
what the pod printed and the sentinel ends in a newline (`main.rs:4640`, against
`docs/operations/runbooks/first-deploy.md:136`); `Workload` models it as it is,
and `SentinelRemoved` is about what the failing command leaves. And the README of
host-agent says that apply never replaces a root disk, which the overlapping
applies above can.

Fairness. `controller_restart`: a handler goes on with its call, since it runs on
its own thread and every TrueNAS call has a timeout; a process that is down is
started again, since Kubernetes restarts the container; startup goes on with its
configured volumes. `node_liveness`: mount commands end, the DaemonSet restarts the
plugin, the guest mounts its exports in the end (fstab, nofail), all weakly fair;
kubelet repeats a stage and a publish until they succeed, which is strong fairness,
since a plugin that restarts disables them again and again. `host_apply`: a run that
has started goes on, since its commands end; somebody removes a lock file that is
left, and the operator applies again whenever a run is over, strongly fair, since a
run in progress disables it again and again, in the end with an inspection all of
whose commands succeed: a failed one is a fault. `platform`: guests boot, join and start
their plugin, weakly fair per node, since libvirt, systemd and the DaemonSet see to
it; every wait of a command has a deadline, so a command goes on or fails; and the
operator applies the cluster again, strongly fair. No fault, crash, teardown or edit
ever has to happen.

Every property has a mutant, a change of one definition that a plausible bug
would make and that the property's own run then refutes. The mutated definitions
stand in the modules before the definitions they replace.

## 4. Proofs

`ControllerProofs` proves, for every set of names, nodes, handlers, datasets and
requests, every set of configurations and every number of faults:

- `TypeCorrect`: `TypeOK` is inductive as it stands.
- `ExistingKept`: `ExistingDatasetsKept`. By itself it is not inductive: that
  TrueNAS still has the datasets says nothing about who may delete them next. The
  strengthening `OptInsAreOwn` says that no volume with an opt-in to deletion
  stands for an existing dataset, in memory, in the state file and in calls that
  are about to register a volume. It holds there because TrueNAS refuses to
  create a dataset that exists, and a request in existing-dataset mode never
  opts in. `LateRequestsOwn` says that no failed request is about the deletion of
  such a dataset either, so none can be executed late. A configuration can only
  change between two processes, and then no
  call is in flight (`QuietWhenDown`), so an opt-in is not reinterpreted half way.
- `OnlyAllowedRemovals`: `RemovalsAllowed`, an action property, from `TypeOK`: a
  removal, or a request for one that fails, is a step of a process that may ask for
  it, and what TrueNAS removes later uses up such a request.
- `PublishesAreDurable`: `PublishesDurable`, inductive together with
  `QuietWhenDown`: a process that answers calls has in memory what is published,
  so no handler can save a state that lacks it.
- `PublishedAreRegistered`: `PublishedVolumesRegistered`, from `TypeOK`.

The frame lemmas of `ControllerProofs` (`RequestFrame`, `AdvanceFrame`) say what
all steps of a handler have in common, so that each invariant looks only at the
actions that can disturb it. The assumptions are those the modules state about
their constants: sentinels are not members of the sets they stand outside of,
requests and configurations are well formed, and the fault kinds are named.

`ControllerAgreementProofs` proves what needs a condition on faults, requests or
configurations. Crashes, TrueNAS errors, failing writes and interleavings are
otherwise free, and each theorem names its hypotheses:

- `CreatedAreKept`: `CreatedVolumesKept`, if the state file can be written
  (`Writable`). This is the property `controller_lost_volume` violates, so the
  failed write is the only reason. A volume may leave memory before the file,
  never the other way round (`VolumesSaved`), and an acknowledged one is in both
  (`CreatedHeld`).
- `RegistryImplemented`: `ImplementsRegistry`, if in addition no configuration
  deletes datasets (`DatasetsStay`). Then the file is always what is in memory
  (`FileCurrent`), every step is one step of the registry or none, and a volume
  answered to be absent is not in the file. `PromisesAreKept`: `PromisesKept`, from
  the same invariant and the first theorem.
- `DatasetsAreRegisteredOnce`: `DatasetsRegisteredOnce`, if each dataset is asked for
  under one name (`OwnDatasets`), by `VolumesSourced`: every volume, in memory, in
  the file and in the configurations still to be registered, stands for a dataset
  somebody asked for under its name. Or if calls do not overlap (`OneHandler`) and
  nobody else asks for the dataset of a configured volume (`ConfiguredApart`), by
  `Unclaimed`: no volume has the dataset of a create in progress.
- `VolumesAreBacked`: `VolumesBacked`, if configured datasets were there from the
  start (`ConfiguredThere`) and either calls do not overlap or no dataset is asked
  for both as existing and as new (`ModesApart`). That the datasets are there is
  not inductive by itself: the next delete may take one from under another volume.
  `BackedParts` adds that a volume that opted in to deletion shares its dataset
  with no other, registered or about to be, unless a deletion of that dataset has
  failed (`Doomed`): then the volume that asked for it is gone from memory while
  the dataset is still there, and any other may take it. `LateRequestsOwn` says
  that TrueNAS executes nothing late but such a request. `PresetUntilServing`
  covers startups that fail and are repeated.
- `SnapshotsAreMatched`: `SnapshotsMatch`, if calls do not overlap or with
  `OwnDatasets`. Between the deletion in TrueNAS and the second half of
  `delete_snapshot` a snapshot is listed that is gone; `ForgettingGone` says that it
  stays gone and that only one call is about to forget it.

`NodePluginProofs` proves, for all volumes, pods, configurations, handlers and
numbers of faults:

- `NodeTypeCorrect`: `NodeTypeOK`, inductive because a handler's plan is made
  for the two paths of its request and no later step changes them.
- `PodsAreConfined`: `MountsConfined`. It is strengthened to `Confined`, which
  says the same of the export paths: a bind mount copies what its source shows,
  so what a pod sees goes back to the export over two mounts that different
  handlers may have made under different configurations. The argument is that
  every path belongs to one volume and a plan joins two paths of the same one
  (`SourceOwned`), so stale plans and overlapping handlers do no harm.

`NodePluginSerialProofs` proves, for the same constants, what holds when calls on
one path wait for each other (`SerialSpec`); `OneHandlerIsSerial` shows that a
plugin with one handler is a case of it, whoever calls it:

- `UnpublishedTargetsAreGone`: `UnpublishedAreGone`, through crashes, failing
  mount commands, lost exports and changed configurations.
- `PublishedTargetsShowExport`: `PublishedShowExport`, under `TagsFixed`: no
  configuration gives an export another tag. The invariant is `SerialInv`: no path
  carries two mounts (`NoStacks`), so the entry `find_mount` reads is the one a
  process sees; what a call in flight has read is still so (`CallsSound`), because
  no other call changes what it depends on (`CallsApart`); an acknowledged publish
  shows a share (`PublishedMounted`), and an acknowledged unpublish shows nothing
  and has nothing in flight (`GoneQuiet`). That the share is the right one is
  `MountsConfined`, proved above.
- `ReadOnlyIsEnforced`: `ReadOnlyEnforced`, under `AccessFixed`: no configuration
  changes the access of an export and all requests for a target agree on it. It
  adds `AccessInv`: without faults every mount of a read-only request is read-only
  or about to be remounted.

`RpcClientProofs` proves, for all numbers of calls, retries and faults:

- `RpcTypeCorrect`: `RpcTypeOK`, the bound on attempts included.
- `ServiceImplemented`: `ImplementsService`. The invariant `CallsInOrder` says
  where each call stands: what has yet to be sent TrueNAS does not have
  (`ReceivedOnce`, the reason a retry is no second execution), and messages on
  their way say what TrueNAS did (`AnswersTrue`, the reason an answer with the
  right id is the right answer).
- `LossesOvercome`: `LossesAreOvercome`. The invariant `Undelayed` says that,
  without late answers, nothing is on its way when no call waits for it, and
  that after an undisturbed error the connection is known to be dead, so the
  next call replaces it in its first attempt.

`HostApplyProofs` proves, for any number of processes, nodes and exports, all
hosts, configurations and permissions and every number of faults:

- `HostTypeCorrect`: `HostTypeOK`. It is strengthened to `TypeInv`: a run in
  progress is a record of a known shape whose phase fits its command, every
  operation of its plan is one the planner decides for such a step (`Fits`), a
  redefined domain has a definition to put back, and what it staged is of a kind
  `restore` can put back (`Undos`). Without these an operation could write to a
  file that does not exist in the model, or a rollback undefine a domain.
- `LockIsOwned`: `LockOwned`, inductive with `TypeInv`, one step lemma per action.
- `DatasetsKept`: `DatasetsUntouched`. `TypeInv` carries what the guard of
  host-install found in the plan through the whole run (no operation that writes
  has its target inside a dataset); `LockOwned` says that nobody but the holder
  executes; and the lemma `EffectKeeps` that an operation writes to its target.

Fields of a run are changed through one operator per field (`Moved`, `Replanned`,
`Undoing`, `Recorded`), with a lemma on what each of them keeps, because the
actions change several fields of a record at once.

`HostApplySerialProofs` proves the six theorems that need one host agent. All assume
`Alone`: one process, and VMs that are started and stopped only between its runs.
Kills, reboots, edits, failing operations and rollbacks come in any number and
order, and any set of commands of an inspection may fail. Their inductive invariant
`SerialInv` says what a run in progress may rely on:

- until the lock is taken, the plan is the one that planning would give now if the
  same commands failed (`PlanCurrent`): this is where more than one process breaks in;
- while it executes, every step of the configuration is either still planned and
  still called for (`Pending`) or as it should be (`Done`), and no operation
  undoes an earlier one, which is where the order of the plan matters
  (`HalfWay`);
- the rollback has an entry with the old content for everything the run changed
  that it promises to put back, one for each (`Rewinds`), and no entry for
  something still to be done (`Recording`).

From it follow

- `ExecutedRunsConverge`: `ExecutedIsConverged`, since with no step left all are
  `Done`, and the planner skips what is done;
- `RollbackIsComplete`: `RollbackRestores`, for the definitions the inspection could
  read; `RootDisksAreKept`: `RootDisksKept`,
  since a disk is created only where there still is none; `RunningVmsAreKept`:
  `RunningVmsKept`, since the plan knows which VMs run unless their `dumpxml` or
  `domstate` failed;
- `RestartsAreNeeded`: `RestartsNeeded`, with `Whole`: without a failed inspection
  the plan has seen everything, and `SmoothRun`: without kills and failures every
  daemon serves its unit file but for the one about to restart;
- `ExecutedRunsServe`: `ServesDesired`, with `SmoothRun` for behaviours in which no
  operation failed and `SteadyRun` for those with one configuration: a unit file
  that is right is read and served, or was written by the run in progress, and a
  rollback makes wrong again what was wrong before it.

`PlatformProofs` proves all safety properties of the cluster, csi and workload
commands, for all intents, hosts, selections and conversions of names, any number
of nodes, exports and faults in any combination:

- `PlatformTyped`: `PlatformTypeOK`. Its strengthening `TypeInv` says that what a
  command has still to do is a sequence of steps about things that exist, in the
  order the planners make (`Ordered`): a record follows its manifest, a sentinel is
  looked for and removed before anything else, every node.yaml is written before
  the plugins are restarted. The planners are proved to establish it, for plans of
  every length (`PlannedSteps`, `CsiIsTyped`, `WorkloadIsTyped`), and every step to
  keep it: `Successor` describes what is to do after a step, with the skipped steps
  that are passed over and the second half of a twofold step put in front.
- `MarkersTell`: `MarkersTrue`. A marker names a version no newer than the one in
  the cluster, and a record that is about to be written does too (`MarkersInv`); so
  an upgrade under a running command makes a marker too old, never too new.
- `PluginsDoStart`: `PluginsStart`, from `StartInv`: without edits, every document
  a guest was given is that of the configuration that was materialized. The lemma
  `MaterializedStarts` is the part about `crates/types`: of a configuration made
  from an intent that `validate` accepted, every node.yaml passes
  `NodeRuntimeConfig::validate`, or two of its exports have the same tag or path.
- `PluginsAreCurrent`: `PluginsCurrent`, from `CurrentInv`: while csi install runs,
  each node has the node.yaml it installs or has it still to come, and every
  running plugin has read it or is still to be restarted. A plugin may start, and a
  guest boot or stop, at any time; that the restart comes after the last node.yaml
  is what makes it hold.
- `SentinelIsRemoved`: `SentinelRemoved`: while the sentinel is there, the next
  step is one of those whose failure `Cleanup` answers by removing it.
- `JoinsFollow`: `JoinsFollowFirst`, an action property: a start of a joining node
  has the wait for the API before it, unless the API answers (`JoinsInv`). The plan
  skips that wait only when it does, and it goes on answering while nobody stops
  the first server. The first server is a node because the first node that is
  materialized initializes the cluster (`FirstInv`).

Two assumptions about constants serve these proofs: intents count their nodes
with natural numbers (`IntentsAssumption`), and no node or domain name that is
generated is empty (`BlankAssumption`).

Only model-checked: `ComesBack`, `RetriesSucceed`, `ApplySettles` and
`ClusterConverges`, since liveness is outside of what TLAPS proves. Every safety
property of a passing run is proved.

## 5. Not modelled

- Read-only commands and reports: `status`, `health`, `diagnostics`, `discover`
  output, CSI identity and capability calls, list calls. They change nothing.
- The text of domain XML, systemd units, cloud-init documents and manifests, and
  the string functions that escape and hash it; parsing of command output. The
  models keep equality of contents. Which strings are required and how a checksum
  looks is one flag of `Intent`.
- `ExecuteSafety` beyond the node or unit an operation is about: its checks of
  paths compare the planner's output with the options it was made from.
- The scripts inside workload pods, and the restart of a daemon around them.
- The CSI bindings (generated), `xtask` (build time), manifests and
  documentation (text; the single replica and the restart policies in them are
  assumptions of the models).
- Two controllers or two cluster commands at a time, and two applies outside of
  the proofs.

Behaviours of the code that the models show or that lie just outside of them, and
that no property judges: the token and the kubeconfig are readable by everybody
between their write and their chmod (`main.rs:3979`), and a kill in between leaves
them so, after which the verification of cluster install fails until somebody
changes the mode; a kubeconfig that exists is never fetched again; csi install
cannot change the access of an export once its static volume exists; a new export
never reaches the fstab of a guest that was given its documents before; an agent
without a server URL waits for it in every plan, so its cluster is never
converged; and the default sequence numbers of nodes wrap at 2^16.

## 6. Plan

1. `Controller` with its abstract registry and the proofs of all its safety
   properties and of the refinement: done.
2. `NodePlugin` over `MountTable`, with the proofs of all its safety properties: done.
3. `RpcClient` with its abstract service, refinement and recovery proofs: done.
4. `HostPlan` and `HostApply`, with the proofs of all safety properties: done.
5. `Intent`, `ClusterPlan`, `Guests` and the cluster, csi and workload commands
   up to `Platform`, with the proofs of all safety properties: done.
6. Open: compositions (`Controller` over `RpcService`; `Controller` with
   `NodePlugin`, so that what is staged is published; `NodePlugin` over `Guests`).
7. Open proofs: a refinement of `HostApply` to an abstract install that is done
   as a whole or undone, and those of the compositions above.
