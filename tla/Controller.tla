----------------------------- MODULE Controller -----------------------------
(***************************************************************************)
(* The CSI controller service of nas-csi: crates/csi-driver.               *)
(*                                                                         *)
(* gRPC handlers run concurrently on a thread pool and share one           *)
(* ControllerState behind a mutex.  Every change of that state is written  *)
(* to a JSON state file before the lock is released.  Handlers also call   *)
(* TrueNAS, some of them with the mutex held and some of them without.     *)
(*                                                                         *)
(* A section of a handler that holds the mutex and makes no TrueNAS call   *)
(* is one action: no other handler sees its middle, and a crash in it is   *)
(* the same as a crash before it or after it.  A handler that calls        *)
(* TrueNAS is cut at that call, because the effect of the call outlives a  *)
(* crash that the rest of the handler does not.                            *)
(***************************************************************************)
EXTENDS TrueNasBackend, Sequences

CONSTANTS Names,            \* volume names, which are also volume ids
          Nodes,            \* node ids
          Handlers,         \* calls the controller can have in flight at once
          NoVolume,         \* no volume is registered under this id
          NoDataset,        \* the request names no dataset
          NoHandler,        \* nobody holds the state mutex
          CreateRequests,   \* the CreateVolume requests clients may send
          Configs           \* the runtime configurations a process may load

(***************************************************************************)
(* The data of the service.  A volume policy has an access mode and may    *)
(* allow several writer nodes; capabilities are the classes of CSI access  *)
(* modes that validation tells apart ("unsupported" stands for block mode, *)
(* a missing access type or an unknown access mode).                       *)
(***************************************************************************)
AccessPolicies == {"read-only", "read-write"}
Capabilities == {"reader", "writer", "multi-writer", "unsupported"}
RequestModes == {"existing-dataset", "dynamic-filesystem-dataset", "none"}

DatasetVolumes == [name: Names, dataset: Datasets, access: AccessPolicies,
                   allowMultiWriter: BOOLEAN, deleteOnDelete: BOOLEAN]

CreateVolumeRequests ==
    [name: Names, mode: RequestModes, dataset: Datasets \cup {NoDataset},
     access: AccessPolicies, allowMultiWriter: BOOLEAN, deleteOptIn: BOOLEAN,
     capabilities: SUBSET Capabilities]

ExistingVolumeConfigs == [id: Names, name: Names, dataset: Datasets,
                          access: AccessPolicies, allowMultiWriter: BOOLEAN]

\* validate_controller_runtime_config: deleting datasets requires creating them.
ControllerConfigs ==
    {c \in [allowCreate: BOOLEAN, allowDelete: BOOLEAN,
            allowSnapshotDelete: BOOLEAN, existing: Seq(ExistingVolumeConfigs)] :
        c.allowDelete => c.allowCreate}

ASSUME NoVolumeAssumption == NoVolume \notin Names \cup DatasetVolumes
ASSUME NoDatasetAssumption == NoDataset \notin Datasets
ASSUME AnswersAssumption == Datasets \cap {"unknown", "absent"} = {}
ASSUME NoHandlerAssumption == NoHandler \notin Handlers
ASSUME CreateRequestsAssumption == CreateRequests \subseteq CreateVolumeRequests
ASSUME ConfigsAssumption ==
    \A c \in Configs :
        /\ c.allowCreate \in BOOLEAN /\ c.allowDelete \in BOOLEAN
        /\ c.allowSnapshotDelete \in BOOLEAN
        /\ c.existing \in Seq(ExistingVolumeConfigs)
        /\ c.allowDelete => c.allowCreate
ASSUME FaultKindsAssumption == {"crash", "save"} \subseteq FaultKinds

VARIABLES
    running,      \* the controller process is up
    config,       \* the configuration this process has loaded
    pending,      \* configured volumes startup has not registered yet
    volumes,      \* ControllerState.volumes, in memory
    assignments,  \* ControllerState.assignments, in memory
    snapshots,    \* ControllerState.snapshots, in memory: id to source volume
    file,         \* the state file
    lock,         \* the handler that keeps the state mutex between two steps
    call          \* what each handler is doing

(***************************************************************************)
(* What callers have been told, to state properties with.                  *)
(***************************************************************************)
VARIABLES
    promised,     \* the last answer about each volume: its dataset, "absent"
                  \* after a successful delete, or "unknown"
    published     \* <<volume, node>> publishes that were answered OK and that
                  \* no unpublish or delete has been attempted for since

memoryVars == <<volumes, assignments, snapshots>>
processVars == <<running, config, pending>>
promiseVars == <<promised, published>>
vars == <<faults, backendVars, processVars, memoryVars, file, lock, call,
          promiseVars>>

NoVolumes == [v \in Names |-> NoVolume]
NoAssignments == [a \in Names \X Nodes |-> "none"]
NoSnapshots == [id \in SnapshotIds |-> NoVolume]

\* Mutant of NamesDataset: the missing parameter goes unnoticed.
AnyDataset(r) == TRUE

\* The request has the parameter nas-csi.dev/dataset.
NamesDataset(r) == r.dataset # NoDataset

Idle == [step |-> "idle"]

Calls == {Idle}
    \cup [step: {"lookup", "allocate", "insert"},
          request: {r \in CreateRequests : NamesDataset(r)}]
    \cup [step: {"save-delete"}, volume: Names]
    \cup [step: {"save-snapshot"}, id: SnapshotIds]
    \cup [step: {"forget-snapshot"}, id: SnapshotIds]

ControllerStates == [volumes: [Names -> DatasetVolumes \cup {NoVolume}],
                     assignments: [Names \X Nodes -> {"none"} \cup AccessPolicies],
                     snapshots: [SnapshotIds -> Names \cup {NoVolume}]]

Memory == [volumes |-> volumes, assignments |-> assignments,
           snapshots |-> snapshots]

TypeOK ==
    /\ FaultsTypeOK
    /\ BackendTypeOK
    /\ running \in BOOLEAN
    /\ config \in Configs
    /\ pending \in Seq(ExistingVolumeConfigs)
    /\ Memory \in ControllerStates
    /\ file \in ControllerStates
    /\ lock \in Handlers \cup {NoHandler}
    /\ call \in [Handlers -> Calls]
    /\ promised \in [Names -> Datasets \cup {"unknown", "absent"}]
    /\ published \subseteq Names \X Nodes

Init ==
    /\ FaultsInit
    /\ BackendInit
    /\ running = FALSE
    /\ config \in Configs
    /\ pending = <<>>
    /\ volumes = NoVolumes
    /\ assignments = NoAssignments
    /\ snapshots = NoSnapshots
    /\ file = Memory
    /\ lock = NoHandler
    /\ call = [h \in Handlers |-> Idle]
    /\ promised = [v \in Names |-> "unknown"]
    /\ published = {}

-----------------------------------------------------------------------------
(***************************************************************************)
(* Helpers                                                                 *)
(***************************************************************************)
Registered(v) == volumes[v] # NoVolume

\* The gRPC server is started only after every configured volume is registered.
Serving == running /\ pending = <<>>

\* The mutex is free for handler h to take.
CanLock == lock = NoHandler

\* validate_read_only_policy and validate_read_write_policy.
AcceptedCapabilities(volume) ==
    {"reader"}
    \cup {c \in {"writer"} : volume.access = "read-write"}
    \cup {c \in {"multi-writer"} : volume.access = "read-write"
                                   /\ volume.allowMultiWriter}

\* validate_csi_capabilities: at least one, and each one accepted.
Accepts(volume, capabilities) ==
    /\ capabilities # {}
    /\ capabilities \subseteq AcceptedCapabilities(volume)

\* Mutant of MatchesForCreate: the dataset is not compared.
MatchesByName(name, dataset) ==
    {v \in Names : Registered(v) /\ (volumes[v].name = name \/ v = name)}

\* find_volume_for_create.  The code takes the first match in the order of
\* the ids; that order is left open here, so any match may be the first one.
MatchesForCreate(name, dataset) ==
    {v \in Names : /\ Registered(v)
                   /\ \/ volumes[v].name = name
                      \/ v = name
                      \/ volumes[v].dataset = dataset}

\* Mutant of VolumeFor: existing datasets may opt in to deletion as well.
VolumeForAnyOptIn(r) ==
    [name |-> r.name, dataset |-> r.dataset, access |-> r.access,
     allowMultiWriter |-> r.allowMultiWriter,
     deleteOnDelete |-> config.allowDelete /\ r.deleteOptIn]

\* The volume a CreateVolume request registers under the id r.name.
VolumeFor(r) ==
    IF r.mode = "existing-dataset"
    THEN [name |-> r.name, dataset |-> r.dataset, access |-> r.access,
          allowMultiWriter |-> r.allowMultiWriter, deleteOnDelete |-> FALSE]
    ELSE [name |-> r.name, dataset |-> r.dataset, access |-> "read-write",
          allowMultiWriter |-> r.allowMultiWriter,
          deleteOnDelete |-> config.allowDelete /\ r.deleteOptIn]

\* The volume the runtime configuration registers under the id c.id.
ConfiguredVolume(c) ==
    [name |-> c.name, dataset |-> c.dataset, access |-> c.access,
     allowMultiWriter |-> c.allowMultiWriter, deleteOnDelete |-> FALSE]

NoState == [volumes |-> NoVolumes, assignments |-> NoAssignments,
            snapshots |-> NoSnapshots]

\* Mutant of Save: the file is truncated and written in place, so a write
\* that fails may leave it empty.
SaveInPlace(saved) ==
    \/ saved /\ NoFault /\ file' = Memory'
    \/ ~saved /\ Fault("save") /\ file' \in {file, Memory', NoState}

\* Mutant of Save: the state is written before it is changed.
SaveTooEarly(saved) ==
    \/ saved /\ NoFault /\ file' = Memory
    \/ ~saved /\ Fault("save") /\ file' = file

\* persist_state_locked: the new memory replaces the state file.  A failing
\* write leaves the old file, except when only the final sync of the
\* directory failed: the rename has happened by then.
Save(saved) ==
    \/ saved /\ NoFault /\ file' = Memory'
    \/ ~saved /\ Fault("save") /\ file' \in {file, Memory'}

Tell(v, answer) == promised' = [promised EXCEPT ![v] = answer]
Return(h) == call' = [call EXCEPT ![h] = Idle]
Continue(h, next) == call' = [call EXCEPT ![h] = next]
InsertNext(h) ==
    Continue(h, [step |-> "insert", request |-> call[h].request])
HandlerIdle(h) == Serving /\ call[h] = Idle
AtStep(h, step) == call[h].step = step

-----------------------------------------------------------------------------
(***************************************************************************)
(* CreateVolume: create_volume_inner                                       *)
(***************************************************************************)
\* The search for an existing volume, under the lock.  A match is answered
\* from memory at once, without writing the state file.
CreateVolumeFound(h, r) ==
    /\ HandlerIdle(h)
    /\ CanLock
    /\ \E v \in MatchesForCreate(r.name, r.dataset) :
          /\ Accepts(volumes[v], r.capabilities)
          /\ Tell(v, volumes[v].dataset)
    /\ UNCHANGED <<faults, backendVars, processVars, memoryVars, file, lock,
                   call, published>>

\* No match: the lock is released and the request goes on to TrueNAS.  A
\* request that names no dataset, or asks for a mode it may not have, is
\* refused and changes nothing.
CreateVolumeStart(h, r) ==
    /\ HandlerIdle(h)
    /\ CanLock
    /\ MatchesForCreate(r.name, r.dataset) = {}
    /\ NamesDataset(r)
    /\ \/ r.mode = "existing-dataset"
          /\ Continue(h, [step |-> "lookup", request |-> r])
       \/ r.mode = "dynamic-filesystem-dataset" /\ config.allowCreate
          /\ Continue(h, [step |-> "allocate", request |-> r])
    /\ UNCHANGED <<faults, backendVars, processVars, memoryVars, file, lock,
                   promiseVars>>

\* register_existing_volume_from_request looks the dataset up, unlocked.
LookupExisting(h) ==
    /\ AtStep(h, "lookup")
    /\ \E answer \in {"found", "missing", "err"} :
          /\ LookupDataset(call[h].request.dataset, answer)
          /\ IF answer = "found"
             THEN InsertNext(h)
             ELSE Return(h)
    /\ UNCHANGED <<processVars, memoryVars, file, lock, promiseVars>>

\* The dynamic path creates the dataset, unlocked, and only then validates
\* the requested capabilities.
AllocateDataset(h) ==
    /\ AtStep(h, "allocate")
    /\ \E answer \in Answers :
          /\ CreateDataset(call[h].request.dataset, answer)
          /\ IF answer = "ok" /\ Accepts(VolumeFor(call[h].request),
                                         call[h].request.capabilities)
             THEN InsertNext(h)
             ELSE Return(h)
    /\ UNCHANGED <<processVars, memoryVars, file, lock, promiseVars>>

\* The volume is inserted, over any volume of that id, and saved.  The
\* existing-dataset path validates the capabilities after that.
InsertVolume(h) ==
    LET r == call[h].request
        v == r.name
    IN  /\ AtStep(h, "insert")
        /\ CanLock
        /\ volumes' = [volumes EXCEPT ![v] = VolumeFor(r)]
        /\ UNCHANGED <<assignments, snapshots>>
        /\ \E saved \in BOOLEAN :
              /\ Save(saved)
              /\ IF saved /\ Accepts(VolumeFor(r), r.capabilities)
                 THEN Tell(v, r.dataset)
                 ELSE Tell(v, "unknown")
        /\ Return(h)
        /\ UNCHANGED <<backendVars, processVars, lock, published>>

-----------------------------------------------------------------------------
(***************************************************************************)
(* DeleteVolume: delete_volume_inner                                       *)
(***************************************************************************)
\* An id that is not in memory is answered OK; the state file is not looked at.
DeleteVolumeAbsent(h, v) ==
    /\ HandlerIdle(h)
    /\ CanLock
    /\ ~Registered(v)
    /\ Tell(v, "absent")
    /\ UNCHANGED <<faults, backendVars, processVars, memoryVars, file, lock,
                   call, published>>

\* Mutant of DeletesDataset: the opt-in saved with the volume is enough.
DeletesDatasetByOptIn(v) == volumes[v].deleteOnDelete

\* The two switches that must agree before a dataset is deleted.
DeletesDataset(v) == volumes[v].deleteOnDelete /\ config.allowDelete

\* Mutant of RemoveVolume: the assignments stay.
RemoveVolumeOnly(v) ==
    /\ volumes' = [volumes EXCEPT ![v] = NoVolume]
    /\ published' = {a \in published : a[1] # v}
    /\ UNCHANGED <<assignments, snapshots>>

\* Mutant of RemoveVolume: memory is left to change after TrueNAS.
RemoveVolumeLater(v) == UNCHANGED <<volumes, assignments, published, snapshots>>

\* Mutant of RemoveVolume: the metadata of the volume's snapshots goes too.
RemoveVolumeAndSnapshots(v) ==
    /\ volumes' = [volumes EXCEPT ![v] = NoVolume]
    /\ assignments' = [a \in Names \X Nodes |->
                          IF a[1] = v THEN "none" ELSE assignments[a]]
    /\ published' = {a \in published : a[1] # v}
    /\ snapshots' = [id \in SnapshotIds |->
                        IF snapshots[id] = v THEN NoVolume ELSE snapshots[id]]

\* The volume and its assignments leave memory.
RemoveVolume(v) ==
    /\ volumes' = [volumes EXCEPT ![v] = NoVolume]
    /\ assignments' = [a \in Names \X Nodes |->
                          IF a[1] = v THEN "none" ELSE assignments[a]]
    /\ published' = {a \in published : a[1] # v}
    /\ UNCHANGED snapshots

\* The volume keeps its dataset: remove it and save.
DeleteVolumeKeepDataset(h, v) ==
    /\ HandlerIdle(h)
    /\ CanLock
    /\ Registered(v)
    /\ ~DeletesDataset(v)
    /\ RemoveVolume(v)
    /\ \E saved \in BOOLEAN :
          /\ Save(saved)
          /\ Tell(v, IF saved THEN "absent" ELSE "unknown")
    /\ UNCHANGED <<backendVars, processVars, lock, call>>

\* The dataset goes too.  Its deletion happens with the lock held, after the
\* volume left memory; when it fails the call returns without saving.
DeleteVolumeAndDataset(h, v) ==
    /\ HandlerIdle(h)
    /\ CanLock
    /\ Registered(v)
    /\ DeletesDataset(v)
    /\ RemoveVolume(v)
    /\ \E answer \in Answers :
          /\ DeleteDataset(volumes[v].dataset, answer)
          /\ IF answer = "ok"
             THEN /\ Continue(h, [step |-> "save-delete", volume |-> v])
                  /\ lock' = h
             ELSE UNCHANGED <<call, lock>>
    /\ Tell(v, "unknown")
    /\ UNCHANGED <<processVars, file>>

SaveDelete(h) ==
    /\ AtStep(h, "save-delete")
    /\ UNCHANGED memoryVars
    /\ \E saved \in BOOLEAN :
          /\ Save(saved)
          /\ Tell(call[h].volume, IF saved THEN "absent" ELSE "unknown")
    /\ Return(h)
    /\ lock' = NoHandler
    /\ UNCHANGED <<backendVars, processVars, published>>

-----------------------------------------------------------------------------
(***************************************************************************)
(* ControllerPublishVolume and ControllerUnpublishVolume                   *)
(***************************************************************************)
\* The assignment is recorded and saved on every call, a repeated one too.
PublishVolume(h, v, n, readOnly, capabilities) ==
    /\ HandlerIdle(h)
    /\ CanLock
    /\ Registered(v)
    /\ Accepts(volumes[v], capabilities)
    /\ assignments' = [assignments EXCEPT ![<<v, n>>] =
                          IF readOnly THEN "read-only" ELSE volumes[v].access]
    /\ UNCHANGED <<volumes, snapshots>>
    /\ \E saved \in BOOLEAN :
          /\ Save(saved)
          /\ published' = IF saved THEN published \cup {<<v, n>>} ELSE published
    /\ UNCHANGED <<backendVars, processVars, lock, call, promised>>

UnpublishVolume(h, v, n) ==
    /\ HandlerIdle(h)
    /\ CanLock
    /\ assignments' = [assignments EXCEPT ![<<v, n>>] = "none"]
    /\ UNCHANGED <<volumes, snapshots>>
    /\ \E saved \in BOOLEAN : Save(saved)
    /\ published' = published \ {<<v, n>>}
    /\ UNCHANGED <<backendVars, processVars, lock, call, promised>>

-----------------------------------------------------------------------------
(***************************************************************************)
(* CreateSnapshot and DeleteSnapshot                                       *)
(***************************************************************************)
HasSnapshotNamed(v, s) ==
    \E id \in SnapshotIds : snapshots[id] = v /\ id[2] = s

\* TrueNAS takes the snapshot with the lock held.  A snapshot of that name
\* and volume already in memory is answered OK without any change, and a
\* TrueNAS error changes nothing in memory.
CreateSnapshot(h, v, s) ==
    LET id == <<volumes[v].dataset, s>>
    IN  /\ HandlerIdle(h)
        /\ CanLock
        /\ ~HasSnapshotNamed(v, s)
        /\ Registered(v)
        /\ \E answer \in Answers :
              /\ CreateZfsSnapshot(id, answer)
              /\ IF answer = "ok"
                 THEN /\ snapshots' = [snapshots EXCEPT ![id] = v]
                      /\ Continue(h, [step |-> "save-snapshot", id |-> id])
                      /\ lock' = h
                 ELSE UNCHANGED <<snapshots, call, lock>>
        /\ UNCHANGED <<processVars, volumes, assignments, file, promiseVars>>

SaveSnapshot(h) ==
    /\ AtStep(h, "save-snapshot")
    /\ UNCHANGED memoryVars
    /\ \E saved \in BOOLEAN : Save(saved)
    /\ Return(h)
    /\ lock' = NoHandler
    /\ UNCHANGED <<backendVars, processVars, promiseVars>>

\* TrueNAS deletes the snapshot, if the configuration allows it, before the
\* handler asks for the lock.
DeleteSnapshot(h, id) ==
    /\ HandlerIdle(h)
    /\ \/ /\ config.allowSnapshotDelete
          /\ \E answer \in Answers :
                /\ DeleteZfsSnapshot(id, answer)
                /\ IF answer = "ok"
                   THEN Continue(h, [step |-> "forget-snapshot", id |-> id])
                   ELSE UNCHANGED call
       \/ /\ ~config.allowSnapshotDelete
          /\ Continue(h, [step |-> "forget-snapshot", id |-> id])
          /\ UNCHANGED <<faults, backendVars>>
    /\ UNCHANGED <<processVars, memoryVars, file, lock, promiseVars>>

ForgetSnapshot(h) ==
    /\ AtStep(h, "forget-snapshot")
    /\ CanLock
    /\ snapshots' = [snapshots EXCEPT ![call[h].id] = NoVolume]
    /\ UNCHANGED <<volumes, assignments>>
    /\ \E saved \in BOOLEAN : Save(saved)
    /\ Return(h)
    /\ UNCHANGED <<backendVars, processVars, lock, promiseVars>>

-----------------------------------------------------------------------------
(***************************************************************************)
(* The process: startup, registration of the configured volumes, death     *)
(***************************************************************************)
\* from_runtime_config: load the configuration and the state file.
Start ==
    /\ ~running
    /\ running' = TRUE
    /\ \E c \in Configs : config' = c /\ pending' = c.existing
    /\ volumes' = file.volumes
    /\ assignments' = file.assignments
    /\ snapshots' = file.snapshots
    /\ UNCHANGED <<faults, backendVars, file, lock, call, promiseVars>>

\* Everything the process held in memory is gone; clients are told nothing.
Die ==
    /\ running' = FALSE
    /\ pending' = <<>>
    /\ volumes' = NoVolumes
    /\ assignments' = NoAssignments
    /\ snapshots' = NoSnapshots
    /\ lock' = NoHandler
    /\ call' = [h \in Handlers |-> Idle]
    /\ UNCHANGED config

Crash ==
    /\ running
    /\ Fault("crash")
    /\ Die
    /\ UNCHANGED <<backendVars, file, promiseVars>>

\* Mutant of FatalAnswers: a configured dataset has to be there.
FatalIfMissing == {"missing", "err"}

\* The answers of TrueNAS that abort startup.
FatalAnswers == {"err"}

\* register_existing_volume, for the next configured volume.  A dataset that
\* TrueNAS does not have is registered all the same.
RegisterConfigured ==
    LET c == Head(pending)
    IN  /\ running
        /\ pending # <<>>
        /\ \E answer \in {"found", "missing", "err"} \ FatalAnswers :
              LookupDataset(c.dataset, answer)
        /\ volumes' = [volumes EXCEPT ![c.id] = ConfiguredVolume(c)]
        /\ UNCHANGED <<assignments, snapshots>>
        /\ file' = Memory'
        /\ pending' = Tail(pending)
        /\ Tell(c.id, c.dataset)
        /\ UNCHANGED <<running, config, lock, call, published>>

\* An error from TrueNAS or from the state file aborts startup.
StartupFails ==
    /\ running
    /\ pending # <<>>
    /\ LET c == Head(pending)
           insert == [volumes |-> [volumes EXCEPT ![c.id] = ConfiguredVolume(c)],
                      assignments |-> assignments, snapshots |-> snapshots]
       IN  \/ /\ \E answer \in FatalAnswers : LookupDataset(c.dataset, answer)
              /\ UNCHANGED <<file, promised>>
           \/ /\ Fault("save")
              /\ file' \in {file, insert}
              /\ Tell(c.id, "unknown")
              /\ UNCHANGED backendVars
    /\ Die
    /\ UNCHANGED published

\* TrueNAS executes a request of a call that failed, maybe of a process that
\* is gone (the request timeout of truenas-client ends the call, not the job).
LateExecution ==
    /\ CatchUp
    /\ UNCHANGED <<processVars, memoryVars, file, lock, call, promiseVars>>

-----------------------------------------------------------------------------
\* A client's request reaches an idle handler.
Request(h) ==
    \/ \E r \in CreateRequests : CreateVolumeFound(h, r) \/ CreateVolumeStart(h, r)
    \/ \E v \in Names : \/ DeleteVolumeAbsent(h, v)
                        \/ DeleteVolumeKeepDataset(h, v)
                        \/ DeleteVolumeAndDataset(h, v)
    \/ \E v \in Names, n \in Nodes : UnpublishVolume(h, v, n)
    \/ \E v \in Names, n \in Nodes, readOnly \in BOOLEAN, c \in Capabilities :
          PublishVolume(h, v, n, readOnly, {c})
    \/ \E v \in Names, s \in SnapshotNames : CreateSnapshot(h, v, s)
    \/ \E id \in SnapshotIds : DeleteSnapshot(h, id)

\* A handler goes on with the call it is in.
Advance(h) ==
    \/ LookupExisting(h)
    \/ AllocateDataset(h)
    \/ InsertVolume(h)
    \/ SaveDelete(h)
    \/ SaveSnapshot(h)
    \/ ForgetSnapshot(h)

Next ==
    \/ \E h \in Handlers : Request(h) \/ Advance(h)
    \/ Start
    \/ Crash
    \/ RegisterConfigured
    \/ StartupFails
    \/ LateExecution

Spec == Init /\ [][Next]_vars

-----------------------------------------------------------------------------
(***************************************************************************)
(* Safety                                                                  *)
(***************************************************************************)
\* A dataset that existed before the controller came along is never deleted,
\* whatever clients request, whatever fails, and although datasets this
\* controller created may be deleted (delete_volume_inner, create_volume_inner).
ExistingDatasetsKept == InitialDatasets \subseteq datasets

\* This process may have dataset d deleted: its configuration allows it and a
\* volume that stands for d opted in.
MayDelete(d) ==
    /\ config.allowDelete
    /\ \E v \in Names : /\ Registered(v)
                        /\ volumes[v].dataset = d
                        /\ volumes[v].deleteOnDelete

\* Nothing is removed from TrueNAS, and no removal is asked for, by a process
\* whose configuration forbids it, although an opt-in saved by an earlier
\* process is still in the state file; and a dataset only goes with a volume
\* that opted in.  What goes without that is a removal that was asked for when
\* all this held, and that TrueNAS executes after its call has failed.
RemovalsAllowed ==
    [][/\ \A d \in Datasets :
             LET r == DeletionOf(d)
             IN  /\ late'[r] > late[r] => MayDelete(d)
                 /\ d \in datasets \ datasets' => MayDelete(d) \/ late'[r] < late[r]
       /\ \A id \in SnapshotIds :
             LET r == SnapshotDeletionOf(id)
             IN  /\ late'[r] > late[r] => config.allowSnapshotDelete
                 /\ id \in zfsSnapshots \ zfsSnapshots'
                       => config.allowSnapshotDelete \/ late'[r] < late[r]]_vars

AssignmentsRegistered(state) ==
    \A a \in Names \X Nodes :
        state.assignments[a] # "none" => state.volumes[a[1]] # NoVolume

\* A volume that is published is registered, in memory and in the state file
\* a restarted controller will load (delete_volume_inner's retain).
PublishedVolumesRegistered ==
    AssignmentsRegistered(Memory) /\ AssignmentsRegistered(file)

Assigned(state) == {a \in Names \X Nodes : state.assignments[a] # "none"}

\* A publish answered OK is in the state file until an unpublish or a delete
\* is attempted: no crash, failed write or concurrent call loses it, because
\* controller_publish_volume writes the file on every call.
PublishesDurable ==
    /\ published \subseteq Assigned(file)
    /\ running => published \subseteq Assigned(Memory)

Keeps(state, v) ==
    CASE promised[v] = "unknown" -> TRUE
      [] promised[v] = "absent" -> state.volumes[v] = NoVolume
      [] OTHER -> /\ state.volumes[v] # NoVolume
                  /\ state.volumes[v].dataset = promised[v]

\* Volume identity survives restarts: what the last answer about a volume
\* said is what the controller holds, also after the process died and came
\* back with what it had saved.
PromisesKept == \A v \in Names : running => Keeps(Memory, v)

\* A volume whose creation was acknowledged is not lost (the half of
\* PromisesKept about CreateVolume).
CreatedVolumesKept ==
    \A v \in Names :
        running /\ promised[v] \in Datasets => Keeps(Memory, v)

\* No two volumes stand for the same dataset, so deleting one volume cannot
\* delete the files of another (find_volume_for_create looks for the dataset).
DatasetsRegisteredOnce ==
    \A v, w \in Names :
        Registered(v) /\ Registered(w) /\ volumes[v].dataset = volumes[w].dataset
            => v = w

\* A deletion of dataset d has failed, so that d may go at any later time.
Doomed(d) == DeletionOf(d) \in failed

\* Every registered volume has its dataset in TrueNAS: none is registered before
\* it is created, and none is deleted under a volume that stays.  The exception
\* is a dataset whose deletion failed once: the volume has left memory by then,
\* so the dataset can be registered again, and TrueNAS may execute the old
\* request after that (delete_volume_inner, register_existing_volume_from_request).
VolumesBacked ==
    faults["crash"] = 0 =>
        \A v \in Names :
            Registered(v) => volumes[v].dataset \in datasets \/ Doomed(volumes[v].dataset)

\* Until a crash or a TrueNAS error, and although writes of the state file
\* fail: whenever no call is in flight, the snapshots in memory are ones
\* TrueNAS has, and all of them if the configuration allows deleting snapshots
\* (create_snapshot, delete_snapshot).
SnapshotsMatch ==
    running /\ faults["crash"] + faults["backend"] = 0 /\ (\A h \in Handlers : call[h] = Idle)
        => LET listed == {id \in SnapshotIds : snapshots[id] # NoVolume}
           IN  /\ listed \subseteq zfsSnapshots
               /\ config.allowSnapshotDelete => zfsSnapshots \subseteq listed

-----------------------------------------------------------------------------
(***************************************************************************)
(* What makes the safety properties inductive                              *)
(***************************************************************************)
\* A call in flight belongs to a process that is up.
QuietWhenDown == running \/ \A h \in Handlers : call[h] = Idle

\* A volume that opted in to deletion does not stand for an existing dataset.
OptInIsOwn(volume) ==
    volume # NoVolume /\ volume.deleteOnDelete
        => volume.dataset \notin InitialDatasets

\* What handler h is about to register: a looked-up dataset never opts in, and
\* a volume that did has had its dataset created.
OptInPending(h) ==
    /\ AtStep(h, "lookup") => call[h].request.mode = "existing-dataset"
    /\ AtStep(h, "insert") => OptInIsOwn(VolumeFor(call[h].request))

\* The same of every place such a volume can be: memory, the state file, and
\* a call that has created its dataset and not yet registered it.
OptInsAreOwn ==
    /\ \A v \in Names : OptInIsOwn(volumes[v]) /\ OptInIsOwn(file.volumes[v])
    /\ \A h \in Handlers : OptInPending(h)

\* What TrueNAS may execute late is a request of a call that failed, and none
\* of them deletes an existing dataset.
LateRequestsOwn ==
    /\ \A r \in BackendRequests : late[r] > 0 => r \in failed
    /\ \A d \in InitialDatasets : ~Doomed(d)

-----------------------------------------------------------------------------
(***************************************************************************)
(* Liveness.  A handler runs to its end on its own thread, and Kubernetes  *)
(* restarts a controller container that has exited, so both keep taking    *)
(* steps; requests, crashes and errors are never obliged to happen.        *)
(***************************************************************************)
Fairness ==
    /\ \A h \in Handlers : WF_vars(Advance(h))
    /\ WF_vars(Start)
    /\ WF_vars(RegisterConfigured)

FairSpec == Spec /\ Fairness

\* The controller comes back after every crash and failed startup, also when
\* a configured dataset is gone from TrueNAS.
ComesBack == ~Serving ~> Serving

=============================================================================
