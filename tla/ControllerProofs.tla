-------------------------- MODULE ControllerProofs --------------------------
(***************************************************************************)
(* Proofs about Controller, for all names, datasets, requests,             *)
(* configurations and numbers of faults.                                   *)
(***************************************************************************)
EXTENDS Controller, TLAPS

USE DEF NoFault

-----------------------------------------------------------------------------
(***************************************************************************)
(* Type correctness                                                        *)
(***************************************************************************)
\* A fault leaves the budget well typed.
LEMMA FaultType ==
    ASSUME FaultsTypeOK, NEW k \in FaultKinds, Fault(k) \/ NoFault
    PROVE  FaultsTypeOK'
BY MaxFaultsAssumption DEF FaultsTypeOK, Fault

\* Whatever a write does, the state file holds a controller state.
LEMMA SaveType ==
    ASSUME FaultsTypeOK, file \in ControllerStates, Memory' \in ControllerStates,
           NEW saved \in BOOLEAN, Save(saved)
    PROVE  file' \in ControllerStates /\ FaultsTypeOK'
<1>1. "save" \in FaultKinds
  BY FaultKindsAssumption
<1>2. Fault("save") \/ NoFault
  BY DEF Save
<1>3. FaultsTypeOK'
  BY <1>1, <1>2, FaultType
<1>4. file' \in ControllerStates
  BY DEF Save
<1> QED
  BY <1>3, <1>4

\* The requests the controller makes are requests of the backend.
LEMMA RequestsOfBackend ==
    /\ \A d \in Datasets : CreationOf(d) \in BackendRequests /\ DeletionOf(d) \in BackendRequests
    /\ \A id \in SnapshotIds : /\ SnapshotCreationOf(id) \in BackendRequests
                               /\ SnapshotDeletionOf(id) \in BackendRequests
BY DEF CreationOf, DeletionOf, SnapshotCreationOf, SnapshotDeletionOf, BackendRequests

LEMMA FailureType ==
    ASSUME FaultsTypeOK, BackendTypeOK, NEW r \in BackendRequests, Fails(r)
    PROVE  FaultsTypeOK' /\ BackendTypeOK'
<1>1. FaultsTypeOK'
  BY FaultType, BackendFaultAssumption DEF Fails
<1>2. late' \in [BackendRequests -> Nat]
  BY DEF Fails, BackendTypeOK
<1> QED
  BY <1>1, <1>2 DEF Fails, BackendTypeOK

\* TrueNAS calls keep the backend and the budget well typed.
LEMMA DatasetCallType ==
    ASSUME FaultsTypeOK, BackendTypeOK, NEW d \in Datasets, NEW answer,
           \/ LookupDataset(d, answer) \/ CreateDataset(d, answer)
           \/ DeleteDataset(d, answer)
    PROVE  FaultsTypeOK' /\ BackendTypeOK'
<1>1. CASE LookupDataset(d, answer)
  <2>1. Fault("backend") \/ NoFault
    BY <1>1 DEF LookupDataset
  <2> QED
    BY <1>1, <2>1, FaultType, BackendFaultAssumption
    DEF LookupDataset, BackendTypeOK, backendVars
<1>2. CASE Fails(CreationOf(d)) \/ Fails(DeletionOf(d))
  BY <1>2, FailureType, RequestsOfBackend
<1>3. CASE /\ CreateDataset(d, answer) \/ DeleteDataset(d, answer)
           /\ ~Fails(CreationOf(d)) /\ ~Fails(DeletionOf(d))
  BY <1>3 DEF CreateDataset, DeleteDataset, DatasetCreated, DatasetDeleted, Succeeds,
     Refused, BackendTypeOK, FaultsTypeOK, backendVars
<1> QED
  BY <1>1, <1>2, <1>3

LEMMA SnapshotCallType ==
    ASSUME FaultsTypeOK, BackendTypeOK, NEW id \in SnapshotIds, NEW answer,
           CreateZfsSnapshot(id, answer) \/ DeleteZfsSnapshot(id, answer)
    PROVE  FaultsTypeOK' /\ BackendTypeOK'
<1>1. CASE Fails(SnapshotCreationOf(id)) \/ Fails(SnapshotDeletionOf(id))
  BY <1>1, FailureType, RequestsOfBackend
<1>2. CASE ~Fails(SnapshotCreationOf(id)) /\ ~Fails(SnapshotDeletionOf(id))
  BY <1>2 DEF CreateZfsSnapshot, DeleteZfsSnapshot, SnapshotCreated, SnapshotDeleted,
     Succeeds, Refused, BackendTypeOK, FaultsTypeOK, backendVars
<1> QED
  BY <1>1, <1>2

\* A late execution only removes what its request asks for.
LEMMA LateEffects ==
    ASSUME BackendTypeOK, CatchUp
    PROVE  /\ BackendTypeOK' /\ UNCHANGED <<failed, faults>>
           /\ \A r \in BackendRequests : late'[r] <= late[r] /\ late'[r] \in Nat
           /\ \A d \in datasets \ datasets' :
                 late[DeletionOf(d)] > 0 /\ late'[DeletionOf(d)] < late[DeletionOf(d)]
           /\ \A id \in zfsSnapshots \ zfsSnapshots' :
                 late'[SnapshotDeletionOf(id)] < late[SnapshotDeletionOf(id)]
<1>1. PICK r \in BackendRequests :
         /\ late[r] > 0
         /\ late' = [late EXCEPT ![r] = @ - 1]
         /\ \/ r.op = "create-dataset" /\ DatasetCreated(r.dataset)
            \/ r.op = "delete-dataset" /\ DatasetDeleted(r.dataset)
            \/ r.op = "create-snapshot" /\ SnapshotCreated(r.snapshot)
            \/ r.op = "delete-snapshot" /\ SnapshotDeleted(r.snapshot)
         /\ UNCHANGED <<failed, faults>>
  BY DEF CatchUp
<1>2. late \in [BackendRequests -> Nat] /\ late' \in [BackendRequests -> Nat]
  BY <1>1 DEF BackendTypeOK
<1>3. /\ \A q \in BackendRequests : late'[q] <= late[q] /\ late'[q] \in Nat
      /\ late'[r] < late[r]
  BY <1>1, <1>2
<1>4. /\ r.op \in {"create-dataset", "delete-dataset"} => r.dataset \in Datasets
      /\ r.op = "delete-dataset" => r = DeletionOf(r.dataset)
      /\ r.op \in {"create-snapshot", "delete-snapshot"} => r.snapshot \in SnapshotIds
      /\ r.op = "delete-snapshot" => r = SnapshotDeletionOf(r.snapshot)
  BY DEF BackendRequests, DeletionOf, SnapshotDeletionOf
<1>5. datasets' \subseteq Datasets /\ zfsSnapshots' \subseteq SnapshotIds
  BY <1>1, <1>4 DEF BackendTypeOK, DatasetCreated, DatasetDeleted, SnapshotCreated,
     SnapshotDeleted
<1>6. \A d \in datasets \ datasets' : r = DeletionOf(d)
  BY <1>1, <1>4 DEF DatasetCreated, DatasetDeleted, SnapshotCreated, SnapshotDeleted
<1>7. \A id \in zfsSnapshots \ zfsSnapshots' : r = SnapshotDeletionOf(id)
  BY <1>1, <1>4 DEF DatasetCreated, DatasetDeleted, SnapshotCreated, SnapshotDeleted
<1> QED
  BY <1>1, <1>2, <1>3, <1>5, <1>6, <1>7 DEF BackendTypeOK

\* The step a handler is at determines what the call carries.
LEMMA CallShape ==
    ASSUME call \in [Handlers -> Calls], NEW h \in Handlers
    PROVE  /\ call[h].step \in {"lookup", "allocate", "insert"} =>
                 /\ call[h].request \in CreateRequests
                 /\ NamesDataset(call[h].request)
           /\ AtStep(h, "save-delete") => call[h].volume \in Names
           /\ AtStep(h, "save-snapshot") => call[h].id \in SnapshotIds
           /\ AtStep(h, "forget-snapshot") => call[h].id \in SnapshotIds
<1>1. call[h] \in Calls
  OBVIOUS
<1>2. CASE call[h] = Idle
  BY <1>2 DEF Idle, AtStep
<1>3. CASE call[h] \in [step: {"lookup", "allocate", "insert"},
                       request: {r \in CreateRequests : NamesDataset(r)}]
  BY <1>3 DEF AtStep
<1>4. CASE call[h] \in [step: {"save-delete"}, volume: Names]
  BY <1>4 DEF AtStep
<1>5. CASE call[h] \in [step: {"save-snapshot"}, id: SnapshotIds]
  BY <1>5 DEF AtStep
<1>6. CASE call[h] \in [step: {"forget-snapshot"}, id: SnapshotIds]
  BY <1>6 DEF AtStep
<1> QED
  BY <1>1, <1>2, <1>3, <1>4, <1>5, <1>6 DEF Calls

\* Registered volumes have the fields of a volume.
LEMMA VolumeShape ==
    ASSUME Memory \in ControllerStates, NEW v \in Names, Registered(v)
    PROVE  volumes[v] \in DatasetVolumes
BY DEF Memory, ControllerStates, Registered

\* What a request registers is a volume.
LEMMA RequestedVolume ==
    ASSUME config \in Configs, NEW r \in CreateRequests, NamesDataset(r)
    PROVE  VolumeFor(r) \in DatasetVolumes
<1>1. r \in CreateVolumeRequests
  BY CreateRequestsAssumption
<1>2. config.allowDelete \in BOOLEAN
  BY ConfigsAssumption
<1>3. r.dataset \in Datasets
  BY <1>1 DEF CreateVolumeRequests, NamesDataset
<1> QED
  BY <1>1, <1>2, <1>3 DEF CreateVolumeRequests, VolumeFor, DatasetVolumes,
     AccessPolicies

\* Replies and new steps keep the calls and the answers well typed.
LEMMA CallType ==
    ASSUME TypeOK, NEW h \in Handlers, NEW next \in Calls,
           \/ Return(h) \/ Continue(h, next) \/ UNCHANGED call
    PROVE  call' \in [Handlers -> Calls]
<1>1. call \in [Handlers -> Calls]
  BY DEF TypeOK
<1>2. Idle \in Calls
  BY DEF Calls
<1> QED
  BY <1>1, <1>2 DEF Return, Continue

LEMMA TellType ==
    ASSUME TypeOK, NEW v \in Names,
           NEW answer \in Datasets \cup {"unknown", "absent"},
           Tell(v, answer) \/ UNCHANGED promised
    PROVE  promised' \in [Names -> Datasets \cup {"unknown", "absent"}]
BY DEF TypeOK, Tell

\* A handler's step keeps the controller well typed.
LEMMA RequestType ==
    ASSUME TypeOK, NEW h \in Handlers, Request(h)
    PROVE  TypeOK'
<1> USE DEF TypeOK
<1>1. ASSUME NEW r \in CreateRequests, CreateVolumeFound(h, r)
      PROVE  TypeOK'
  <2>1. PICK v \in Names : Registered(v) /\ Tell(v, volumes[v].dataset)
    BY <1>1 DEF CreateVolumeFound, MatchesForCreate
  <2>2. volumes[v].dataset \in Datasets
    BY <2>1, VolumeShape DEF DatasetVolumes
  <2>3. promised' \in [Names -> Datasets \cup {"unknown", "absent"}]
    BY <2>1, <2>2, TellType
  <2> QED
    BY <1>1, <2>3 DEF CreateVolumeFound, FaultsTypeOK, BackendTypeOK,
       backendVars, processVars, memoryVars, Memory
<1>2. ASSUME NEW r \in CreateRequests, CreateVolumeStart(h, r)
      PROVE  TypeOK'
  <2>1. call' \in [Handlers -> Calls]
    <3>1. /\ [step |-> "lookup", request |-> r] \in Calls
          /\ [step |-> "allocate", request |-> r] \in Calls
      BY <1>2 DEF CreateVolumeStart, Calls
    <3> QED
      BY <1>2, <3>1, CallType DEF CreateVolumeStart
  <2> QED
    BY <1>2, <2>1 DEF CreateVolumeStart, FaultsTypeOK, BackendTypeOK,
       backendVars, processVars, memoryVars, promiseVars, Memory
<1>3. ASSUME NEW v \in Names, DeleteVolumeAbsent(h, v)
      PROVE  TypeOK'
  <2>1. promised' \in [Names -> Datasets \cup {"unknown", "absent"}]
    BY <1>3, TellType DEF DeleteVolumeAbsent
  <2> QED
    BY <1>3, <2>1 DEF DeleteVolumeAbsent, FaultsTypeOK, BackendTypeOK,
       backendVars, processVars, memoryVars, Memory
<1>4. ASSUME NEW v \in Names, RemoveVolume(v)
      PROVE  Memory' \in ControllerStates /\ published' \subseteq Names \X Nodes
  BY <1>4 DEF RemoveVolume, Memory, ControllerStates
<1>5. ASSUME NEW v \in Names, DeleteVolumeKeepDataset(h, v)
      PROVE  TypeOK'
  <2>1. PICK saved \in BOOLEAN :
            Save(saved) /\ Tell(v, IF saved THEN "absent" ELSE "unknown")
    BY <1>5 DEF DeleteVolumeKeepDataset
  <2>2. promised' \in [Names -> Datasets \cup {"unknown", "absent"}]
    BY <2>1, TellType
  <2>3. Memory' \in ControllerStates /\ published' \subseteq Names \X Nodes
    BY <1>4, <1>5 DEF DeleteVolumeKeepDataset
  <2>4. file' \in ControllerStates /\ FaultsTypeOK'
    BY <2>1, <2>3, SaveType
  <2> QED
    BY <1>5, <2>2, <2>3, <2>4 DEF DeleteVolumeKeepDataset, BackendTypeOK,
       backendVars, processVars
<1>6. ASSUME NEW v \in Names, DeleteVolumeAndDataset(h, v)
      PROVE  TypeOK'
  <2>1. PICK answer \in Answers :
            /\ DeleteDataset(volumes[v].dataset, answer)
            /\ IF answer = "ok"
               THEN /\ Continue(h, [step |-> "save-delete", volume |-> v])
                    /\ lock' = h
               ELSE UNCHANGED <<call, lock>>
    BY <1>6 DEF DeleteVolumeAndDataset
  <2>2. volumes[v].dataset \in Datasets
    BY <1>6, VolumeShape DEF DeleteVolumeAndDataset, DatasetVolumes
  <2>3. FaultsTypeOK' /\ BackendTypeOK'
    BY <2>1, <2>2, DatasetCallType
  <2>4. call' \in [Handlers -> Calls] /\ lock' \in Handlers \cup {NoHandler}
    <3>1. [step |-> "save-delete", volume |-> v] \in Calls
      BY DEF Calls
    <3> QED
      BY <2>1, <3>1, CallType
  <2>5. Memory' \in ControllerStates /\ published' \subseteq Names \X Nodes
    BY <1>4, <1>6 DEF DeleteVolumeAndDataset
  <2>6. promised' \in [Names -> Datasets \cup {"unknown", "absent"}]
    BY <1>6, TellType DEF DeleteVolumeAndDataset
  <2> QED
    BY <1>6, <2>3, <2>4, <2>5, <2>6 DEF DeleteVolumeAndDataset, processVars
<1>7. ASSUME NEW v \in Names, NEW n \in Nodes, UnpublishVolume(h, v, n)
      PROVE  TypeOK'
  <2>1. Memory' \in ControllerStates
    BY <1>7 DEF UnpublishVolume, Memory, ControllerStates
  <2>2. file' \in ControllerStates /\ FaultsTypeOK'
    BY <1>7, <2>1, SaveType DEF UnpublishVolume
  <2> QED
    BY <1>7, <2>1, <2>2 DEF UnpublishVolume, BackendTypeOK, backendVars, processVars
<1>8. ASSUME NEW v \in Names, NEW n \in Nodes, NEW readOnly \in BOOLEAN,
             NEW c \in Capabilities, PublishVolume(h, v, n, readOnly, {c})
      PROVE  TypeOK'
  <2>1. volumes[v].access \in AccessPolicies
    BY <1>8, VolumeShape DEF PublishVolume, DatasetVolumes
  <2>2. Memory' \in ControllerStates
    BY <1>8, <2>1 DEF PublishVolume, Memory, ControllerStates, AccessPolicies
  <2>3. file' \in ControllerStates /\ FaultsTypeOK'
    BY <1>8, <2>2, SaveType DEF PublishVolume
  <2>4. published' \subseteq Names \X Nodes
    BY <1>8 DEF PublishVolume
  <2> QED
    BY <1>8, <2>2, <2>3, <2>4 DEF PublishVolume, BackendTypeOK, backendVars, processVars
<1>9. ASSUME NEW v \in Names, NEW s \in SnapshotNames, CreateSnapshot(h, v, s)
      PROVE  TypeOK'
  <2> DEFINE id == <<volumes[v].dataset, s>>
  <2>1. id \in SnapshotIds
    BY <1>9, VolumeShape DEF CreateSnapshot, DatasetVolumes, SnapshotIds
  <2>2. PICK answer \in Answers :
            /\ CreateZfsSnapshot(id, answer)
            /\ IF answer = "ok"
               THEN /\ snapshots' = [snapshots EXCEPT ![id] = v]
                    /\ Continue(h, [step |-> "save-snapshot", id |-> id])
                    /\ lock' = h
               ELSE UNCHANGED <<snapshots, call, lock>>
    BY <1>9 DEF CreateSnapshot
  <2>4. FaultsTypeOK' /\ BackendTypeOK'
    BY <2>1, <2>2, SnapshotCallType
  <2> HIDE DEF id
  <2>5. call' \in [Handlers -> Calls] /\ lock' \in Handlers \cup {NoHandler}
    <3>1. [step |-> "save-snapshot", id |-> id] \in Calls
      BY <2>1 DEF Calls
    <3> QED
      BY <2>2, <3>1, CallType
  <2>6. Memory' \in ControllerStates
    <3>1. snapshots' \in [SnapshotIds -> Names \cup {NoVolume}]
      BY <2>1, <2>2 DEF Memory, ControllerStates
    <3>2. UNCHANGED <<volumes, assignments>>
      BY <1>9 DEF CreateSnapshot
    <3> QED
      BY <3>1, <3>2 DEF Memory, ControllerStates
  <2> QED
    BY <1>9, <2>4, <2>5, <2>6 DEF CreateSnapshot, processVars, promiseVars
<1>10. ASSUME NEW id \in SnapshotIds, DeleteSnapshot(h, id)
       PROVE  TypeOK'
  <2>1. FaultsTypeOK' /\ BackendTypeOK'
    BY <1>10, SnapshotCallType
    DEF DeleteSnapshot, FaultsTypeOK, BackendTypeOK, backendVars
  <2>2. call' \in [Handlers -> Calls]
    <3>1. [step |-> "forget-snapshot", id |-> id] \in Calls
      BY DEF Calls
    <3> QED
      BY <1>10, <3>1, CallType DEF DeleteSnapshot
  <2> QED
    BY <1>10, <2>1, <2>2 DEF DeleteSnapshot, processVars, memoryVars,
       promiseVars, Memory
<1> QED
  BY <1>1, <1>2, <1>3, <1>5, <1>6, <1>7, <1>8, <1>9, <1>10 DEF Request

LEMMA AdvanceType ==
    ASSUME TypeOK, NEW h \in Handlers, Advance(h)
    PROVE  TypeOK'
<1> USE DEF TypeOK
<1>0. ASSUME AtStep(h, "lookup") \/ AtStep(h, "allocate") \/ AtStep(h, "insert")
      PROVE  /\ call[h].request \in CreateRequests
             /\ call[h].request.name \in Names
             /\ call[h].request.dataset \in Datasets
             /\ VolumeFor(call[h].request) \in DatasetVolumes
             /\ [step |-> "insert", request |-> call[h].request] \in Calls
  <2>1. call[h].request \in CreateRequests /\ NamesDataset(call[h].request)
    BY <1>0, CallShape DEF AtStep
  <2>2. [step |-> "insert", request |-> call[h].request] \in Calls
    BY <2>1 DEF Calls
  <2>3. call[h].request \in CreateVolumeRequests
    BY <2>1, CreateRequestsAssumption
  <2>5. /\ call[h].request.name \in Names
        /\ call[h].request.dataset \in Datasets
    BY <2>1, <2>3 DEF CreateVolumeRequests, NamesDataset
  <2>6. VolumeFor(call[h].request) \in DatasetVolumes
    BY <2>1, RequestedVolume
  <2> QED
    BY <2>1, <2>2, <2>5, <2>6
<1>1. CASE LookupExisting(h)
  <2>1. PICK answer \in {"found", "missing", "err"} :
            /\ LookupDataset(call[h].request.dataset, answer)
            /\ InsertNext(h) \/ Return(h)
    BY <1>1 DEF LookupExisting
  <2>2. FaultsTypeOK' /\ BackendTypeOK'
    BY <1>0, <1>1, <2>1, DatasetCallType DEF LookupExisting
  <2>3. call' \in [Handlers -> Calls]
    BY <1>0, <1>1, <2>1, CallType DEF LookupExisting, InsertNext
  <2> QED
    BY <1>1, <2>2, <2>3 DEF LookupExisting, processVars, memoryVars,
       promiseVars, Memory
<1>2. CASE AllocateDataset(h)
  <2>1. PICK answer \in Answers :
            /\ CreateDataset(call[h].request.dataset, answer)
            /\ InsertNext(h) \/ Return(h)
    BY <1>2 DEF AllocateDataset
  <2>2. FaultsTypeOK' /\ BackendTypeOK'
    BY <1>0, <1>2, <2>1, DatasetCallType DEF AllocateDataset
  <2>3. call' \in [Handlers -> Calls]
    BY <1>0, <1>2, <2>1, CallType DEF AllocateDataset, InsertNext
  <2> QED
    BY <1>2, <2>2, <2>3 DEF AllocateDataset, processVars, memoryVars,
       promiseVars, Memory
<1>3. CASE InsertVolume(h)
  <2> DEFINE r == call[h].request
  <2>1. r.name \in Names /\ r.dataset \in Datasets /\ VolumeFor(r) \in DatasetVolumes
    BY <1>0, <1>3 DEF InsertVolume
  <2>2. Memory' \in ControllerStates
    <3>1. /\ volumes' = [volumes EXCEPT ![r.name] = VolumeFor(r)]
          /\ UNCHANGED <<assignments, snapshots>>
      BY <1>3 DEF InsertVolume
    <3> HIDE DEF r
    <3> QED
      BY <2>1, <3>1 DEF Memory, ControllerStates
  <2>3. PICK saved \in BOOLEAN :
            Save(saved) /\ (Tell(r.name, r.dataset) \/ Tell(r.name, "unknown"))
    BY <1>3 DEF InsertVolume
  <2>4. file' \in ControllerStates /\ FaultsTypeOK'
    BY <2>2, <2>3, SaveType
  <2>5. promised' \in [Names -> Datasets \cup {"unknown", "absent"}]
    BY <2>1, <2>3, TellType
  <2>6. call' \in [Handlers -> Calls]
    <3>1. Idle \in Calls
      BY DEF Calls
    <3> QED
      BY <1>3, <3>1, CallType DEF InsertVolume
  <2> QED
    BY <1>3, <2>2, <2>4, <2>5, <2>6 DEF InsertVolume, BackendTypeOK,
       backendVars, processVars
<1>4. CASE SaveDelete(h)
  <2>1. Memory' = Memory
    BY <1>4 DEF SaveDelete, memoryVars, Memory
  <2>2. PICK saved \in BOOLEAN :
            /\ Save(saved)
            /\ Tell(call[h].volume, IF saved THEN "absent" ELSE "unknown")
    BY <1>4 DEF SaveDelete
  <2>3. file' \in ControllerStates /\ FaultsTypeOK'
    BY <2>1, <2>2, SaveType
  <2>4. promised' \in [Names -> Datasets \cup {"unknown", "absent"}]
    BY <1>4, <2>2, CallShape, TellType DEF SaveDelete
  <2>5. call' \in [Handlers -> Calls]
    <3>1. Idle \in Calls
      BY DEF Calls
    <3> QED
      BY <1>4, <3>1, CallType DEF SaveDelete
  <2> QED
    BY <1>4, <2>1, <2>3, <2>4, <2>5 DEF SaveDelete, BackendTypeOK, backendVars,
       processVars
<1>5. CASE SaveSnapshot(h)
  <2>1. Memory' = Memory
    BY <1>5 DEF SaveSnapshot, memoryVars, Memory
  <2>2. file' \in ControllerStates /\ FaultsTypeOK'
    BY <1>5, <2>1, SaveType DEF SaveSnapshot
  <2>3. call' \in [Handlers -> Calls]
    <3>1. Idle \in Calls
      BY DEF Calls
    <3> QED
      BY <1>5, <3>1, CallType DEF SaveSnapshot
  <2> QED
    BY <1>5, <2>1, <2>2, <2>3 DEF SaveSnapshot, BackendTypeOK, backendVars,
       processVars, promiseVars
<1>6. CASE ForgetSnapshot(h)
  <2>1. Memory' \in ControllerStates
    BY <1>6, CallShape DEF ForgetSnapshot, Memory, ControllerStates
  <2>2. file' \in ControllerStates /\ FaultsTypeOK'
    BY <1>6, <2>1, SaveType DEF ForgetSnapshot
  <2>3. call' \in [Handlers -> Calls]
    <3>1. Idle \in Calls
      BY DEF Calls
    <3> QED
      BY <1>6, <3>1, CallType DEF ForgetSnapshot
  <2> QED
    BY <1>6, <2>1, <2>2, <2>3 DEF ForgetSnapshot, BackendTypeOK, backendVars,
       processVars, promiseVars
<1> QED
  BY <1>1, <1>2, <1>3, <1>4, <1>5, <1>6 DEF Advance

\* An empty memory is a controller state.
LEMMA EmptyMemory ==
    ASSUME volumes' = NoVolumes, assignments' = NoAssignments,
           snapshots' = NoSnapshots
    PROVE  Memory' \in ControllerStates
BY DEF Memory, ControllerStates, NoVolumes, NoAssignments, NoSnapshots

\* A process that is gone leaves a well-typed, empty memory.
LEMMA DieType ==
    ASSUME TypeOK, Die
    PROVE  /\ running' \in BOOLEAN /\ config' \in Configs
           /\ pending' \in Seq(ExistingVolumeConfigs)
           /\ Memory' \in ControllerStates
           /\ lock' \in Handlers \cup {NoHandler}
           /\ call' \in [Handlers -> Calls]
<1>1. Memory' \in ControllerStates
  BY EmptyMemory DEF Die
<1>2. call' \in [Handlers -> Calls]
  BY DEF Die, Calls
<1>3. config' \in Configs
  BY DEF Die, TypeOK
<1>4. pending' \in Seq(ExistingVolumeConfigs)
  BY DEF Die
<1> QED
  BY <1>1, <1>2, <1>3, <1>4 DEF Die

LEMMA ProcessType ==
    ASSUME TypeOK, Start \/ Crash \/ RegisterConfigured \/ StartupFails
    PROVE  TypeOK'
<1> USE DEF TypeOK
<1>1. CASE Start
  <2>1. Memory' \in ControllerStates
    <3>1. Memory' = [volumes |-> file.volumes, assignments |-> file.assignments,
                     snapshots |-> file.snapshots]
      BY <1>1 DEF Start, Memory
    <3> QED
      BY <3>1 DEF ControllerStates
  <2>2. config' \in Configs /\ pending' \in Seq(ExistingVolumeConfigs)
    BY <1>1, ConfigsAssumption DEF Start
  <2> QED
    BY <1>1, <2>1, <2>2 DEF Start, FaultsTypeOK, BackendTypeOK, backendVars,
       promiseVars
<1>2. CASE Crash
  <2>1. FaultsTypeOK'
    BY <1>2, FaultType, FaultKindsAssumption DEF Crash
  <2> QED
    BY <1>2, <2>1, DieType DEF Crash, BackendTypeOK, backendVars, promiseVars
<1>3. ASSUME running, pending # <<>>
      PROVE  /\ Head(pending) \in ExistingVolumeConfigs
             /\ Head(pending).id \in Names
             /\ Head(pending).dataset \in Datasets
             /\ ConfiguredVolume(Head(pending)) \in DatasetVolumes
             /\ Tail(pending) \in Seq(ExistingVolumeConfigs)
  <2>1. Head(pending) \in ExistingVolumeConfigs
    BY <1>3
  <2>2. Tail(pending) \in Seq(ExistingVolumeConfigs)
    BY <1>3
  <2> DEFINE c == Head(pending)
  <2>3. /\ c.id \in Names /\ c.dataset \in Datasets
        /\ ConfiguredVolume(c) \in DatasetVolumes
    BY <2>1 DEF ExistingVolumeConfigs, ConfiguredVolume, DatasetVolumes
  <2> QED
    BY <2>1, <2>2, <2>3
<1>4. ASSUME NEW answer, LookupDataset(Head(pending).dataset, answer)
      PROVE  FaultsTypeOK' /\ BackendTypeOK'
  <2>1. Fault("backend") \/ NoFault
    BY <1>4 DEF LookupDataset
  <2> QED
    BY <1>4, <2>1, FaultType, BackendFaultAssumption
    DEF LookupDataset, BackendTypeOK, backendVars
<1>5. CASE RegisterConfigured
  <2> DEFINE c == Head(pending)
  <2>1. /\ c.id \in Names /\ c.dataset \in Datasets
        /\ ConfiguredVolume(c) \in DatasetVolumes
        /\ Tail(pending) \in Seq(ExistingVolumeConfigs)
    BY <1>3, <1>5 DEF RegisterConfigured
  <2>2. FaultsTypeOK' /\ BackendTypeOK'
    BY <1>4, <1>5 DEF RegisterConfigured
  <2>3. /\ volumes' = [volumes EXCEPT ![c.id] = ConfiguredVolume(c)]
        /\ UNCHANGED <<assignments, snapshots, running, config, lock, call, published>>
        /\ file' = Memory'
        /\ pending' = Tail(pending)
        /\ Tell(c.id, c.dataset)
    BY <1>5 DEF RegisterConfigured
  <2> HIDE DEF c
  <2>4. Memory' \in ControllerStates
    BY <2>1, <2>3 DEF Memory, ControllerStates
  <2>5. promised' \in [Names -> Datasets \cup {"unknown", "absent"}]
    BY <2>1, <2>3, TellType
  <2> QED
    BY <2>1, <2>2, <2>3, <2>4, <2>5
<1>6. CASE StartupFails
  <2> DEFINE c == Head(pending)
             insert == [volumes |-> [volumes EXCEPT ![c.id] = ConfiguredVolume(c)],
                        assignments |-> assignments, snapshots |-> snapshots]
  <2>1. c.id \in Names /\ ConfiguredVolume(c) \in DatasetVolumes
    BY <1>3, <1>6 DEF StartupFails
  <2>2. insert \in ControllerStates
    <3> HIDE DEF c
    <3> QED
      BY <2>1 DEF Memory, ControllerStates
  <2>3. FaultsTypeOK' /\ BackendTypeOK'
    <3>1. ASSUME Fault("save"), UNCHANGED backendVars
          PROVE  FaultsTypeOK' /\ BackendTypeOK'
      BY <3>1, FaultType, FaultKindsAssumption DEF BackendTypeOK, backendVars
    <3> QED
      BY <1>4, <1>6, <3>1 DEF StartupFails
  <2>4. file' \in ControllerStates
    BY <1>6, <2>2 DEF StartupFails
  <2>5. promised' \in [Names -> Datasets \cup {"unknown", "absent"}]
    BY <1>6, <2>1, TellType DEF StartupFails
  <2> QED
    BY <1>6, <2>3, <2>4, <2>5, DieType DEF StartupFails
<1> QED
  BY <1>1, <1>2, <1>5, <1>6

LEMMA TypeStep ==
    ASSUME TypeOK, [Next]_vars
    PROVE  TypeOK'
<1>1. CASE UNCHANGED vars
  BY <1>1 DEF TypeOK, vars, FaultsTypeOK, BackendTypeOK, backendVars,
     processVars, memoryVars, promiseVars, Memory
<1>2. CASE LateExecution
  <2>1. FaultsTypeOK' /\ BackendTypeOK'
    BY <1>2, LateEffects DEF LateExecution, TypeOK, FaultsTypeOK
  <2> QED
    BY <1>2, <2>1 DEF LateExecution, TypeOK, processVars, memoryVars, promiseVars, Memory
<1> QED
  BY <1>1, <1>2, RequestType, AdvanceType, ProcessType DEF Next

\* The controller's variables always have their types: in particular a call
\* in flight always carries a request that names a dataset, and the state
\* file always holds a complete state, whatever fails.
THEOREM TypeCorrect == Spec => []TypeOK
<1>1. Init => TypeOK
  <2> SUFFICES ASSUME Init PROVE TypeOK
    OBVIOUS
  <2>1. Memory \in ControllerStates
    BY DEF Init, Memory, ControllerStates, NoVolumes, NoAssignments, NoSnapshots
  <2>2. FaultsTypeOK /\ BackendTypeOK
    BY InitialDatasetsAssumption
    DEF Init, FaultsInit, BackendInit, FaultsTypeOK, BackendTypeOK
  <2>3. call \in [Handlers -> Calls]
    BY DEF Init, Calls
  <2>4. pending \in Seq(ExistingVolumeConfigs)
    BY DEF Init
  <2>5. file \in ControllerStates
    BY <2>1 DEF Init
  <2> QED
    BY <2>1, <2>2, <2>3, <2>4, <2>5 DEF Init, TypeOK
<1>2. TypeOK /\ [Next]_vars => TypeOK'
  BY TypeStep
<1> QED
  BY <1>1, <1>2, PTL DEF Spec

-----------------------------------------------------------------------------
(***************************************************************************)
(* Existing datasets are kept                                              *)
(***************************************************************************)
\* A write of the state file puts the old or the new memory there.
LEMMA SaveOutcome ==
    ASSUME NEW saved, Save(saved)
    PROVE  /\ file' = file \/ file' = Memory'
           /\ saved => file' = Memory'
BY DEF Save

\* What the steps of a handler have in common: the process stays as it is,
\* the state file is left alone or takes the new memory, and only handler h
\* may change what it is doing.
HandlerFrame(h) ==
    /\ UNCHANGED processVars
    /\ file' = file \/ file' = Memory'
    /\ \E next \in Calls : call' = [call EXCEPT ![h] = next]

\* A request comes to a running process, and no request starts at the step
\* that registers a volume.
LEMMA RequestFrame ==
    ASSUME TypeOK, NEW h \in Handlers, Request(h)
    PROVE  /\ running = TRUE
           /\ HandlerFrame(h)
           /\ call'[h].step # "insert"
           /\ call'[h].step = "lookup" =>
                 call'[h].request.mode = "existing-dataset"
<1> DEFINE Begins(next) ==
        /\ next.step # "insert"
        /\ next.step = "lookup" => next.request.mode = "existing-dataset"
    Goal == running = TRUE /\ HandlerFrame(h) /\ Begins(call'[h])
<1>2. ASSUME HandlerIdle(h), UNCHANGED call
      PROVE  /\ \E next \in Calls : call' = [call EXCEPT ![h] = next]
             /\ Begins(call'[h])
  <2>1. call' = [call EXCEPT ![h] = Idle]
    BY <1>2 DEF HandlerIdle, TypeOK
  <2>2. Idle \in Calls
    BY DEF Calls
  <2>3. Begins(call'[h])
    BY <1>2 DEF HandlerIdle, Idle
  <2> QED
    BY <2>1, <2>2, <2>3
<1>3. ASSUME NEW next \in Calls, Begins(next), Continue(h, next)
      PROVE  /\ \E new \in Calls : call' = [call EXCEPT ![h] = new]
             /\ Begins(call'[h])
  BY <1>3 DEF Continue, TypeOK
<1>4. ASSUME HandlerIdle(h)
      PROVE  running = TRUE
  BY <1>4 DEF HandlerIdle, Serving, TypeOK
<1>5. ASSUME NEW r \in CreateRequests, CreateVolumeFound(h, r)
      PROVE  Goal
  BY <1>2, <1>4, <1>5 DEF CreateVolumeFound, HandlerFrame
<1>6. ASSUME NEW r \in CreateRequests, CreateVolumeStart(h, r)
      PROVE  Goal
  <2>1. /\ [step |-> "lookup", request |-> r] \in Calls
        /\ [step |-> "allocate", request |-> r] \in Calls
    BY <1>6 DEF CreateVolumeStart, Calls
  <2> QED
    BY <1>3, <1>4, <1>6, <2>1 DEF CreateVolumeStart, HandlerFrame
<1>7. ASSUME NEW v \in Names, DeleteVolumeAbsent(h, v)
      PROVE  Goal
  BY <1>2, <1>4, <1>7 DEF DeleteVolumeAbsent, HandlerFrame
<1>8. ASSUME NEW v \in Names, DeleteVolumeKeepDataset(h, v)
      PROVE  Goal
  BY <1>2, <1>4, <1>8, SaveOutcome DEF DeleteVolumeKeepDataset, HandlerFrame
<1>9. ASSUME NEW v \in Names, DeleteVolumeAndDataset(h, v)
      PROVE  Goal
  <2>1. [step |-> "save-delete", volume |-> v] \in Calls
    BY DEF Calls
  <2>2. UNCHANGED call \/ Continue(h, [step |-> "save-delete", volume |-> v])
    BY <1>9 DEF DeleteVolumeAndDataset
  <2> QED
    BY <1>2, <1>3, <1>4, <1>9, <2>1, <2>2 DEF DeleteVolumeAndDataset, HandlerFrame
<1>10. ASSUME NEW v \in Names, NEW n \in Nodes, UnpublishVolume(h, v, n)
       PROVE  Goal
  BY <1>2, <1>4, <1>10, SaveOutcome DEF UnpublishVolume, HandlerFrame
<1>11. ASSUME NEW v \in Names, NEW n \in Nodes, NEW readOnly \in BOOLEAN,
              NEW c \in Capabilities, PublishVolume(h, v, n, readOnly, {c})
       PROVE  Goal
  BY <1>2, <1>4, <1>11, SaveOutcome DEF PublishVolume, HandlerFrame
<1>12. ASSUME NEW v \in Names, NEW s \in SnapshotNames, CreateSnapshot(h, v, s)
       PROVE  Goal
  <2> DEFINE id == <<volumes[v].dataset, s>>
  <2>1. id \in SnapshotIds
    BY <1>12, VolumeShape DEF CreateSnapshot, DatasetVolumes, SnapshotIds, TypeOK
  <2>2. [step |-> "save-snapshot", id |-> id] \in Calls
    BY <2>1 DEF Calls
  <2>3. UNCHANGED call \/ Continue(h, [step |-> "save-snapshot", id |-> id])
    BY <1>12 DEF CreateSnapshot
  <2> QED
    BY <1>2, <1>3, <1>4, <1>12, <2>2, <2>3 DEF CreateSnapshot, HandlerFrame
<1>13. ASSUME NEW id \in SnapshotIds, DeleteSnapshot(h, id)
       PROVE  Goal
  <2>1. [step |-> "forget-snapshot", id |-> id] \in Calls
    BY DEF Calls
  <2>2. UNCHANGED call \/ Continue(h, [step |-> "forget-snapshot", id |-> id])
    BY <1>13 DEF DeleteSnapshot
  <2> QED
    BY <1>2, <1>3, <1>4, <1>13, <2>1, <2>2 DEF DeleteSnapshot, HandlerFrame
<1> QED
  BY <1>5, <1>6, <1>7, <1>8, <1>9, <1>10, <1>11, <1>12, <1>13 DEF Request

\* A handler that goes on with its call is in one, and either returns or is
\* about to register a volume.
LEMMA AdvanceFrame ==
    ASSUME TypeOK, NEW h \in Handlers, Advance(h)
    PROVE  HandlerFrame(h) /\ call[h] # Idle
<1>1. call[h] # Idle
  <2>1. call[h].step # "idle"
    BY DEF Advance, LookupExisting, AllocateDataset, InsertVolume, SaveDelete,
       SaveSnapshot, ForgetSnapshot, AtStep
  <2>2. Idle.step = "idle"
    BY DEF Idle
  <2> QED
    BY <2>1, <2>2
<1>2. Idle \in Calls
  BY DEF Calls
<1>3. CASE LookupExisting(h) \/ AllocateDataset(h)
  <2>1. InsertNext(h) \/ Return(h)
    BY <1>3 DEF LookupExisting, AllocateDataset
  <2>2. [step |-> "insert", request |-> call[h].request] \in Calls
    BY <1>3, CallShape DEF LookupExisting, AllocateDataset, AtStep, Calls, TypeOK
  <2>3. \E next \in Calls : call' = [call EXCEPT ![h] = next]
    BY <1>2, <2>1, <2>2 DEF InsertNext, Return, Continue
  <2> QED
    BY <1>1, <1>3, <2>3 DEF LookupExisting, AllocateDataset, HandlerFrame
<1>4. CASE InsertVolume(h) \/ SaveDelete(h) \/ SaveSnapshot(h) \/ ForgetSnapshot(h)
  <2>1. Return(h) /\ UNCHANGED processVars /\ \E saved \in BOOLEAN : Save(saved)
    BY <1>4 DEF InsertVolume, SaveDelete, SaveSnapshot, ForgetSnapshot
  <2> QED
    BY <1>1, <1>2, <2>1, SaveOutcome DEF HandlerFrame, Return
<1> QED
  BY <1>3, <1>4 DEF Advance

\* Only a process that is up works on calls.
LEMMA QuietInvariant == Spec => []QuietWhenDown
<1>1. Init => QuietWhenDown
  BY DEF Init, QuietWhenDown
<1>2. TypeOK /\ QuietWhenDown /\ [Next]_vars => QuietWhenDown'
  <2> SUFFICES ASSUME TypeOK, QuietWhenDown, [Next]_vars
               PROVE  QuietWhenDown'
    OBVIOUS
  <2>1. ASSUME NEW h \in Handlers, Request(h)
        PROVE  running' = TRUE
    BY <2>1, RequestFrame DEF HandlerFrame, processVars
  <2>2. ASSUME NEW h \in Handlers, Advance(h)
        PROVE  running' = TRUE
    <3>1. call[h] # Idle /\ UNCHANGED processVars
      BY <2>2, AdvanceFrame DEF HandlerFrame
    <3>2. running = TRUE
      BY <3>1 DEF QuietWhenDown, TypeOK
    <3> QED
      BY <3>1, <3>2 DEF processVars
  <2>3. CASE Start \/ RegisterConfigured
    <3>1. running' = TRUE
      BY <2>3 DEF Start, RegisterConfigured, TypeOK
    <3> QED
      BY <3>1 DEF QuietWhenDown
  <2>4. CASE Crash \/ StartupFails
    BY <2>4 DEF Crash, StartupFails, Die, QuietWhenDown
  <2>5. CASE UNCHANGED vars \/ LateExecution
    BY <2>5 DEF vars, LateExecution, processVars, QuietWhenDown
  <2> QED
    BY <2>1, <2>2, <2>3, <2>4, <2>5 DEF Next, QuietWhenDown
<1> QED
  BY <1>1, <1>2, TypeCorrect, PTL DEF Spec

\* A request leaves each volume in memory as it is or removes it.
LEMMA RequestVolumes ==
    ASSUME TypeOK, NEW h \in Handlers, Request(h), NEW w \in Names
    PROVE  volumes'[w] = volumes[w] \/ volumes'[w] = NoVolume
<1>1. volumes \in [Names -> DatasetVolumes \cup {NoVolume}]
  BY DEF TypeOK, Memory, ControllerStates
<1>2. UNCHANGED volumes \/ \E v \in Names : RemoveVolume(v)
  BY DEF Request, CreateVolumeFound, CreateVolumeStart, DeleteVolumeAbsent,
     DeleteVolumeKeepDataset, DeleteVolumeAndDataset, UnpublishVolume,
     PublishVolume, CreateSnapshot, DeleteSnapshot, memoryVars
<1> QED
  BY <1>1, <1>2 DEF RemoveVolume

\* Datasets go only in DeleteVolumeAndDataset.
LEMMA RequestDatasets ==
    ASSUME TypeOK, NEW h \in Handlers, Request(h)
    PROVE  \/ datasets \subseteq datasets'
           \/ \E v \in Names : /\ DeleteVolumeAndDataset(h, v)
                               /\ datasets \ datasets' \subseteq {volumes[v].dataset}
<1>1. ASSUME NEW v \in Names, DeleteVolumeAndDataset(h, v)
      PROVE  datasets \ datasets' \subseteq {volumes[v].dataset}
  BY <1>1 DEF DeleteVolumeAndDataset, DeleteDataset, DatasetDeleted, Refused, Fails,
     backendVars
<1>2. ASSUME ~ \E v \in Names : DeleteVolumeAndDataset(h, v)
      PROVE  UNCHANGED datasets
  BY <1>2 DEF Request, CreateVolumeFound, CreateVolumeStart,
     DeleteVolumeAbsent, DeleteVolumeKeepDataset, UnpublishVolume,
     PublishVolume, CreateSnapshot, DeleteSnapshot, CreateZfsSnapshot,
     DeleteZfsSnapshot, SnapshotCreated, SnapshotDeleted, Refused, Fails, backendVars
<1> QED
  BY <1>1, <1>2

\* What a handler's call may leave behind.
LEMMA RequestFailures ==
    ASSUME NEW h \in Handlers, Request(h)
    PROVE  \/ UNCHANGED <<late, failed>>
           \/ \E v \in Names : /\ DeleteVolumeAndDataset(h, v)
                               /\ Fails(DeletionOf(volumes[v].dataset))
           \/ \E id : Fails(SnapshotCreationOf(id))
           \/ \E id : config.allowSnapshotDelete /\ Fails(SnapshotDeletionOf(id))
<1>1. ASSUME NEW v \in Names, DeleteVolumeAndDataset(h, v)
      PROVE  UNCHANGED <<late, failed>> \/ Fails(DeletionOf(volumes[v].dataset))
  BY <1>1 DEF DeleteVolumeAndDataset, DeleteDataset, Succeeds, Refused, backendVars
<1>2. ASSUME NEW v \in Names, NEW s \in SnapshotNames, CreateSnapshot(h, v, s)
      PROVE  UNCHANGED <<late, failed>> \/ \E id : Fails(SnapshotCreationOf(id))
  BY <1>2 DEF CreateSnapshot, CreateZfsSnapshot, Succeeds, Refused, backendVars
<1>3. ASSUME NEW id \in SnapshotIds, DeleteSnapshot(h, id)
      PROVE  \/ UNCHANGED <<late, failed>>
             \/ config.allowSnapshotDelete /\ Fails(SnapshotDeletionOf(id))
  BY <1>3 DEF DeleteSnapshot, DeleteZfsSnapshot, Succeeds, Refused, backendVars
<1>4. \/ UNCHANGED <<late, failed>>
      \/ \E v \in Names : DeleteVolumeAndDataset(h, v)
      \/ \E v \in Names, s \in SnapshotNames : CreateSnapshot(h, v, s)
      \/ \E id \in SnapshotIds : DeleteSnapshot(h, id)
  BY DEF Request, CreateVolumeFound, CreateVolumeStart, DeleteVolumeAbsent,
     DeleteVolumeKeepDataset, UnpublishVolume, PublishVolume, backendVars
<1> QED
  BY <1>1, <1>2, <1>3, <1>4

LEMMA AdvanceFailures ==
    ASSUME NEW h \in Handlers, Advance(h)
    PROVE  UNCHANGED <<late, failed>> \/ \E d : Fails(CreationOf(d))
BY DEF Advance, LookupExisting, AllocateDataset, InsertVolume, SaveDelete, SaveSnapshot,
   ForgetSnapshot, LookupDataset, CreateDataset, Succeeds, Refused, backendVars

LEMMA ProcessFailures ==
    ASSUME Start \/ Crash \/ RegisterConfigured \/ StartupFails \/ UNCHANGED vars
    PROVE  UNCHANGED <<datasets, zfsSnapshots, late, failed>>
BY DEF Start, Crash, RegisterConfigured, StartupFails, LookupDataset, backendVars, vars

\* A failed request is remembered, a deletion that fails was allowed, and what
\* is executed late has failed before.
LEMMA FailuresStep ==
    ASSUME TypeOK, [Next]_vars
    PROVE  /\ failed \subseteq failed'
           /\ \A d : DeletionOf(d) \in failed' \ failed => MayDelete(d)
           /\ \A r \in BackendRequests : late'[r] > late[r] => r \in failed'
           /\ \A d \in Datasets : late'[DeletionOf(d)] > late[DeletionOf(d)] => MayDelete(d)
           /\ \A id \in SnapshotIds :
                 late'[SnapshotDeletionOf(id)] > late[SnapshotDeletionOf(id)]
                    => config.allowSnapshotDelete
<1> DEFINE Goal ==
       /\ failed \subseteq failed'
       /\ \A d : DeletionOf(d) \in failed' \ failed => MayDelete(d)
       /\ \A r \in BackendRequests : late'[r] > late[r] => r \in failed'
       /\ \A d \in Datasets : late'[DeletionOf(d)] > late[DeletionOf(d)] => MayDelete(d)
       /\ \A id \in SnapshotIds :
             late'[SnapshotDeletionOf(id)] > late[SnapshotDeletionOf(id)]
                => config.allowSnapshotDelete
<1>1. late \in [BackendRequests -> Nat]
  BY DEF TypeOK, BackendTypeOK
<1>2. ASSUME UNCHANGED <<late, failed>>
      PROVE  Goal
  BY <1>1, <1>2, RequestsOfBackend
<1>3. ASSUME NEW r, Fails(r),
             \A d : r = DeletionOf(d) => MayDelete(d),
             \A id : r = SnapshotDeletionOf(id) => config.allowSnapshotDelete
      PROVE  Goal
  <2>1. \A q \in BackendRequests : late'[q] > late[q] => q = r
    BY <1>1, <1>3 DEF Fails
  <2>2. failed' = failed \cup {r}
    BY <1>3 DEF Fails
  <2> QED
    BY <1>3, <2>1, <2>2, RequestsOfBackend
<1>4. CASE LateExecution
  <2>1. /\ UNCHANGED failed
        /\ \A r \in BackendRequests : late'[r] <= late[r] /\ late'[r] \in Nat
    BY <1>4, LateEffects DEF LateExecution, TypeOK
  <2>2. \A r \in BackendRequests : ~(late'[r] > late[r])
    BY <1>1, <2>1
  <2> QED
    BY <2>1, <2>2, RequestsOfBackend
<1>5. ASSUME NEW h \in Handlers, Request(h)
      PROVE  Goal
  <2>1. ASSUME NEW v \in Names, DeleteVolumeAndDataset(h, v),
               Fails(DeletionOf(volumes[v].dataset))
        PROVE  Goal
    <3>1. MayDelete(volumes[v].dataset)
      BY <2>1 DEF DeleteVolumeAndDataset, DeletesDataset, MayDelete
    <3> QED
      BY <1>3, <2>1, <3>1 DEF DeletionOf, SnapshotDeletionOf
  <2>2. ASSUME NEW id, Fails(SnapshotCreationOf(id))
        PROVE  Goal
    BY <1>3, <2>2 DEF DeletionOf, SnapshotDeletionOf, SnapshotCreationOf
  <2>3. ASSUME NEW id, config.allowSnapshotDelete, Fails(SnapshotDeletionOf(id))
        PROVE  Goal
    BY <1>3, <2>3 DEF DeletionOf, SnapshotDeletionOf
  <2> QED
    BY <1>2, <1>5, <2>1, <2>2, <2>3, RequestFailures
<1>6. ASSUME NEW h \in Handlers, Advance(h)
      PROVE  Goal
  <2>1. ASSUME NEW d, Fails(CreationOf(d))
        PROVE  Goal
    BY <1>3, <2>1 DEF DeletionOf, SnapshotDeletionOf, CreationOf
  <2> QED
    BY <1>2, <1>6, <2>1, AdvanceFailures
<1>7. CASE Start \/ Crash \/ RegisterConfigured \/ StartupFails \/ UNCHANGED vars
  BY <1>2, <1>7, ProcessFailures
<1> QED
  BY <1>4, <1>5, <1>6, <1>7 DEF Next

\* A handler's step does not touch what the other handlers are about to do.
LEMMA OthersPending ==
    ASSUME TypeOK, NEW h \in Handlers, HandlerFrame(h),
           NEW g \in Handlers, g # h, OptInPending(g)
    PROVE  OptInPending(g)'
<1>1. call'[g] = call[g] /\ config' = config
  BY DEF HandlerFrame, TypeOK, processVars
<1> QED
  BY <1>1 DEF OptInPending, AtStep, VolumeFor, OptInIsOwn

\* The volumes in the state file are the old ones or those in memory.
LEMMA FileVolumes ==
    ASSUME NEW h \in Handlers, HandlerFrame(h)
    PROVE  file' = file \/ file'.volumes = volumes'
<1>1. file' = file \/ file' = Memory'
  BY DEF HandlerFrame
<1>2. Memory'.volumes = volumes'
  BY DEF Memory
<1> QED
  BY <1>1, <1>2

\* No request makes an opt-in stand for an existing dataset or deletes one.
LEMMA RequestKeepsExisting ==
    ASSUME TypeOK, OptInsAreOwn, ExistingDatasetsKept,
           NEW h \in Handlers, Request(h)
    PROVE  ExistingDatasetsKept' /\ OptInsAreOwn'
<1>1. ExistingDatasetsKept'
  <2>1. ASSUME NEW v \in Names, DeleteVolumeAndDataset(h, v)
        PROVE  volumes[v].dataset \notin InitialDatasets
    BY <2>1 DEF DeleteVolumeAndDataset, DeletesDataset, Registered,
       OptInsAreOwn, OptInIsOwn
  <2> QED
    BY <2>1, RequestDatasets DEF ExistingDatasetsKept
<1>2. ASSUME NEW w \in Names
      PROVE  OptInIsOwn(volumes'[w]) /\ OptInIsOwn(file'.volumes[w])
  <2>1. OptInIsOwn(volumes'[w])
    BY RequestVolumes DEF OptInsAreOwn, OptInIsOwn
  <2>2. file' = file \/ file' = Memory'
    BY RequestFrame DEF HandlerFrame
  <2>3. Memory'.volumes = volumes'
    BY DEF Memory
  <2> QED
    BY <2>1, <2>2, <2>3 DEF OptInsAreOwn
<1>3. ASSUME NEW g \in Handlers
      PROVE  OptInPending(g)'
  <2>1. CASE g # h
    BY <2>1, RequestFrame, OthersPending DEF OptInsAreOwn
  <2>2. CASE g = h
    BY <2>2, RequestFrame DEF OptInPending, AtStep
  <2> QED
    BY <2>1, <2>2
<1>4. OptInsAreOwn'
  BY <1>2, <1>3 DEF OptInsAreOwn, OptInIsOwn
<1> QED
  BY <1>1, <1>4

\* A call that goes on keeps existing datasets, and what it is about to
\* register, or registers, stands for an existing dataset only without opt-in.
LEMMA AdvanceKeepsExisting ==
    ASSUME TypeOK, OptInsAreOwn, ExistingDatasetsKept,
           NEW h \in Handlers, Advance(h)
    PROVE  ExistingDatasetsKept' /\ OptInsAreOwn'
<1>1. datasets \subseteq datasets'
  BY DEF Advance, LookupExisting, AllocateDataset, InsertVolume, SaveDelete,
     SaveSnapshot, ForgetSnapshot, LookupDataset, CreateDataset, DatasetCreated,
     Succeeds, Refused, Fails, backendVars
<1>2. ASSUME NEW w \in Names
      PROVE  OptInIsOwn(volumes'[w]) /\ OptInIsOwn(file'.volumes[w])
  <2>1. CASE InsertVolume(h)
    <3>1. OptInIsOwn(VolumeFor(call[h].request))
      BY <2>1 DEF InsertVolume, OptInsAreOwn, OptInPending
    <3>2. \/ volumes'[w] = volumes[w]
          \/ volumes'[w] = VolumeFor(call[h].request)
      BY <2>1 DEF InsertVolume, TypeOK, Memory, ControllerStates
    <3> QED
      BY <3>1, <3>2, FileVolumes, AdvanceFrame DEF OptInsAreOwn
  <2>2. CASE ~InsertVolume(h)
    <3>1. UNCHANGED volumes
      BY <2>2 DEF Advance, LookupExisting, AllocateDataset, SaveDelete,
         SaveSnapshot, ForgetSnapshot, memoryVars
    <3> QED
      BY <3>1, FileVolumes, AdvanceFrame DEF OptInsAreOwn
  <2> QED
    BY <2>1, <2>2
<1>3. ASSUME NEW g \in Handlers
      PROVE  OptInPending(g)'
  <2>1. CASE g # h
    BY <2>1, AdvanceFrame, OthersPending DEF OptInsAreOwn
  <2>2. CASE g = h /\ Return(h)
    BY <2>2 DEF Return, OptInPending, AtStep, Idle, TypeOK
  <2>3. CASE g = h /\ InsertNext(h)
    <3> DEFINE r == call[h].request
    <3>1. call'[h].step = "insert" /\ call'[h].request = r
      BY <2>3 DEF InsertNext, Continue, TypeOK
    <3>2. config' = config
      BY AdvanceFrame DEF HandlerFrame, processVars
    <3>3. OptInIsOwn(VolumeFor(r))
      <4>1. CASE LookupExisting(h)
        <5>1. r.mode = "existing-dataset"
          BY <4>1 DEF LookupExisting, OptInsAreOwn, OptInPending
        <5>2. ~VolumeFor(r).deleteOnDelete
          BY <5>1 DEF VolumeFor
        <5> QED
          BY <5>2 DEF OptInIsOwn
      <4>2. CASE AllocateDataset(h)
        <5>1. PICK answer \in Answers : /\ CreateDataset(r.dataset, answer)
                                        /\ answer = "ok" \/ Return(h)
          BY <4>2 DEF AllocateDataset
        <5>2. answer = "ok"
          BY <5>1, <3>1 DEF Return, Idle, TypeOK
        <5>3. r.dataset \notin InitialDatasets
          BY <5>1, <5>2 DEF CreateDataset, DatasetCreated, ExistingDatasetsKept
        <5> QED
          BY <5>3 DEF OptInIsOwn, VolumeFor
      <4>3. CASE InsertVolume(h) \/ SaveDelete(h) \/ SaveSnapshot(h) \/ ForgetSnapshot(h)
        <5>1. Return(h)
          BY <4>3 DEF InsertVolume, SaveDelete, SaveSnapshot, ForgetSnapshot
        <5>2. call'[h] = Idle
          BY <5>1 DEF Return, TypeOK
        <5> QED
          BY <3>1, <5>2 DEF Idle
      <4> QED
        BY <4>1, <4>2, <4>3 DEF Advance
    <3> QED
      BY <2>3, <3>1, <3>2, <3>3 DEF OptInPending, AtStep, VolumeFor
  <2> QED
    BY <2>1, <2>2, <2>3 DEF Advance, LookupExisting, AllocateDataset,
       InsertVolume, SaveDelete, SaveSnapshot, ForgetSnapshot
<1> QED
  BY <1>1, <1>2, <1>3 DEF ExistingDatasetsKept, OptInsAreOwn, OptInIsOwn

\* Starting, registering configured volumes and dying keep existing datasets,
\* and no volume of the configuration opts in.
LEMMA ProcessKeepsExisting ==
    ASSUME TypeOK, OptInsAreOwn, ExistingDatasetsKept, QuietWhenDown,
           Start \/ Crash \/ RegisterConfigured \/ StartupFails
    PROVE  ExistingDatasetsKept' /\ OptInsAreOwn'
<1>1. UNCHANGED datasets
  BY DEF Start, Crash, RegisterConfigured, StartupFails, LookupDataset,
     backendVars
<1> DEFINE c == Head(pending)
<1>2. ~ConfiguredVolume(c).deleteOnDelete
  BY DEF ConfiguredVolume
<1> DEFINE insert == [volumes EXCEPT ![c.id] = ConfiguredVolume(c)]
<1>3. ASSUME NEW w \in Names
      PROVE  OptInIsOwn(insert[w]) /\ OptInIsOwn(NoVolumes[w])
  <2>1. insert[w] = volumes[w] \/ insert[w] = ConfiguredVolume(c)
    BY DEF TypeOK, Memory, ControllerStates
  <2>2. OptInIsOwn(insert[w])
    BY <1>2, <2>1 DEF OptInsAreOwn, OptInIsOwn
  <2> QED
    BY <2>2 DEF NoVolumes, OptInIsOwn
<1>4. volumes' \in {file.volumes, NoVolumes, insert}
  BY DEF Start, Crash, RegisterConfigured, StartupFails, Die
<1>5. file'.volumes \in {file.volumes, insert}
  <2>1. Memory'.volumes = volumes'
    BY DEF Memory
  <2> QED
    BY <2>1 DEF Start, Crash, RegisterConfigured, StartupFails
<1>6. ASSUME NEW g \in Handlers
      PROVE  OptInPending(g)'
  <2>1. CASE Start \/ Crash \/ StartupFails
    <3>1. call'[g] = Idle
      BY <2>1 DEF Start, Crash, StartupFails, Die, QuietWhenDown
    <3> QED
      BY <3>1 DEF OptInPending, AtStep, Idle
  <2>2. CASE RegisterConfigured
    BY <2>2 DEF RegisterConfigured, OptInsAreOwn, OptInPending, AtStep,
       VolumeFor, OptInIsOwn
  <2> QED
    BY <2>1, <2>2
<1> HIDE DEF insert
<1>7. ASSUME NEW w \in Names
      PROVE  OptInIsOwn(volumes'[w]) /\ OptInIsOwn(file'.volumes[w])
  BY <1>3, <1>4, <1>5 DEF OptInsAreOwn
<1> QED
  BY <1>1, <1>6, <1>7 DEF ExistingDatasetsKept, OptInsAreOwn, OptInIsOwn

\* No deletion of an existing dataset is left behind either.
LEMMA LateRequestsStay ==
    ASSUME TypeOK, OptInsAreOwn, LateRequestsOwn, [Next]_vars
    PROVE  LateRequestsOwn'
<1>1. ASSUME NEW d \in InitialDatasets
      PROVE  ~MayDelete(d)
  BY <1>1 DEF MayDelete, OptInsAreOwn, OptInIsOwn, Registered
<1>2. \A d \in InitialDatasets : ~Doomed(d)'
  BY <1>1, FailuresStep DEF LateRequestsOwn, Doomed
<1>3. ASSUME NEW r \in BackendRequests, late'[r] > 0
      PROVE  r \in failed'
  <2>1. late'[r] > late[r] => r \in failed'
    BY FailuresStep
  <2>2. late \in [BackendRequests -> Nat] /\ late' \in [BackendRequests -> Nat]
    <3>1. TypeOK'
      BY TypeStep
    <3> QED
      BY <3>1 DEF TypeOK, BackendTypeOK
  <2>3. failed \subseteq failed'
    BY FailuresStep
  <2> QED
    BY <1>3, <2>1, <2>2, <2>3 DEF LateRequestsOwn
<1> QED
  BY <1>2, <1>3 DEF LateRequestsOwn

LEMMA ExistingInvariant == Spec => [](ExistingDatasetsKept /\ OptInsAreOwn /\ LateRequestsOwn)
<1> DEFINE Kept == ExistingDatasetsKept /\ OptInsAreOwn /\ LateRequestsOwn
<1>1. Init => Kept
  BY DEF Init, BackendInit, ExistingDatasetsKept, OptInsAreOwn, OptInIsOwn,
     OptInPending, AtStep, Idle, NoVolumes, Memory, LateRequestsOwn, Doomed
<1>2. TypeOK /\ QuietWhenDown /\ Kept /\ [Next]_vars => Kept'
  <2> SUFFICES ASSUME TypeOK, QuietWhenDown, ExistingDatasetsKept,
                      OptInsAreOwn, LateRequestsOwn, [Next]_vars
               PROVE  ExistingDatasetsKept' /\ OptInsAreOwn' /\ LateRequestsOwn'
    OBVIOUS
  <2>1. CASE UNCHANGED vars
    <3>1. ExistingDatasetsKept' /\ OptInsAreOwn'
      BY <2>1 DEF vars, processVars, memoryVars, backendVars, OptInsAreOwn,
         OptInPending, OptInIsOwn, AtStep, VolumeFor, ExistingDatasetsKept
    <3> QED
      BY <3>1, LateRequestsStay
  <2>2. CASE LateExecution
    <3>1. \A d \in datasets \ datasets' : d \notin InitialDatasets
      <4>1. \A d \in datasets \ datasets' : d \in Datasets /\ late[DeletionOf(d)] > 0
        BY <2>2, LateEffects DEF LateExecution, TypeOK, BackendTypeOK
      <4> QED
        BY <4>1, RequestsOfBackend DEF LateRequestsOwn, Doomed
    <3>2. OptInsAreOwn'
      BY <2>2 DEF LateExecution, processVars, memoryVars, OptInsAreOwn,
         OptInPending, OptInIsOwn, AtStep, VolumeFor
    <3> QED
      BY <3>1, <3>2, LateRequestsStay DEF ExistingDatasetsKept
  <2> QED
    BY <2>1, <2>2, RequestKeepsExisting, AdvanceKeepsExisting, ProcessKeepsExisting,
       LateRequestsStay
    DEF Next
<1> QED
  BY <1>1, <1>2, TypeCorrect, QuietInvariant, PTL DEF Spec

\* A dataset that existed before the controller came along is never deleted,
\* whatever clients ask for, whatever fails and however the configuration
\* changes: a volume opts in to deletion only after TrueNAS agreed to create
\* its dataset, and that opt-in follows the volume through memory, state file
\* and restarts (create_volume_inner, delete_volume_inner).
THEOREM ExistingKept == Spec => []ExistingDatasetsKept
BY ExistingInvariant, PTL

-----------------------------------------------------------------------------
(***************************************************************************)
(* What may be removed from TrueNAS                                        *)
(***************************************************************************)
\* Nothing leaves TrueNAS, and no removal is asked for, against the
\* configuration of the process that runs now, and a dataset only goes with a
\* volume that opted in, under every interleaving of the handlers; what else
\* goes is a removal a failed call had asked for (DeletesDataset,
\* delete_snapshot).
THEOREM OnlyAllowedRemovals == Spec => RemovalsAllowed
<1> DEFINE DatasetsGo ==
        \A d \in Datasets : d \in datasets \ datasets' =>
            MayDelete(d) \/ late'[DeletionOf(d)] < late[DeletionOf(d)]
           SnapshotsGo ==
        \A id \in SnapshotIds : id \in zfsSnapshots \ zfsSnapshots' =>
            config.allowSnapshotDelete
            \/ late'[SnapshotDeletionOf(id)] < late[SnapshotDeletionOf(id)]
<1>1. TypeOK /\ [Next]_vars => DatasetsGo /\ SnapshotsGo
  <2> SUFFICES ASSUME TypeOK, [Next]_vars
               PROVE  DatasetsGo /\ SnapshotsGo
    OBVIOUS
  <2>1. ASSUME NEW h \in Handlers, Request(h)
        PROVE  DatasetsGo /\ SnapshotsGo
    <3>1. ASSUME NEW v \in Names, DeleteVolumeAndDataset(h, v)
          PROVE  MayDelete(volumes[v].dataset)
      BY <3>1 DEF DeleteVolumeAndDataset, DeletesDataset, MayDelete
    <3>2. zfsSnapshots \subseteq zfsSnapshots' \/ config.allowSnapshotDelete
      BY <2>1 DEF Request, CreateVolumeFound, CreateVolumeStart,
         DeleteVolumeAbsent, DeleteVolumeKeepDataset, DeleteVolumeAndDataset,
         UnpublishVolume, PublishVolume, CreateSnapshot, DeleteSnapshot,
         CreateZfsSnapshot, SnapshotCreated, DeleteDataset, DatasetDeleted,
         Refused, Fails, backendVars
    <3> QED
      BY <2>1, <3>1, <3>2, RequestDatasets
  <2>2. ASSUME NEW h \in Handlers, Advance(h)
        PROVE  DatasetsGo /\ SnapshotsGo
    BY <2>2 DEF Advance, LookupExisting, AllocateDataset, InsertVolume,
       SaveDelete, SaveSnapshot, ForgetSnapshot, LookupDataset, CreateDataset,
       DatasetCreated, Refused, Fails, backendVars
  <2>3. CASE Start \/ Crash \/ RegisterConfigured \/ StartupFails \/ UNCHANGED vars
    BY <2>3, ProcessFailures
  <2>4. CASE LateExecution
    BY <2>4, LateEffects DEF LateExecution, TypeOK
  <2> QED
    BY <2>1, <2>2, <2>3, <2>4 DEF Next
<1> DEFINE Asked ==
        /\ \A d \in Datasets : late'[DeletionOf(d)] > late[DeletionOf(d)] => MayDelete(d)
        /\ \A id \in SnapshotIds :
              late'[SnapshotDeletionOf(id)] > late[SnapshotDeletionOf(id)]
                 => config.allowSnapshotDelete
<1>2. TypeOK /\ [Next]_vars => Asked
  BY FailuresStep
<1> DEFINE Allowed ==
        /\ \A d \in Datasets :
              LET r == DeletionOf(d)
              IN  /\ late'[r] > late[r] => MayDelete(d)
                  /\ d \in datasets \ datasets' => MayDelete(d) \/ late'[r] < late[r]
        /\ \A id \in SnapshotIds :
              LET r == SnapshotDeletionOf(id)
              IN  /\ late'[r] > late[r] => config.allowSnapshotDelete
                  /\ id \in zfsSnapshots \ zfsSnapshots'
                        => config.allowSnapshotDelete \/ late'[r] < late[r]
<1>3. TypeOK /\ [Next]_vars => Allowed
  BY <1>1, <1>2
<1> QED
  BY <1>3, TypeCorrect, PTL DEF Spec, RemovalsAllowed

-----------------------------------------------------------------------------
(***************************************************************************)
(* Publishes                                                               *)
(***************************************************************************)
\* The assignments are those of the memory.
LEMMA AssignedInMemory ==
    Assigned(Memory) = {a \in Names \X Nodes : assignments[a] # "none"}
BY DEF Assigned, Memory

\* The ways a request changes assignments and publishes.
LEMMA RequestAssignments ==
    ASSUME NEW h \in Handlers, Request(h)
    PROVE  \/ UNCHANGED <<volumes, assignments, published>>
           \/ \E v \in Names : RemoveVolume(v)
           \/ \E v \in Names, n \in Nodes : UnpublishVolume(h, v, n)
           \/ \E v \in Names, n \in Nodes, readOnly \in BOOLEAN, c \in Capabilities :
                 PublishVolume(h, v, n, readOnly, {c})
BY DEF Request, CreateVolumeFound, CreateVolumeStart, DeleteVolumeAbsent,
   DeleteVolumeKeepDataset, DeleteVolumeAndDataset, CreateSnapshot,
   DeleteSnapshot, memoryVars, promiseVars

\* A call that goes on does neither.
LEMMA AdvanceAssignments ==
    ASSUME NEW h \in Handlers, Advance(h)
    PROVE  UNCHANGED <<assignments, published>>
BY DEF Advance, LookupExisting, AllocateDataset, InsertVolume, SaveDelete,
   SaveSnapshot, ForgetSnapshot, memoryVars, promiseVars

\* After a handler's step what is published is assigned in memory, and what is
\* newly published has been saved.
LEMMA HandlerPublishes ==
    ASSUME TypeOK, NEW h \in Handlers, Request(h) \/ Advance(h),
           published \subseteq Assigned(Memory)
    PROVE  /\ (published \subseteq Assigned(Memory))'
           /\ file' = Memory' \/ (file' = file /\ published' \subseteq published)
<1> DEFINE Now == {a \in Names \X Nodes : assignments[a] # "none"}
           Goal == /\ published' \subseteq Now'
                   /\ \/ file' = Memory'
                      \/ file' = file /\ published' \subseteq published
<1>1. assignments \in [Names \X Nodes -> {"none"} \cup AccessPolicies]
  BY DEF TypeOK, Memory, ControllerStates
<1>2. published \subseteq Now
  BY AssignedInMemory
<1>3. file' = file \/ file' = Memory'
  BY RequestFrame, AdvanceFrame DEF HandlerFrame
<1>4. ASSUME UNCHANGED <<assignments, published>>
      PROVE  Goal
  BY <1>2, <1>3, <1>4
<1>5. ASSUME NEW v \in Names, RemoveVolume(v)
      PROVE  Goal
  <2>1. published' \subseteq published
    BY <1>5 DEF RemoveVolume
  <2>2. \A a \in published' : a[1] # v
    BY <1>5 DEF RemoveVolume
  <2>3. \A a \in Names \X Nodes : a[1] # v => assignments'[a] = assignments[a]
    BY <1>5 DEF RemoveVolume
  <2> QED
    BY <1>2, <1>3, <2>1, <2>2, <2>3
<1>6. ASSUME NEW v \in Names, NEW n \in Nodes, UnpublishVolume(h, v, n)
      PROVE  Goal
  <2>1. /\ published' = published \ {<<v, n>>}
        /\ assignments' = [assignments EXCEPT ![<<v, n>>] = "none"]
    BY <1>6 DEF UnpublishVolume
  <2> QED
    BY <1>1, <1>2, <1>3, <2>1
<1>7. ASSUME NEW v \in Names, NEW n \in Nodes, NEW readOnly \in BOOLEAN,
             NEW c \in Capabilities, PublishVolume(h, v, n, readOnly, {c})
      PROVE  Goal
  <2>1. PICK saved \in BOOLEAN :
            /\ Save(saved)
            /\ published' = IF saved THEN published \cup {<<v, n>>} ELSE published
    BY <1>7 DEF PublishVolume
  <2>2. assignments' = [assignments EXCEPT ![<<v, n>>] =
                           IF readOnly THEN "read-only" ELSE volumes[v].access]
    BY <1>7 DEF PublishVolume
  <2>3. volumes[v].access \in AccessPolicies
    BY <1>7, VolumeShape DEF PublishVolume, TypeOK, DatasetVolumes
  <2>4. assignments'[<<v, n>>] # "none"
    BY <1>1, <2>2, <2>3 DEF AccessPolicies
  <2>5. \A a \in Names \X Nodes :
            a # <<v, n>> => assignments'[a] = assignments[a]
    BY <1>1, <2>2
  <2>6. published' \subseteq Now'
    BY <1>2, <2>1, <2>4, <2>5
  <2>7. saved => file' = Memory'
    BY <2>1, SaveOutcome
  <2> QED
    BY <1>3, <2>1, <2>6, <2>7
<1>8. Goal
  BY <1>4, <1>5, <1>6, <1>7, RequestAssignments, AdvanceAssignments
<1>9. Assigned(Memory)' = Now'
  BY DEF Assigned, Memory
<1> QED
  BY <1>8, <1>9

\* A publish that was answered OK survives crashes, failed writes of the state
\* file and concurrent calls: controller_publish_volume saves before it
\* answers, and no handler saves a memory that lacks it.
THEOREM PublishesAreDurable == Spec => []PublishesDurable
<1>1. Init => PublishesDurable
  BY DEF Init, PublishesDurable
<1>2. TypeOK /\ QuietWhenDown /\ PublishesDurable /\ [Next]_vars
         => PublishesDurable'
  <2> SUFFICES ASSUME TypeOK, QuietWhenDown, PublishesDurable, [Next]_vars
               PROVE  PublishesDurable'
    OBVIOUS
  <2>1. ASSUME NEW h \in Handlers, Request(h) \/ Advance(h)
        PROVE  PublishesDurable'
    <3>1. running = TRUE
      BY <2>1, RequestFrame, AdvanceFrame DEF QuietWhenDown, TypeOK
    <3>2. published \subseteq Assigned(Memory) /\ published \subseteq Assigned(file)
      BY <3>1 DEF PublishesDurable
    <3>3. /\ (published \subseteq Assigned(Memory))'
          /\ file' = Memory' \/ (file' = file /\ published' \subseteq published)
      BY <2>1, <3>2, HandlerPublishes
    <3>4. published' \subseteq Assigned(file')
      BY <3>2, <3>3
    <3> QED
      BY <3>3, <3>4 DEF PublishesDurable
  <2>2. CASE Start
    <3>1. Assigned(Memory)' = Assigned(file)
      BY <2>2 DEF Start, Assigned, Memory
    <3> QED
      BY <2>2, <3>1 DEF Start, PublishesDurable, promiseVars
  <2>3. CASE Crash
    BY <2>3 DEF Crash, Die, PublishesDurable, promiseVars
  <2>4. CASE RegisterConfigured
    <3>1. Assigned(Memory)' = Assigned(Memory)
      BY <2>4 DEF RegisterConfigured, Assigned, Memory
    <3>2. published' = published /\ file' = Memory' /\ running
      BY <2>4 DEF RegisterConfigured
    <3> QED
      BY <3>1, <3>2 DEF PublishesDurable
  <2>5. CASE StartupFails
    <3>1. running /\ ~running' /\ published' = published
      BY <2>5 DEF StartupFails, Die
    <3>2. file' = file \/ Assigned(file') = Assigned(Memory)
      BY <2>5 DEF StartupFails, Assigned, Memory
    <3> QED
      BY <3>1, <3>2 DEF PublishesDurable
  <2>6. CASE UNCHANGED vars \/ LateExecution
    BY <2>6 DEF vars, LateExecution, processVars, promiseVars, memoryVars, PublishesDurable,
       Assigned, Memory
  <2> QED
    BY <2>1, <2>2, <2>3, <2>4, <2>5, <2>6 DEF Next
<1> QED
  BY <1>1, <1>2, TypeCorrect, QuietInvariant, PTL DEF Spec

\* The ways a handler that goes on changes the volumes: InsertVolume adds one.
LEMMA AdvanceVolumes ==
    ASSUME TypeOK, NEW h \in Handlers, Advance(h), NEW w \in Names
    PROVE  volumes'[w] = volumes[w] \/ volumes'[w] # NoVolume
<1>1. CASE InsertVolume(h)
  <2> DEFINE r == call[h].request
  <2>1. r \in CreateRequests /\ NamesDataset(r)
    BY <1>1, CallShape DEF InsertVolume, AtStep, TypeOK
  <2>2. VolumeFor(r) # NoVolume
    BY <2>1, RequestedVolume, NoVolumeAssumption DEF TypeOK
  <2>3. volumes' = [volumes EXCEPT ![r.name] = VolumeFor(r)]
    BY <1>1 DEF InsertVolume
  <2> HIDE DEF r
  <2> QED
    BY <2>2, <2>3 DEF TypeOK, Memory, ControllerStates
<1>2. CASE ~InsertVolume(h)
  BY <1>2 DEF Advance, LookupExisting, AllocateDataset, SaveDelete,
     SaveSnapshot, ForgetSnapshot, memoryVars
<1> QED
  BY <1>1, <1>2

\* A handler's step keeps the assignments in memory to registered volumes.
LEMMA HandlerRegistered ==
    ASSUME TypeOK, NEW h \in Handlers, Request(h) \/ Advance(h),
           AssignmentsRegistered(Memory)
    PROVE  AssignmentsRegistered(Memory)'
<1> DEFINE Pairs == Names \X Nodes
           Goal == \A a \in Pairs :
                      assignments'[a] # "none" => volumes'[a[1]] # NoVolume
<1>1. /\ assignments \in [Pairs -> {"none"} \cup AccessPolicies]
      /\ volumes \in [Names -> DatasetVolumes \cup {NoVolume}]
      /\ \A a \in Pairs : a[1] \in Names
  BY DEF TypeOK, Memory, ControllerStates
<1>2. \A a \in Pairs : assignments[a] # "none" => volumes[a[1]] # NoVolume
  BY DEF AssignmentsRegistered, Memory
<1>3. ASSUME Advance(h)
      PROVE  Goal
  BY <1>1, <1>2, <1>3, AdvanceVolumes, AdvanceAssignments
<1>4. ASSUME UNCHANGED <<volumes, assignments>>
      PROVE  Goal
  BY <1>2, <1>4
<1>5. ASSUME NEW v \in Names, RemoveVolume(v)
      PROVE  Goal
  <2>1. /\ volumes' = [volumes EXCEPT ![v] = NoVolume]
        /\ assignments' = [a \in Pairs |->
                              IF a[1] = v THEN "none" ELSE assignments[a]]
    BY <1>5 DEF RemoveVolume
  <2> QED
    BY <1>1, <1>2, <2>1
<1>6. ASSUME NEW v \in Names, NEW n \in Nodes, UnpublishVolume(h, v, n)
      PROVE  Goal
  <2>1. /\ volumes' = volumes
        /\ assignments' = [assignments EXCEPT ![<<v, n>>] = "none"]
    BY <1>6 DEF UnpublishVolume
  <2> QED
    BY <1>1, <1>2, <2>1
<1>7. ASSUME NEW v \in Names, NEW n \in Nodes, NEW readOnly \in BOOLEAN,
             NEW c \in Capabilities, PublishVolume(h, v, n, readOnly, {c})
      PROVE  Goal
  <2>1. volumes[v] # NoVolume /\ volumes' = volumes
    BY <1>7 DEF PublishVolume, Registered
  <2>2. \A a \in Pairs : a # <<v, n>> => assignments'[a] = assignments[a]
    BY <1>1, <1>7 DEF PublishVolume
  <2>3. \A a \in Pairs : a = <<v, n>> => a[1] = v
    OBVIOUS
  <2> QED
    BY <1>2, <2>1, <2>2, <2>3
<1>8. Goal
  BY <1>3, <1>4, <1>5, <1>6, <1>7, RequestAssignments
<1> QED
  BY <1>8 DEF AssignmentsRegistered, Memory

\* A volume that is published to a node is registered, in memory and in the
\* state file that a restarted controller loads: removing a volume takes its
\* assignments along, and no save puts one without its volume on disk.
THEOREM PublishedAreRegistered == Spec => []PublishedVolumesRegistered
<1>1. Init => PublishedVolumesRegistered
  BY DEF Init, PublishedVolumesRegistered, AssignmentsRegistered, Memory,
     NoAssignments
<1>2. TypeOK /\ PublishedVolumesRegistered /\ [Next]_vars
         => PublishedVolumesRegistered'
  <2> SUFFICES ASSUME TypeOK, PublishedVolumesRegistered, [Next]_vars
               PROVE  PublishedVolumesRegistered'
    OBVIOUS
  <2> USE DEF PublishedVolumesRegistered
  <2>1. ASSUME NEW h \in Handlers, Request(h) \/ Advance(h)
        PROVE  PublishedVolumesRegistered'
    <3>1. AssignmentsRegistered(Memory)'
      BY <2>1, HandlerRegistered
    <3>2. file' = file \/ file' = Memory'
      BY <2>1, RequestFrame, AdvanceFrame DEF HandlerFrame
    <3> QED
      BY <3>1, <3>2
  <2>2. CASE Start
    BY <2>2 DEF Start, AssignmentsRegistered, Memory
  <2>3. ASSUME Die
        PROVE  AssignmentsRegistered(Memory)'
    BY <2>3 DEF Die, AssignmentsRegistered, Memory, NoAssignments
  <2>4. CASE Crash
    BY <2>3, <2>4 DEF Crash
  <2> DEFINE c == Head(pending)
             inserted == [volumes EXCEPT ![c.id] = ConfiguredVolume(c)]
             insert == [volumes |-> inserted, assignments |-> assignments,
                        snapshots |-> snapshots]
  <2>5. ASSUME pending # <<>>
        PROVE  AssignmentsRegistered(insert)
    <3>1. c \in ExistingVolumeConfigs
      BY <2>5 DEF TypeOK
    <3>2. ConfiguredVolume(c) # NoVolume
      <4> HIDE DEF c
      <4>1. ConfiguredVolume(c) \in DatasetVolumes
        BY <3>1 DEF ExistingVolumeConfigs, ConfiguredVolume, DatasetVolumes
      <4> QED
        BY <4>1, NoVolumeAssumption
    <3>3. \A w \in Names : inserted[w] = volumes[w] \/ inserted[w] # NoVolume
      <4> HIDE DEF c
      <4> QED
        BY <3>2 DEF TypeOK, Memory, ControllerStates
    <3> HIDE DEF inserted
    <3>4. \A a \in Names \X Nodes : a[1] \in Names
      OBVIOUS
    <3> QED
      BY <3>3, <3>4 DEF AssignmentsRegistered, Memory
  <2>6. CASE RegisterConfigured
    <3>1. Memory' = insert /\ file' = Memory' /\ pending # <<>>
      BY <2>6 DEF RegisterConfigured, Memory
    <3> QED
      BY <2>5, <3>1
  <2>7. CASE StartupFails
    <3>1. Die /\ file' \in {file, insert} /\ pending # <<>>
      BY <2>7 DEF StartupFails
    <3> QED
      BY <2>3, <2>5, <3>1
  <2>8. CASE UNCHANGED vars \/ LateExecution
    BY <2>8 DEF vars, LateExecution, memoryVars, AssignmentsRegistered, Memory
  <2> QED
    BY <2>1, <2>2, <2>4, <2>6, <2>7, <2>8 DEF Next
<1> QED
  BY <1>1, <1>2, TypeCorrect, PTL DEF Spec
=============================================================================
