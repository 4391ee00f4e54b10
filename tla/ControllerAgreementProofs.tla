---------------------- MODULE ControllerAgreementProofs ----------------------
(***************************************************************************)
(* What the controller holds agrees with what it told its clients, with    *)
(* its state file and with TrueNAS.  Each theorem names, as a hypothesis   *)
(* about the constants, the faults, requests or configurations it is not   *)
(* about; everything else is left open.                                    *)
(***************************************************************************)
EXTENDS ControllerProofs, ControllerRefinement

USE DEF NoFault

\* The state file can be written.
Writable == MaxFaults["save"] = 0

\* No configuration allows the controller to delete datasets.
DatasetsStay == \A c \in Configs : ~c.allowDelete

-----------------------------------------------------------------------------
(***************************************************************************)
(* What a step does to volumes, publishes, state file and answers when a   *)
(* write of the state file does not fail                                   *)
(***************************************************************************)
KeepsVolumes ==
    /\ UNCHANGED <<volumes, assignments, promised>>
    /\ file' = file \/ file' = Memory'

AnswersFromMemory(v) ==
    /\ UNCHANGED <<volumes, assignments, file>>
    /\ Tell(v, IF Registered(v) THEN volumes[v].dataset ELSE "absent")

Registers(v, volume) ==
    /\ volumes' = [volumes EXCEPT ![v] = volume]
    /\ UNCHANGED assignments
    /\ file' = Memory'
    /\ Tell(v, volume.dataset) \/ Tell(v, "unknown")

Removes(v) == RemoveVolume(v) /\ file' = Memory' /\ Tell(v, "absent")

\* The volume has left memory, and the state file is yet to follow.
RemovesUnsaved(v) ==
    /\ config.allowDelete
    /\ RemoveVolume(v)
    /\ UNCHANGED file
    /\ Tell(v, "unknown")

SavesRemoval(v) ==
    /\ UNCHANGED <<volumes, assignments>>
    /\ file' = Memory'
    /\ Tell(v, "absent")

Assigns(v, n, access) ==
    /\ access # "none" => Registered(v)
    /\ assignments' = [assignments EXCEPT ![<<v, n>>] = access]
    /\ UNCHANGED <<volumes, promised>>
    /\ file' = Memory'

Deleting(h) == AtStep(h, "save-delete")

\* No write fails, so every write puts the memory into the state file.
LEMMA WritesSucceed ==
    ASSUME Writable, FaultsTypeOK
    PROVE  /\ ~Fault("save")
           /\ \A saved \in BOOLEAN : Save(saved) => saved /\ file' = Memory'
<1>1. ~Fault("save")
  <2>1. "save" \in FaultKinds
    BY FaultKindsAssumption
  <2>2. faults["save"] \in Nat
    BY <2>1 DEF FaultsTypeOK
  <2> QED
    BY <2>2 DEF Writable, Fault
<1> QED
  BY <1>1 DEF Save

\* The moves of a request.
RequestMoves ==
    \/ KeepsVolumes
    \/ \E v \in Names : \/ AnswersFromMemory(v)
                        \/ Removes(v)
                        \/ RemovesUnsaved(v)
    \/ \E v \in Names, n \in Nodes, access \in {"none"} \cup AccessPolicies :
          Assigns(v, n, access)

LEMMA RequestMove ==
    ASSUME TypeOK, Writable, NEW h \in Handlers, Request(h)
    PROVE  RequestMoves
<1>1. ASSUME NEW saved \in BOOLEAN, Save(saved)
      PROVE  saved /\ file' = Memory'
  BY <1>1, WritesSucceed DEF TypeOK
<1>2. ASSUME NEW r \in CreateRequests, CreateVolumeFound(h, r)
      PROVE  RequestMoves
  <2>1. PICK v \in Names : Registered(v) /\ Tell(v, volumes[v].dataset)
    BY <1>2 DEF CreateVolumeFound, MatchesForCreate
  <2>2. AnswersFromMemory(v)
    BY <1>2, <2>1 DEF CreateVolumeFound, AnswersFromMemory, memoryVars
  <2> QED
    BY <2>2 DEF RequestMoves
<1>3. ASSUME NEW r \in CreateRequests, CreateVolumeStart(h, r)
      PROVE  KeepsVolumes
  BY <1>3 DEF CreateVolumeStart, KeepsVolumes, memoryVars, promiseVars
<1>4. ASSUME NEW v \in Names, DeleteVolumeAbsent(h, v)
      PROVE  AnswersFromMemory(v)
  BY <1>4 DEF DeleteVolumeAbsent, AnswersFromMemory, memoryVars
<1>5. ASSUME NEW v \in Names, DeleteVolumeKeepDataset(h, v)
      PROVE  Removes(v)
  BY <1>1, <1>5 DEF DeleteVolumeKeepDataset, Removes
<1>6. ASSUME NEW v \in Names, DeleteVolumeAndDataset(h, v)
      PROVE  RemovesUnsaved(v)
  BY <1>6 DEF DeleteVolumeAndDataset, DeletesDataset, RemovesUnsaved
<1>7. ASSUME NEW v \in Names, NEW n \in Nodes, UnpublishVolume(h, v, n)
      PROVE  Assigns(v, n, "none")
  BY <1>1, <1>7 DEF UnpublishVolume, Assigns
<1>8. ASSUME NEW v \in Names, NEW n \in Nodes, NEW readOnly \in BOOLEAN,
             NEW c \in Capabilities, PublishVolume(h, v, n, readOnly, {c})
      PROVE  \E access \in {"none"} \cup AccessPolicies : Assigns(v, n, access)
  <2> DEFINE access == IF readOnly THEN "read-only" ELSE volumes[v].access
  <2>1. access \in AccessPolicies
    BY <1>8, VolumeShape DEF PublishVolume, DatasetVolumes, AccessPolicies, TypeOK
  <2>2. Assigns(v, n, access)
    BY <1>1, <1>8 DEF PublishVolume, Assigns
  <2> QED
    BY <2>1, <2>2
<1>9. ASSUME NEW v \in Names, NEW s \in SnapshotNames, CreateSnapshot(h, v, s)
      PROVE  KeepsVolumes
  BY <1>9 DEF CreateSnapshot, KeepsVolumes, promiseVars
<1>10. ASSUME NEW id \in SnapshotIds, DeleteSnapshot(h, id)
       PROVE  KeepsVolumes
  BY <1>10 DEF DeleteSnapshot, KeepsVolumes, memoryVars, promiseVars
<1> QED
  BY <1>2, <1>3, <1>4, <1>5, <1>6, <1>7, <1>8, <1>9, <1>10 DEF Request, RequestMoves

\* The moves of a call that goes on, and of the registration of a configured
\* volume.
LEMMA AdvanceMove ==
    ASSUME TypeOK, Writable, NEW h \in Handlers, Advance(h)
    PROVE  \/ KeepsVolumes
           \/ \E v \in Names, volume \in DatasetVolumes : Registers(v, volume)
           \/ \E v \in Names : Deleting(h) /\ SavesRemoval(v)
<1>1. ASSUME NEW saved \in BOOLEAN, Save(saved)
      PROVE  saved /\ file' = Memory'
  BY <1>1, WritesSucceed DEF TypeOK
<1>2. CASE LookupExisting(h) \/ AllocateDataset(h)
  BY <1>2 DEF LookupExisting, AllocateDataset, KeepsVolumes, memoryVars, promiseVars
<1>3. CASE InsertVolume(h)
  <2> DEFINE r == call[h].request
  <2>1. r \in CreateRequests /\ NamesDataset(r)
    BY <1>3, CallShape DEF InsertVolume, AtStep, TypeOK
  <2>2. VolumeFor(r) \in DatasetVolumes
    BY <2>1, RequestedVolume DEF TypeOK
  <2>3. r.name \in Names
    BY <2>1, CreateRequestsAssumption DEF CreateVolumeRequests
  <2>4. VolumeFor(r).dataset = r.dataset
    BY DEF VolumeFor
  <2>5. Registers(r.name, VolumeFor(r))
    BY <1>1, <1>3, <2>4 DEF InsertVolume, Registers
  <2> QED
    BY <2>2, <2>3, <2>5
<1>4. CASE SaveDelete(h)
  <2>1. call[h].volume \in Names /\ Deleting(h)
    BY <1>4, CallShape DEF SaveDelete, Deleting, TypeOK
  <2>2. SavesRemoval(call[h].volume)
    BY <1>1, <1>4 DEF SaveDelete, SavesRemoval, memoryVars
  <2> QED
    BY <2>1, <2>2
<1>5. CASE SaveSnapshot(h) \/ ForgetSnapshot(h)
  BY <1>1, <1>5 DEF SaveSnapshot, ForgetSnapshot, KeepsVolumes, memoryVars, promiseVars
<1> QED
  BY <1>2, <1>3, <1>4, <1>5 DEF Advance

LEMMA ConfiguredMove ==
    ASSUME TypeOK, RegisterConfigured
    PROVE  /\ running /\ UNCHANGED <<running, call, config>>
           /\ \E v \in Names, volume \in DatasetVolumes : Registers(v, volume)
<1> DEFINE c == Head(pending)
<1>1. c \in ExistingVolumeConfigs
  BY DEF RegisterConfigured, TypeOK
<1>2. /\ volumes' = [volumes EXCEPT ![c.id] = ConfiguredVolume(c)]
      /\ UNCHANGED <<assignments, running, call, config>>
      /\ file' = Memory' /\ running
      /\ Tell(c.id, c.dataset)
  BY DEF RegisterConfigured
<1> HIDE DEF c
<1>3. /\ c.id \in Names
      /\ ConfiguredVolume(c) \in DatasetVolumes
      /\ ConfiguredVolume(c).dataset = c.dataset
  BY <1>1 DEF ExistingVolumeConfigs, ConfiguredVolume, DatasetVolumes
<1>4. Registers(c.id, ConfiguredVolume(c))
  BY <1>2, <1>3 DEF Registers
<1> QED
  BY <1>2, <1>3, <1>4

\* A process that ends leaves the state file and the answers.
LEMMA EndMove ==
    ASSUME TypeOK, Writable, Crash \/ StartupFails
    PROVE  running' = FALSE /\ UNCHANGED <<file, promised>>
BY WritesSucceed DEF TypeOK, Crash, StartupFails, Die, promiseVars

-----------------------------------------------------------------------------
(***************************************************************************)
(* Acknowledged creates                                                    *)
(***************************************************************************)
\* What is in memory is in the state file, though not the other way round: a
\* volume leaves memory before its dataset is deleted.
VolumesSaved ==
    running => \A v \in Names : volumes[v] # NoVolume => file.volumes[v] = volumes[v]

StandsFor(state, v, d) == state.volumes[v] # NoVolume /\ state.volumes[v].dataset = d

\* An acknowledged volume is in the state file, and in the memory of a running
\* process.
CreatedHeld ==
    \A v \in Names : promised[v] \in Datasets =>
        /\ StandsFor(file, v, promised[v])
        /\ running => StandsFor(Memory, v, promised[v])

\* The volumes after a move, in memory and in the state file.
LEMMA MovedVolumes ==
    ASSUME TypeOK
    PROVE  /\ Memory.volumes = volumes /\ Memory'.volumes = volumes'
           /\ Memory.assignments = assignments /\ Memory'.assignments = assignments'
           /\ volumes \in [Names -> DatasetVolumes \cup {NoVolume}]
           /\ file.volumes \in [Names -> DatasetVolumes \cup {NoVolume}]
           /\ promised \in [Names -> Datasets \cup {"unknown", "absent"}]
           /\ \A v \in Names : RemoveVolume(v) => volumes' = [volumes EXCEPT ![v] = NoVolume]
BY DEF Memory, TypeOK, ControllerStates, RemoveVolume

LEMMA RequestKeepsCreated ==
    ASSUME TypeOK, running, running', VolumesSaved, CreatedHeld, RequestMoves
    PROVE  VolumesSaved' /\ CreatedHeld'
<1> DEFINE Held(v) == /\ StandsFor(file, v, promised[v])
                      /\ StandsFor(Memory, v, promised[v])
<1> SUFFICES /\ \A v \in Names : volumes'[v] # NoVolume => file'.volumes[v] = volumes'[v]
             /\ \A v \in Names : promised'[v] \in Datasets => Held(v)'
  BY DEF VolumesSaved, CreatedHeld
<1>1. \A v \in Names : volumes[v] # NoVolume => file.volumes[v] = volumes[v]
  BY DEF VolumesSaved
<1>2. \A v \in Names : promised[v] \in Datasets => Held(v)
  BY DEF CreatedHeld
<1> USE MovedVolumes DEF StandsFor
<1>3. CASE KeepsVolumes
  BY <1>1, <1>2, <1>3 DEF KeepsVolumes
<1>4. ASSUME NEW v \in Names, AnswersFromMemory(v)
      PROVE  /\ \A w \in Names : volumes'[w] # NoVolume => file'.volumes[w] = volumes'[w]
             /\ \A w \in Names : promised'[w] \in Datasets => Held(w)'
  BY <1>1, <1>2, <1>4, AnswersAssumption DEF AnswersFromMemory, Tell, Registered
<1>5. ASSUME NEW v \in Names, Removes(v) \/ RemovesUnsaved(v)
      PROVE  /\ \A w \in Names : volumes'[w] # NoVolume => file'.volumes[w] = volumes'[w]
             /\ \A w \in Names : promised'[w] \in Datasets => Held(w)'
  <2>1. /\ promised'[v] \notin Datasets
        /\ \A w \in Names : w # v => promised'[w] = promised[w]
    BY <1>5, AnswersAssumption DEF Removes, RemovesUnsaved, Tell
  <2>2. volumes' = [volumes EXCEPT ![v] = NoVolume] /\ (file' = file \/ file' = Memory')
    BY <1>5 DEF Removes, RemovesUnsaved
  <2>3. /\ volumes'[v] = NoVolume
        /\ \A w \in Names : w # v => volumes'[w] = volumes[w]
    BY <2>2
  <2>4. \A w \in Names : volumes'[w] # NoVolume => file'.volumes[w] = volumes'[w]
    BY <1>1, <2>2, <2>3
  <2>5. ASSUME NEW w \in Names, promised'[w] \in Datasets
        PROVE  Held(w)'
    <3>1. w # v /\ promised'[w] = promised[w] /\ volumes'[w] = volumes[w]
      BY <2>1, <2>3, <2>5
    <3>2. Held(w)
      BY <1>2, <2>5, <3>1
    <3> QED
      BY <2>2, <3>1, <3>2
  <2> QED
    BY <2>4, <2>5
<1>6. ASSUME NEW v \in Names, NEW n \in Nodes, NEW access \in {"none"} \cup AccessPolicies,
             Assigns(v, n, access)
      PROVE  /\ \A w \in Names : volumes'[w] # NoVolume => file'.volumes[w] = volumes'[w]
             /\ \A w \in Names : promised'[w] \in Datasets => Held(w)'
  BY <1>1, <1>2, <1>6 DEF Assigns
<1> QED
  BY <1>3, <1>4, <1>5, <1>6 DEF RequestMoves

\* A volume that is registered is in both places.
LEMMA RegistersCreated ==
    ASSUME TypeOK, running, running', VolumesSaved, CreatedHeld,
           NEW v \in Names, NEW volume \in DatasetVolumes, Registers(v, volume)
    PROVE  VolumesSaved' /\ CreatedHeld'
<1>1. volume # NoVolume /\ volume.dataset \in Datasets
  BY NoVolumeAssumption DEF DatasetVolumes
<1>2. /\ volumes'[v] = volume
      /\ \A w \in Names : w # v => volumes'[w] = volumes[w]
      /\ file'.volumes = volumes' /\ Memory'.volumes = volumes'
  BY MovedVolumes DEF Registers
<1>3. VolumesSaved'
  BY <1>2 DEF VolumesSaved
<1>4. ASSUME NEW w \in Names, promised'[w] \in Datasets
      PROVE  StandsFor(Memory, w, promised[w])'
  <2>1. CASE w = v
    <3>1. promised'[v] \in {volume.dataset, "unknown"}
      BY MovedVolumes DEF Registers, Tell
    <3>2. promised'[v] = volume.dataset
      BY <1>4, <2>1, <3>1, AnswersAssumption
    <3> QED
      BY <1>1, <1>2, <2>1, <3>2 DEF StandsFor
  <2>2. CASE w # v
    <3>1. promised'[w] = promised[w]
      BY <2>2, MovedVolumes DEF Registers, Tell
    <3> QED
      BY <1>2, <1>4, <2>2, <3>1, MovedVolumes DEF StandsFor, CreatedHeld
  <2> QED
    BY <2>1, <2>2
<1>5. CreatedHeld'
  BY <1>2, <1>4 DEF CreatedHeld, StandsFor
<1> QED
  BY <1>3, <1>5

\* As long as the state file can be written, a volume whose creation was
\* acknowledged is never lost, through every interleaving, TrueNAS error, crash
\* and configuration: create_volume_inner saves before it answers, an answer
\* from memory is about a volume that was saved, and a delete that fails
\* half way takes the acknowledgement back before it removes anything.
THEOREM CreatedAreKept ==
    ASSUME Writable
    PROVE  Spec => []CreatedVolumesKept
<1> DEFINE Inv == VolumesSaved /\ CreatedHeld
<1>1. Init => Inv
  BY AnswersAssumption DEF Init, VolumesSaved, CreatedHeld, NoVolumes
<1>2. TypeOK /\ QuietWhenDown /\ Inv /\ [Next]_vars => Inv'
  <2> SUFFICES ASSUME TypeOK, QuietWhenDown, VolumesSaved, CreatedHeld, [Next]_vars
               PROVE  VolumesSaved' /\ CreatedHeld'
    OBVIOUS
  <2>1. ASSUME NEW h \in Handlers, Request(h)
        PROVE  VolumesSaved' /\ CreatedHeld'
    <3>1. running = TRUE /\ running' = running
      BY <2>1, RequestFrame DEF HandlerFrame, processVars
    <3> QED
      BY <2>1, <3>1, RequestMove, RequestKeepsCreated
  <2>2. ASSUME NEW h \in Handlers, Advance(h)
        PROVE  VolumesSaved' /\ CreatedHeld'
    <3>1. running /\ running'
      BY <2>2, AdvanceFrame DEF HandlerFrame, processVars, QuietWhenDown
    <3>2. CASE KeepsVolumes
      BY <3>1, <3>2, RequestKeepsCreated DEF RequestMoves
    <3>3. ASSUME NEW v \in Names, SavesRemoval(v)
          PROVE  VolumesSaved' /\ CreatedHeld'
      BY <3>1, <3>3, MovedVolumes, AnswersAssumption
      DEF SavesRemoval, Tell, VolumesSaved, CreatedHeld, StandsFor
    <3> QED
      BY <2>2, <3>1, <3>2, <3>3, AdvanceMove, RegistersCreated
  <2>3. CASE Start
    <3>1. volumes' = file.volumes /\ UNCHANGED <<file, promised>>
      BY <2>3 DEF Start, promiseVars
    <3> QED
      BY <3>1, MovedVolumes DEF VolumesSaved, CreatedHeld, StandsFor
  <2>4. CASE Crash \/ StartupFails
    BY <2>4, EndMove DEF VolumesSaved, CreatedHeld, StandsFor
  <2>5. CASE RegisterConfigured
    BY <2>5, ConfiguredMove, RegistersCreated
  <2>6. CASE UNCHANGED vars \/ LateExecution
    BY <2>6 DEF vars, LateExecution, processVars, memoryVars, promiseVars, VolumesSaved, CreatedHeld,
       StandsFor, Memory
  <2> QED
    BY <2>1, <2>2, <2>3, <2>4, <2>5, <2>6 DEF Next
<1>3. TypeOK /\ Inv => CreatedVolumesKept
  <2> SUFFICES ASSUME TypeOK, CreatedHeld, running, NEW v \in Names, promised[v] \in Datasets
               PROVE  Keeps(Memory, v)
    BY DEF CreatedVolumesKept
  <2>1. promised[v] # "unknown" /\ promised[v] # "absent"
    BY AnswersAssumption
  <2> QED
    BY <2>1 DEF CreatedHeld, StandsFor, Keeps
<1> QED
  BY <1>1, <1>2, <1>3, TypeCorrect, QuietInvariant, PTL DEF Spec

-----------------------------------------------------------------------------
(***************************************************************************)
(* The durable registry                                                    *)
(***************************************************************************)
\* The volumes and publishes of a running process are those of the state file.
FileCurrent == running => file.volumes = volumes /\ file.assignments = assignments

NoDeletions == \A h \in Handlers : ~Deleting(h)

AbsentHeld == \A v \in Names : promised[v] = "absent" => file.volumes[v] = NoVolume

RegistryInv == FileCurrent /\ NoDeletions /\ AbsentHeld

\* The registry's view of the state file.
LEMMA KnownVolumes ==
    ASSUME TypeOK
    PROVE  /\ KnownInFile = [v \in Names |-> IF file.volumes[v] = NoVolume
                                             THEN NoDataset ELSE file.volumes[v].dataset]
           /\ \A v \in Names : \/ file.volumes[v] = NoVolume /\ KnownInFile[v] = NoDataset
                               \/ /\ file.volumes[v] \in DatasetVolumes
                                  /\ file.volumes[v] # NoVolume
                                  /\ KnownInFile[v] = file.volumes[v].dataset
                                  /\ KnownInFile[v] \in Datasets
                                  /\ KnownInFile[v] # NoDataset
BY NoDatasetAssumption, NoVolumeAssumption
DEF KnownInFile, TypeOK, ControllerStates, DatasetVolumes

\* A move of a running process is a step of the registry, or changes nothing
\* of it.
LEMMA KeepsRefines ==
    ASSUME TypeOK, FileCurrent, running, KeepsVolumes
    PROVE  /\ UNCHANGED Registry!vars
           /\ file'.volumes = volumes' /\ file'.assignments = assignments'
<1>1. file'.volumes = file.volumes /\ file'.assignments = file.assignments
  BY MovedVolumes DEF KeepsVolumes, FileCurrent
<1>2. KnownInFile' = KnownInFile /\ Assigned(file') = Assigned(file)
  BY <1>1 DEF KnownInFile, Assigned
<1> QED
  BY <1>1, <1>2 DEF Registry!vars, KeepsVolumes, FileCurrent

LEMMA AnswerRefines ==
    ASSUME TypeOK, FileCurrent, running, NEW v \in Names, AnswersFromMemory(v)
    PROVE  /\ Registry!Answer(v)
           /\ file'.volumes = volumes' /\ file'.assignments = assignments'
<1>1. file' = file /\ UNCHANGED <<volumes, assignments>>
  BY DEF AnswersFromMemory
<1>2. KnownInFile' = KnownInFile /\ Assigned(file') = Assigned(file)
  BY <1>1 DEF KnownInFile, Assigned
<1>3. Tell(v, IF KnownInFile[v] = NoDataset THEN "absent" ELSE KnownInFile[v])
  BY KnownVolumes DEF AnswersFromMemory, Registered, FileCurrent
<1> QED
  BY <1>1, <1>2, <1>3 DEF Registry!Answer, Registry!Tell, Registry!Absent, Tell, FileCurrent

LEMMA RegisterRefines ==
    ASSUME TypeOK, FileCurrent, running, NEW v \in Names, NEW volume \in DatasetVolumes,
           Registers(v, volume)
    PROVE  /\ Registry!Register(v, volume.dataset)
           /\ file'.volumes = volumes' /\ file'.assignments = assignments'
<1>1. /\ volumes' = [volumes EXCEPT ![v] = volume]
      /\ file'.volumes = volumes'
      /\ file'.assignments = assignments' /\ assignments' = assignments
  BY MovedVolumes DEF Registers
<1>2. Assigned(file') = Assigned(file)
  BY <1>1 DEF Assigned, FileCurrent
<1>3. volume # NoVolume
  BY NoVolumeAssumption
<1>4. KnownInFile' = [KnownInFile EXCEPT ![v] = volume.dataset]
  <2>1. KnownInFile' = [w \in Names |-> IF volumes'[w] = NoVolume
                                        THEN NoDataset ELSE volumes'[w].dataset]
    BY <1>1 DEF KnownInFile
  <2>2. KnownInFile = [w \in Names |-> IF volumes[w] = NoVolume
                                       THEN NoDataset ELSE volumes[w].dataset]
    BY DEF KnownInFile, FileCurrent
  <2>3. volumes'[v] = volume /\ \A w \in Names : w # v => volumes'[w] = volumes[w]
    BY <1>1, MovedVolumes
  <2> QED
    BY <1>3, <2>1, <2>2, <2>3
<1>5. Tell(v, volume.dataset) \/ Tell(v, "unknown")
  BY DEF Registers
<1> QED
  BY <1>1, <1>2, <1>4, <1>5 DEF Registry!Register, Registry!Tell, Registry!Unknown, Tell

LEMMA RemoveRefines ==
    ASSUME TypeOK, FileCurrent, running, NEW v \in Names, Removes(v)
    PROVE  /\ Registry!Remove(v)
           /\ file'.volumes = volumes' /\ file'.assignments = assignments'
<1>1. /\ volumes' = [volumes EXCEPT ![v] = NoVolume]
      /\ assignments' = [a \in Names \X Nodes |->
                            IF a[1] = v THEN "none" ELSE assignments[a]]
      /\ file'.volumes = volumes' /\ file'.assignments = assignments'
  BY MovedVolumes DEF Removes, RemoveVolume
<1>2. KnownInFile' = [KnownInFile EXCEPT ![v] = NoDataset]
  <2>1. KnownInFile' = [w \in Names |-> IF volumes'[w] = NoVolume
                                        THEN NoDataset ELSE volumes'[w].dataset]
    BY <1>1 DEF KnownInFile
  <2>2. KnownInFile = [w \in Names |-> IF volumes[w] = NoVolume
                                       THEN NoDataset ELSE volumes[w].dataset]
    BY DEF KnownInFile, FileCurrent
  <2>3. volumes'[v] = NoVolume /\ \A w \in Names : w # v => volumes'[w] = volumes[w]
    BY <1>1, MovedVolumes
  <2> QED
    BY <2>1, <2>2, <2>3
<1>3. Assigned(file') = {p \in Assigned(file) : p[1] # v}
  <2>1. \A p \in Names \X Nodes :
           assignments'[p] # "none" <=> (p[1] # v /\ assignments[p] # "none")
    BY <1>1
  <2> QED
    BY <1>1, <2>1 DEF Assigned, FileCurrent
<1>4. Tell(v, "absent")
  BY DEF Removes
<1> QED
  BY <1>1, <1>2, <1>3, <1>4 DEF Registry!Remove, Registry!Tell, Registry!Absent, Tell

LEMMA AssignRefines ==
    ASSUME TypeOK, FileCurrent, running, NEW v \in Names, NEW n \in Nodes,
           NEW access \in {"none"} \cup AccessPolicies, Assigns(v, n, access)
    PROVE  /\ Registry!Attach(v, n) \/ Registry!Detach(v, n)
           /\ file'.volumes = volumes' /\ file'.assignments = assignments'
<1>1. /\ volumes' = volumes /\ promised' = promised
      /\ assignments' = [assignments EXCEPT ![<<v, n>>] = access]
      /\ file'.volumes = volumes' /\ file'.assignments = assignments'
  BY MovedVolumes DEF Assigns
<1>2. KnownInFile' = KnownInFile
  BY <1>1 DEF KnownInFile, FileCurrent
<1>3. /\ assignments'[<<v, n>>] = access
      /\ \A p \in Names \X Nodes : p # <<v, n>> => assignments'[p] = assignments[p]
  BY <1>1 DEF TypeOK, Memory, ControllerStates
<1>4. /\ Assigned(file') = {p \in Names \X Nodes : assignments'[p] # "none"}
      /\ Assigned(file) = {p \in Names \X Nodes : assignments[p] # "none"}
  BY <1>1 DEF Assigned, FileCurrent
<1>5. CASE access = "none"
  <2>1. Assigned(file') = Assigned(file) \ {<<v, n>>}
    BY <1>3, <1>4, <1>5
  <2> QED
    BY <1>1, <1>2, <2>1 DEF Registry!Detach
<1>6. CASE access # "none"
  <2>1. Assigned(file') = Assigned(file) \cup {<<v, n>>}
    BY <1>3, <1>4, <1>6
  <2>2. KnownInFile[v] # NoDataset
    BY <1>6, KnownVolumes DEF Assigns, Registered, FileCurrent
  <2> QED
    BY <1>1, <1>2, <2>1, <2>2 DEF Registry!Attach
<1> QED
  BY <1>1, <1>5, <1>6

\* A dataset that stays is not about to leave the state file either.
LEMMA NoDeletionBegins ==
    ASSUME TypeOK, DatasetsStay, NoDeletions, NEW h \in Handlers, Request(h) \/ Advance(h)
    PROVE  NoDeletions'
<1>1. ~config.allowDelete
  BY DEF TypeOK, DatasetsStay
<1>2. ASSUME NEW next, Continue(h, next) \/ UNCHANGED call \/ Return(h), next.step # "save-delete"
      PROVE  NoDeletions'
  <2>1. call \in [Handlers -> Calls]
    BY DEF TypeOK
  <2>2. \A g \in Handlers : call'[g] = call[g] \/ call'[g] = next \/ call'[g] = Idle
    BY <1>2, <2>1 DEF Continue, Return
  <2>3. Idle.step # "save-delete"
    BY DEF Idle
  <2> QED
    BY <1>2, <2>2, <2>3 DEF NoDeletions, Deleting, AtStep
<1>3. Idle.step # "save-delete"
  BY DEF Idle
<1>4. CASE Request(h)
  <2>1. \A v \in Names : ~DeleteVolumeAndDataset(h, v)
    BY <1>1 DEF DeleteVolumeAndDataset, DeletesDataset
  <2>2. ASSUME NEW r, CreateVolumeStart(h, r)
        PROVE  NoDeletions'
    <3>1. \/ Continue(h, [step |-> "lookup", request |-> r])
          \/ Continue(h, [step |-> "allocate", request |-> r])
      BY <2>2 DEF CreateVolumeStart
    <3>2. /\ [step |-> "lookup", request |-> r].step = "lookup"
          /\ [step |-> "allocate", request |-> r].step = "allocate"
      OBVIOUS
    <3> QED
      BY <1>2, <3>1, <3>2
  <2>3. ASSUME NEW v \in Names, NEW s \in SnapshotNames, CreateSnapshot(h, v, s)
        PROVE  NoDeletions'
    <3>1. \E id : Continue(h, [step |-> "save-snapshot", id |-> id]) \/ UNCHANGED call
      BY <2>3 DEF CreateSnapshot
    <3>2. \A id : [step |-> "save-snapshot", id |-> id].step = "save-snapshot"
      OBVIOUS
    <3> QED
      BY <1>2, <3>1, <3>2
  <2>4. ASSUME NEW id \in SnapshotIds, DeleteSnapshot(h, id)
        PROVE  NoDeletions'
    <3>1. Continue(h, [step |-> "forget-snapshot", id |-> id]) \/ UNCHANGED call
      BY <2>4 DEF DeleteSnapshot
    <3>2. [step |-> "forget-snapshot", id |-> id].step = "forget-snapshot"
      OBVIOUS
    <3> QED
      BY <1>2, <3>1, <3>2
  <2>5. CASE UNCHANGED call
    BY <1>2, <1>3, <2>5
  <2> QED
    BY <1>4, <2>1, <2>2, <2>3, <2>4, <2>5 DEF Request, CreateVolumeFound, DeleteVolumeAbsent,
       DeleteVolumeKeepDataset, UnpublishVolume, PublishVolume
<1>5. CASE Advance(h)
  <2>1. InsertNext(h) \/ Return(h)
    BY <1>5 DEF Advance, LookupExisting, AllocateDataset, InsertVolume, SaveDelete,
       SaveSnapshot, ForgetSnapshot
  <2>2. [step |-> "insert", request |-> call[h].request].step = "insert"
    OBVIOUS
  <2> QED
    BY <1>2, <1>3, <2>1, <2>2 DEF InsertNext
<1> QED
  BY <1>4, <1>5

\* An answer or a move keeps what was said to be absent absent.
LEMMA AbsentKept ==
    ASSUME TypeOK, FileCurrent, AbsentHeld, running,
           \/ KeepsVolumes
           \/ \E v \in Names : AnswersFromMemory(v) \/ Removes(v)
           \/ \E v \in Names, volume \in DatasetVolumes : Registers(v, volume)
           \/ \E v \in Names, n \in Nodes, access \in {"none"} \cup AccessPolicies :
                 Assigns(v, n, access)
    PROVE  AbsentHeld'
<1>1. \A v \in Names : promised[v] = "absent" => volumes[v] = NoVolume
  BY DEF AbsentHeld, FileCurrent
<1>2. CASE KeepsVolumes
  BY <1>1, <1>2, KeepsRefines DEF KeepsVolumes, AbsentHeld
<1>3. ASSUME NEW v \in Names, AnswersFromMemory(v)
      PROVE  AbsentHeld'
  <2>1. file'.volumes = volumes' /\ volumes' = volumes
    BY <1>3, AnswerRefines DEF AnswersFromMemory
  <2>2. \A w \in Names : w # v => promised'[w] = promised[w]
    BY <1>3, MovedVolumes DEF AnswersFromMemory, Tell
  <2>3. promised'[v] = "absent" => volumes[v] = NoVolume
    <3>1. Registered(v) => volumes[v].dataset # "absent"
      BY VolumeShape, AnswersAssumption DEF TypeOK, DatasetVolumes
    <3>2. promised'[v] = IF Registered(v) THEN volumes[v].dataset ELSE "absent"
      BY <1>3, MovedVolumes DEF AnswersFromMemory, Tell
    <3> QED
      BY <3>1, <3>2 DEF Registered
  <2> QED
    BY <1>1, <2>1, <2>2, <2>3 DEF AbsentHeld
<1>4. ASSUME NEW v \in Names, Removes(v)
      PROVE  AbsentHeld'
  <2>1. file'.volumes = volumes' /\ volumes' = [volumes EXCEPT ![v] = NoVolume]
    BY <1>4, MovedVolumes DEF Removes
  <2>2. \A w \in Names : w # v => promised'[w] = promised[w]
    BY <1>4, MovedVolumes DEF Removes, Tell
  <2> QED
    BY <1>1, <2>1, <2>2, MovedVolumes DEF AbsentHeld
<1>5. ASSUME NEW v \in Names, NEW volume \in DatasetVolumes, Registers(v, volume)
      PROVE  AbsentHeld'
  <2>1. file'.volumes = volumes' /\ volumes' = [volumes EXCEPT ![v] = volume]
    BY <1>5, MovedVolumes DEF Registers
  <2>2. \A w \in Names : w # v => promised'[w] = promised[w]
    BY <1>5, MovedVolumes DEF Registers, Tell
  <2>3. promised'[v] # "absent"
    BY <1>5, MovedVolumes, AnswersAssumption DEF Registers, Tell, DatasetVolumes
  <2> QED
    BY <1>1, <2>1, <2>2, <2>3, MovedVolumes DEF AbsentHeld
<1>6. ASSUME NEW v \in Names, NEW n \in Nodes, NEW access \in {"none"} \cup AccessPolicies,
             Assigns(v, n, access)
      PROVE  AbsentHeld'
  <2>1. file'.volumes = volumes' /\ volumes' = volumes /\ promised' = promised
    BY <1>6, AssignRefines DEF Assigns
  <2> QED
    BY <1>1, <2>1 DEF AbsentHeld
<1> QED
  BY <1>2, <1>3, <1>4, <1>5, <1>6

\* A handler's step keeps memory and state file alike and is a step of the
\* registry.
LEMMA HandlerRefines ==
    ASSUME TypeOK, Writable, DatasetsStay, RegistryInv, running,
           NEW h \in Handlers, Request(h) \/ Advance(h)
    PROVE  RegistryInv' /\ [Registry!Next]_Registry!vars
<1> USE DEF RegistryInv
<1>1. \/ KeepsVolumes
      \/ \E v \in Names : AnswersFromMemory(v) \/ Removes(v)
      \/ \E v \in Names, volume \in DatasetVolumes : Registers(v, volume)
      \/ \E v \in Names, n \in Nodes, access \in {"none"} \cup AccessPolicies :
            Assigns(v, n, access)
  <2>1. \A v \in Names : ~RemovesUnsaved(v)
    BY DEF RemovesUnsaved, DatasetsStay, TypeOK
  <2>2. ~Deleting(h)
    BY DEF NoDeletions
  <2> QED
    BY <2>1, <2>2, RequestMove, AdvanceMove DEF RequestMoves
<1>2. NoDeletions'
  BY NoDeletionBegins
<1>3. AbsentHeld'
  BY <1>1, AbsentKept
<1>4. /\ file'.volumes = volumes' /\ file'.assignments = assignments'
      /\ [Registry!Next]_Registry!vars
  BY <1>1, KeepsRefines, AnswerRefines, RegisterRefines, RemoveRefines, AssignRefines
  DEF Registry!Next, DatasetVolumes
<1> QED
  BY <1>2, <1>3, <1>4 DEF FileCurrent

LEMMA RegistryStep ==
    ASSUME TypeOK, QuietWhenDown, Writable, DatasetsStay, RegistryInv, [Next]_vars
    PROVE  RegistryInv' /\ [Registry!Next]_Registry!vars
<1> USE DEF RegistryInv
<1>1. ASSUME NEW h \in Handlers, Request(h) \/ Advance(h)
      PROVE  RegistryInv' /\ [Registry!Next]_Registry!vars
  <2>1. running
    BY <1>1, RequestFrame, AdvanceFrame DEF QuietWhenDown
  <2> QED
    BY <1>1, <2>1, HandlerRefines
<1>2. ASSUME UNCHANGED <<file, promised>>
      PROVE  AbsentHeld' /\ UNCHANGED Registry!vars
  BY <1>2 DEF AbsentHeld, Registry!vars, KnownInFile, Assigned
<1>3. CASE Start
  <2>1. /\ UNCHANGED <<file, promised, call>>
        /\ volumes' = file.volumes /\ assignments' = file.assignments
    BY <1>3 DEF Start, promiseVars
  <2> QED
    BY <1>2, <2>1 DEF FileCurrent, NoDeletions, Deleting, AtStep
<1>4. CASE Crash \/ StartupFails
  <2>1. UNCHANGED <<file, promised>> /\ running' = FALSE
    BY <1>4, EndMove
  <2>2. Die
    BY <1>4 DEF Crash, StartupFails
  <2>3. \A h \in Handlers : call'[h].step = "idle"
    BY <2>2 DEF Die, Idle
  <2>4. NoDeletions'
    BY <2>3 DEF NoDeletions, Deleting, AtStep
  <2> QED
    BY <1>2, <2>1, <2>4 DEF FileCurrent
<1>5. CASE RegisterConfigured
  <2>1. PICK v \in Names, volume \in DatasetVolumes : Registers(v, volume)
    BY <1>5, ConfiguredMove
  <2>2. running /\ UNCHANGED call
    BY <1>5, ConfiguredMove
  <2>3. /\ Registry!Register(v, volume.dataset) /\ volume.dataset \in Datasets
        /\ file'.volumes = volumes' /\ file'.assignments = assignments'
    BY <2>1, <2>2, RegisterRefines DEF DatasetVolumes
  <2>4. AbsentHeld'
    BY <2>1, <2>2, AbsentKept
  <2> QED
    BY <2>2, <2>3, <2>4 DEF FileCurrent, NoDeletions, Deleting, AtStep, Registry!Next
<1>6. CASE UNCHANGED vars \/ LateExecution
  BY <1>2, <1>6 DEF vars, LateExecution, processVars, memoryVars, promiseVars, FileCurrent, NoDeletions,
     Deleting, AtStep
<1> QED
  BY <1>1, <1>3, <1>4, <1>5, <1>6 DEF Next

LEMMA RegistryInitially == Init => RegistryInv /\ Registry!Init
<1> SUFFICES ASSUME Init PROVE RegistryInv /\ Registry!Init
  OBVIOUS
<1>1. /\ running = FALSE /\ promised = [v \in Names |-> "unknown"]
      /\ \A h \in Handlers : call[h].step = "idle"
      /\ file.volumes = NoVolumes /\ file.assignments = NoAssignments
  BY DEF Init, Idle, Memory
<1>2. KnownInFile = [v \in Names |-> NoDataset] /\ Assigned(file) = {}
  BY <1>1 DEF KnownInFile, Assigned, NoVolumes, NoAssignments
<1> QED
  BY <1>1, <1>2 DEF RegistryInv, FileCurrent, NoDeletions, Deleting, AtStep, AbsentHeld,
     Registry!Init, Registry!Unknown

\* When the state file can be written and datasets stay, the controller is the
\* durable registry of VolumeRegistry: every step of every interleaving, and
\* every crash, failed startup, restart and TrueNAS error, is one step of the
\* registry as the state file shows it, or leaves it as it is.
THEOREM RegistryImplemented ==
    ASSUME Writable, DatasetsStay
    PROVE  Spec => ImplementsRegistry
<1>1. TypeOK /\ QuietWhenDown /\ RegistryInv /\ [Next]_vars
         => RegistryInv' /\ [Registry!Next]_Registry!vars
  BY RegistryStep
<1> QED
  BY <1>1, RegistryInitially, TypeCorrect, QuietInvariant, PTL
  DEF Spec, ImplementsRegistry, Registry!Spec

\* What the last answer about a volume said is what a running controller
\* holds, also after crashes and restarts, under the same two conditions: a
\* volume is created, or is gone, when its caller was told so.
THEOREM PromisesAreKept ==
    ASSUME Writable, DatasetsStay
    PROVE  Spec => []PromisesKept
<1>1. TypeOK /\ QuietWhenDown /\ RegistryInv /\ [Next]_vars => RegistryInv'
  BY RegistryStep
<1>2. TypeOK /\ RegistryInv /\ CreatedVolumesKept => PromisesKept
  <2> SUFFICES ASSUME TypeOK, RegistryInv, CreatedVolumesKept, running, NEW v \in Names
               PROVE  Keeps(Memory, v)
    BY DEF PromisesKept
  <2>1. promised[v] \in Datasets \cup {"unknown", "absent"}
    BY MovedVolumes
  <2>2. CASE promised[v] \in Datasets
    BY <2>2 DEF CreatedVolumesKept
  <2>3. CASE promised[v] = "absent"
    <3>1. Memory.volumes[v] = NoVolume
      BY <2>3, MovedVolumes DEF RegistryInv, AbsentHeld, FileCurrent
    <3>2. promised[v] # "unknown"
      BY <2>3
    <3> QED
      BY <2>3, <3>1, <3>2 DEF Keeps
  <2>4. CASE promised[v] = "unknown"
    BY <2>4 DEF Keeps
  <2> QED
    BY <2>1, <2>2, <2>3, <2>4
<1> QED
  BY <1>1, <1>2, RegistryInitially, TypeCorrect, QuietInvariant, CreatedAreKept, PTL DEF Spec

-----------------------------------------------------------------------------
(***************************************************************************)
(* Where volumes come from                                                 *)
(***************************************************************************)
\* Calls do not overlap.
OneHandler == \A g, h \in Handlers : g = h

\* Some configuration registers the volume e at startup.
Configured(e) == \E c \in Configs : \E i \in 1..Len(c.existing) : e = c.existing[i]

\* A client may ask for dataset d under the name v, or a configuration does.
Claimed(v, d) ==
    \/ \E r \in CreateRequests : NamesDataset(r) /\ r.name = v /\ r.dataset = d
    \/ \E e \in ExistingVolumeConfigs : Configured(e) /\ e.id = v /\ e.dataset = d

\* Every volume stands for a dataset that somebody asked for under its name.
Sourced(vols) == \A v \in Names : vols[v] # NoVolume => Claimed(v, vols[v].dataset)

PendingConfigured == \A i \in 1..Len(pending) : Configured(pending[i])

VolumesSourced == Sourced(volumes) /\ Sourced(file.volumes) /\ PendingConfigured

\* Calls are in flight only while the controller serves.
QuietUntilServing == Serving \/ \A h \in Handlers : call[h] = Idle

\* What a handler inserts.
LEMMA InsertFacts ==
    ASSUME TypeOK, NEW h \in Handlers, InsertVolume(h), NEW r, r = call[h].request
    PROVE  /\ r \in CreateRequests /\ NamesDataset(r)
           /\ r.name \in Names /\ r.dataset \in Datasets
           /\ VolumeFor(r) # NoVolume /\ VolumeFor(r).dataset = r.dataset
           /\ volumes'[r.name] = VolumeFor(r)
           /\ \A w \in Names : w # r.name => volumes'[w] = volumes[w]
           /\ call'[h] = Idle
           /\ UNCHANGED <<snapshots, backendVars, processVars>>
<1>1. r \in CreateRequests /\ NamesDataset(r)
  BY CallShape DEF InsertVolume, AtStep, TypeOK
<1>2. r \in CreateVolumeRequests
  BY <1>1, CreateRequestsAssumption
<1>3. r.name \in Names /\ r.dataset \in Datasets
  BY <1>1, <1>2 DEF CreateVolumeRequests, NamesDataset
<1>4. VolumeFor(r) # NoVolume
  BY <1>1, RequestedVolume, NoVolumeAssumption DEF TypeOK
<1>5. VolumeFor(r).dataset = r.dataset
  BY DEF VolumeFor
<1>6. volumes' = [volumes EXCEPT ![r.name] = VolumeFor(r)]
  BY DEF InsertVolume
<1>7. call'[h] = Idle
  BY DEF InsertVolume, Return, TypeOK
<1>8. UNCHANGED <<snapshots, backendVars, processVars>>
  BY DEF InsertVolume
<1> QED
  BY <1>1, <1>3, <1>4, <1>5, <1>6, <1>7, <1>8, MovedVolumes

\* Every other step of a call leaves the volumes.
LEMMA AdvanceKeepsVolumes ==
    ASSUME NEW h \in Handlers, Advance(h), ~InsertVolume(h)
    PROVE  UNCHANGED volumes
BY DEF Advance, LookupExisting, AllocateDataset, SaveDelete, SaveSnapshot,
   ForgetSnapshot, memoryVars

\* The volumes with the next configured one among them.
WithConfigured ==
    [volumes EXCEPT ![Head(pending).id] = ConfiguredVolume(Head(pending))]

LEMMA ConfiguredFacts ==
    ASSUME TypeOK, RegisterConfigured \/ StartupFails, NEW e, e = Head(pending)
    PROVE  /\ e \in ExistingVolumeConfigs
           /\ PendingConfigured => Configured(e)
           /\ e.id \in Names /\ e.dataset \in Datasets
           /\ ConfiguredVolume(e) # NoVolume
           /\ ConfiguredVolume(e).dataset = e.dataset
           /\ ~ConfiguredVolume(e).deleteOnDelete
           /\ WithConfigured[e.id] = ConfiguredVolume(e)
           /\ \A w \in Names : w # e.id => WithConfigured[w] = volumes[w]
           /\ ~Serving
           /\ UNCHANGED backendVars
<1>1. pending # <<>> /\ pending \in Seq(ExistingVolumeConfigs)
  BY DEF RegisterConfigured, StartupFails, TypeOK
<1>2. e \in ExistingVolumeConfigs /\ e = pending[1] /\ 1 \in 1..Len(pending)
  BY <1>1
<1>3. PendingConfigured => Configured(e)
  BY <1>2 DEF PendingConfigured
<1>4. /\ e.id \in Names /\ e.dataset \in Datasets
      /\ ConfiguredVolume(e) \in DatasetVolumes
      /\ ConfiguredVolume(e).dataset = e.dataset
      /\ ~ConfiguredVolume(e).deleteOnDelete
  BY <1>2 DEF ExistingVolumeConfigs, ConfiguredVolume, DatasetVolumes
<1>5. ConfiguredVolume(e) # NoVolume
  BY <1>4, NoVolumeAssumption
<1>6. /\ WithConfigured[e.id] = ConfiguredVolume(e)
      /\ \A w \in Names : w # e.id => WithConfigured[w] = volumes[w]
  BY <1>4, MovedVolumes DEF WithConfigured
<1>7. UNCHANGED backendVars
  BY DEF RegisterConfigured, StartupFails, LookupDataset
<1>8. ~Serving
  BY <1>1 DEF Serving
<1> QED
  BY <1>2, <1>3, <1>4, <1>5, <1>6, <1>7, <1>8

\* Volumes and state file after a step of the process.
LEMMA ProcessVolumes ==
    ASSUME TypeOK
    PROVE  /\ Start => /\ volumes' = file.volumes /\ snapshots' = file.snapshots
                       /\ UNCHANGED <<file, faults, backendVars, call>>
           /\ Crash \/ StartupFails => /\ volumes' = NoVolumes /\ snapshots' = NoSnapshots
                                       /\ \A h \in Handlers : call'[h] = Idle
           /\ Crash => UNCHANGED <<file, backendVars>>
           /\ StartupFails => \/ UNCHANGED file
                              \/ /\ file'.volumes = WithConfigured
                                 /\ file'.snapshots = snapshots
           /\ RegisterConfigured => /\ volumes' = WithConfigured /\ file'.volumes = WithConfigured
                                    /\ snapshots' = snapshots /\ file'.snapshots = snapshots
                                    /\ UNCHANGED <<call, config>>
<1>1. Start => /\ volumes' = file.volumes /\ snapshots' = file.snapshots
               /\ UNCHANGED <<file, faults, backendVars, call>>
  BY DEF Start
<1>2. Crash \/ StartupFails => /\ volumes' = NoVolumes /\ snapshots' = NoSnapshots
                               /\ \A h \in Handlers : call'[h] = Idle
  BY DEF Crash, StartupFails, Die
<1>3. Crash => UNCHANGED <<file, backendVars>>
  BY DEF Crash
<1>4. StartupFails => \/ UNCHANGED file
                      \/ file'.volumes = WithConfigured /\ file'.snapshots = snapshots
  BY DEF StartupFails, WithConfigured
<1>5. RegisterConfigured => /\ volumes' = WithConfigured /\ file'.volumes = WithConfigured
                            /\ snapshots' = snapshots /\ file'.snapshots = snapshots
                            /\ UNCHANGED <<call, config>>
  BY DEF RegisterConfigured, WithConfigured, Memory
<1> QED
  BY <1>1, <1>2, <1>3, <1>4, <1>5

LEMMA SourcedStep ==
    ASSUME TypeOK, VolumesSourced, [Next]_vars
    PROVE  VolumesSourced'
<1> USE DEF VolumesSourced
<1>1. ASSUME NEW h \in Handlers, HandlerFrame(h), Sourced(volumes')
      PROVE  VolumesSourced'
  BY <1>1, FileVolumes DEF Sourced, HandlerFrame, processVars, PendingConfigured
<1>2. ASSUME NEW h \in Handlers, Request(h)
      PROVE  VolumesSourced'
  <2>1. Sourced(volumes')
    BY <1>2, RequestVolumes DEF Sourced
  <2> QED
    BY <1>1, <1>2, <2>1, RequestFrame
<1>3. ASSUME NEW h \in Handlers, Advance(h)
      PROVE  VolumesSourced'
  <2>1. CASE InsertVolume(h)
    <3>1. PICK r : r = call[h].request
      OBVIOUS
    <3>2. /\ r \in CreateRequests /\ NamesDataset(r)
          /\ volumes'[r.name].dataset = r.dataset
          /\ \A w \in Names : w # r.name => volumes'[w] = volumes[w]
      BY <2>1, <3>1, InsertFacts
    <3>3. Claimed(r.name, volumes'[r.name].dataset)
      BY <3>2 DEF Claimed
    <3>4. Sourced(volumes')
      BY <3>2, <3>3 DEF Sourced
    <3> QED
      BY <1>1, <1>3, <3>4, AdvanceFrame
  <2>2. CASE ~InsertVolume(h)
    BY <1>1, <1>3, <2>2, AdvanceFrame, AdvanceKeepsVolumes
  <2> QED
    BY <2>1, <2>2
<1>4. ASSUME RegisterConfigured \/ StartupFails
      PROVE  Sourced(WithConfigured)
  <2>1. PICK e : e = Head(pending)
    OBVIOUS
  <2>2. /\ e \in ExistingVolumeConfigs /\ Configured(e)
        /\ WithConfigured[e.id].dataset = e.dataset
        /\ \A w \in Names : w # e.id => WithConfigured[w] = volumes[w]
    BY <1>4, <2>1, ConfiguredFacts
  <2>3. Claimed(e.id, e.dataset)
    BY <2>2 DEF Claimed
  <2> QED
    BY <2>2, <2>3 DEF Sourced
<1>5. Sourced(NoVolumes)
  BY DEF Sourced, NoVolumes
<1>6. CASE Start
  <2>1. PICK c \in Configs : pending' = c.existing
    BY <1>6 DEF Start
  <2>2. PendingConfigured'
    BY <2>1 DEF PendingConfigured, Configured
  <2> QED
    BY <1>6, <2>2, ProcessVolumes
<1>7. CASE Crash \/ StartupFails
  <2>1. PendingConfigured'
    BY <1>7 DEF Crash, StartupFails, Die, PendingConfigured
  <2> QED
    BY <1>4, <1>5, <1>7, <2>1, ProcessVolumes
<1>8. CASE RegisterConfigured
  <2>1. PendingConfigured'
    <3>1. pending \in Seq(ExistingVolumeConfigs) /\ pending # <<>> /\ pending' = Tail(pending)
      BY <1>8 DEF RegisterConfigured, TypeOK
    <3>2. \A i \in 1..Len(pending') : i + 1 \in 1..Len(pending) /\ pending'[i] = pending[i + 1]
      BY <3>1
    <3> QED
      BY <3>2 DEF PendingConfigured
  <2> QED
    BY <1>4, <1>8, <2>1, ProcessVolumes
<1>9. CASE UNCHANGED vars \/ LateExecution
  BY <1>9 DEF vars, LateExecution, processVars, memoryVars, PendingConfigured
<1> QED
  BY <1>2, <1>3, <1>6, <1>7, <1>8, <1>9 DEF Next

LEMMA SourcedInvariant == Spec => []VolumesSourced
<1>1. Init => VolumesSourced
  BY DEF Init, VolumesSourced, Sourced, NoVolumes, Memory, PendingConfigured
<1> QED
  BY <1>1, SourcedStep, TypeCorrect, PTL DEF Spec


LEMMA OtherCalls ==
    ASSUME TypeOK, NEW h \in Handlers, HandlerFrame(h), NEW g \in Handlers, g # h
    PROVE  call'[g] = call[g]
BY DEF HandlerFrame, TypeOK

\* A request comes to an idle handler of a controller that serves.
LEMMA RequestServes ==
    ASSUME NEW h \in Handlers, Request(h)
    PROVE  Serving /\ call[h] = Idle
BY DEF Request, CreateVolumeFound, CreateVolumeStart, DeleteVolumeAbsent,
   DeleteVolumeKeepDataset, DeleteVolumeAndDataset, UnpublishVolume,
   PublishVolume, CreateSnapshot, DeleteSnapshot, HandlerIdle

\* The steps of the process leave no call in flight.
LEMMA ProcessQuiet ==
    ASSUME TypeOK, QuietUntilServing, Start \/ Crash \/ RegisterConfigured \/ StartupFails
    PROVE  \A h \in Handlers : call'[h] = Idle
BY ProcessVolumes DEF QuietUntilServing, Serving, Start, RegisterConfigured

LEMMA ServingInvariant == Spec => []QuietUntilServing
<1>1. Init => QuietUntilServing
  BY DEF Init, QuietUntilServing
<1>2. TypeOK /\ QuietUntilServing /\ [Next]_vars => QuietUntilServing'
  <2> SUFFICES ASSUME TypeOK, QuietUntilServing, [Next]_vars
               PROVE  QuietUntilServing'
    OBVIOUS
  <2>1. ASSUME NEW h \in Handlers, Request(h) \/ Advance(h)
        PROVE  QuietUntilServing'
    <3>1. Serving
      BY <2>1, RequestServes, AdvanceFrame DEF QuietUntilServing
    <3>2. UNCHANGED <<running, pending>>
      BY <2>1, RequestFrame, AdvanceFrame DEF HandlerFrame, processVars
    <3> QED
      BY <3>1, <3>2 DEF QuietUntilServing, Serving
  <2>2. CASE Start \/ Crash \/ RegisterConfigured \/ StartupFails
    BY <2>2, ProcessQuiet DEF QuietUntilServing
  <2>3. CASE UNCHANGED vars \/ LateExecution
    BY <2>3 DEF vars, LateExecution, processVars, QuietUntilServing, Serving
  <2> QED
    BY <2>1, <2>2, <2>3 DEF Next
<1> QED
  BY <1>1, <1>2, TypeCorrect, PTL DEF Spec

-----------------------------------------------------------------------------
(***************************************************************************)
(* Every dataset is registered once                                        *)
(***************************************************************************)
\* A dataset is always asked for under the same name.
OwnDatasets ==
    \A v, w \in Names, d \in Datasets : Claimed(v, d) /\ Claimed(w, d) => v = w

\* A configured volume's dataset is asked for under its id only.
ConfiguredApart ==
    \A e \in ExistingVolumeConfigs, v \in Names :
        Configured(e) /\ Claimed(v, e.dataset) => v = e.id

Once(vols) ==
    \A v, w \in Names :
        /\ vols[v] # NoVolume /\ vols[w] # NoVolume
        /\ vols[v].dataset = vols[w].dataset
        => v = w

Creating(h) == call[h].step \in {"lookup", "allocate", "insert"}

\* Nobody registers the dataset of a call that is about to: such a call
\* started when there was no match, and no other call runs.
Unclaimed ==
    \A h \in Handlers, v \in Names :
        Creating(h) /\ Registered(v) => volumes[v].dataset # call[h].request.dataset

OnceInv == Once(volumes) /\ Once(file.volumes)

\* A request that begins a create has found no volume of its dataset.
LEMMA CreateBegins ==
    ASSUME TypeOK, NEW h \in Handlers, Request(h), Creating(h)'
    PROVE  /\ UNCHANGED volumes
           /\ \A v \in Names : Registered(v) =>
                 volumes[v].dataset # call'[h].request.dataset
           /\ call'[h].step \in {"lookup", "allocate"}
           /\ call'[h].step = "lookup" => call'[h].request.mode = "existing-dataset"
           /\ call'[h].step = "allocate" =>
                 call'[h].request.mode = "dynamic-filesystem-dataset"
<1>1. PICK r \in CreateRequests : CreateVolumeStart(h, r)
  <2>1. call[h].step = "idle"
    BY RequestServes DEF Idle
  <2>2. ASSUME NEW next, Continue(h, next),
               next.step = "save-delete" \/ next.step = "save-snapshot"
                  \/ next.step = "forget-snapshot"
        PROVE  FALSE
    BY <2>2 DEF Continue, Creating, TypeOK
  <2>3. ~UNCHANGED call
    BY <2>1 DEF Creating
  <2> QED
    BY <2>2, <2>3 DEF Request, CreateVolumeFound, DeleteVolumeAbsent,
       DeleteVolumeKeepDataset, DeleteVolumeAndDataset, UnpublishVolume,
       PublishVolume, CreateSnapshot, DeleteSnapshot
<1>2. /\ UNCHANGED volumes
      /\ \A v \in Names : Registered(v) => volumes[v].dataset # r.dataset
  BY <1>1 DEF CreateVolumeStart, MatchesForCreate, memoryVars
<1>3. \/ r.mode = "existing-dataset" /\ call'[h] = [step |-> "lookup", request |-> r]
      \/ /\ r.mode = "dynamic-filesystem-dataset"
         /\ call'[h] = [step |-> "allocate", request |-> r]
  BY <1>1 DEF CreateVolumeStart, Continue, TypeOK
<1> QED
  BY <1>2, <1>3

\* A call that goes on ends or inserts the volume of the same request.
LEMMA CreateGoesOn ==
    ASSUME TypeOK, NEW h \in Handlers, Advance(h), Creating(h)'
    PROVE  /\ LookupExisting(h) \/ AllocateDataset(h)
           /\ Creating(h) /\ call'[h].request = call[h].request
           /\ call'[h].step = "insert"
           /\ UNCHANGED <<volumes, config>>
<1>1. ~Return(h)
  BY DEF Return, Creating, Idle, TypeOK
<1>2. LookupExisting(h) \/ AllocateDataset(h)
  BY <1>1 DEF Advance, InsertVolume, SaveDelete, SaveSnapshot, ForgetSnapshot
<1>3. InsertNext(h)
  BY <1>1, <1>2 DEF LookupExisting, AllocateDataset
<1>4. call'[h] = [step |-> "insert", request |-> call[h].request]
  BY <1>3 DEF InsertNext, Continue, TypeOK
<1>5. Creating(h) /\ UNCHANGED <<volumes, config>>
  BY <1>2 DEF LookupExisting, AllocateDataset, Creating, AtStep, processVars, memoryVars
<1> QED
  BY <1>2, <1>4, <1>5

LEMMA UnclaimedInvariant ==
    ASSUME OneHandler
    PROVE  Spec => []Unclaimed
<1>1. Init => Unclaimed
  BY DEF Init, Unclaimed, Creating, Idle
<1>2. TypeOK /\ QuietUntilServing /\ Unclaimed /\ [Next]_vars => Unclaimed'
  <2> SUFFICES ASSUME TypeOK, QuietUntilServing, Unclaimed, [Next]_vars
               PROVE  Unclaimed'
    OBVIOUS
  <2>1. ASSUME NEW h \in Handlers, Request(h)
        PROVE  Unclaimed'
    BY <2>1, CreateBegins DEF OneHandler, Unclaimed, Registered
  <2>2. ASSUME NEW h \in Handlers, Advance(h)
        PROVE  Unclaimed'
    BY <2>2, CreateGoesOn DEF OneHandler, Unclaimed, Registered
  <2>3. CASE Start \/ Crash \/ RegisterConfigured \/ StartupFails
    BY <2>3, ProcessQuiet DEF Unclaimed, Creating, Idle
  <2>4. CASE UNCHANGED vars \/ LateExecution
    BY <2>4 DEF vars, LateExecution, memoryVars, Unclaimed, Creating, Registered
  <2> QED
    BY <2>1, <2>2, <2>3, <2>4 DEF Next
<1> QED
  BY <1>1, <1>2, TypeCorrect, ServingInvariant, PTL DEF Spec

LEMMA RequestKeepsOnce ==
    ASSUME TypeOK, OnceInv, NEW h \in Handlers, Request(h)
    PROVE  OnceInv'
<1>1. Once(volumes')
  BY RequestVolumes DEF OnceInv, Once
<1>2. Once(file'.volumes)
  BY <1>1, RequestFrame, FileVolumes DEF OnceInv
<1> QED
  BY <1>1, <1>2 DEF OnceInv

LEMMA AdvanceKeepsOnce ==
    ASSUME TypeOK, OnceInv, Unclaimed, NEW h \in Handlers, Advance(h)
    PROVE  OnceInv'
<1>1. Once(volumes')
  <2>1. CASE InsertVolume(h)
    <3>1. PICK r : r = call[h].request
      OBVIOUS
    <3>2. /\ volumes'[r.name].dataset = r.dataset
          /\ \A w \in Names : w # r.name => volumes'[w] = volumes[w]
      BY <2>1, <3>1, InsertFacts
    <3>3. Creating(h)
      BY <2>1 DEF InsertVolume, AtStep, Creating
    <3>4. \A w \in Names : volumes[w] # NoVolume => volumes[w].dataset # r.dataset
      BY <3>1, <3>3 DEF Unclaimed, Registered
    <3> QED
      BY <3>2, <3>4 DEF OnceInv, Once
  <2>2. CASE ~InsertVolume(h)
    BY <2>2, AdvanceKeepsVolumes DEF OnceInv
  <2> QED
    BY <2>1, <2>2
<1>2. Once(file'.volumes)
  BY <1>1, AdvanceFrame, FileVolumes DEF OnceInv
<1> QED
  BY <1>1, <1>2 DEF OnceInv

LEMMA ProcessKeepsOnce ==
    ASSUME ConfiguredApart, TypeOK, OnceInv, VolumesSourced,
           Start \/ Crash \/ RegisterConfigured \/ StartupFails
    PROVE  OnceInv'
<1>1. ASSUME RegisterConfigured \/ StartupFails
      PROVE  Once(WithConfigured)
  <2>1. PICK e : e = Head(pending)
    OBVIOUS
  <2>2. /\ e \in ExistingVolumeConfigs /\ Configured(e)
        /\ WithConfigured[e.id].dataset = e.dataset
        /\ \A w \in Names : w # e.id => WithConfigured[w] = volumes[w]
    BY <1>1, <2>1, ConfiguredFacts DEF VolumesSourced
  <2>3. ASSUME NEW w \in Names, w # e.id, volumes[w] # NoVolume
        PROVE  volumes[w].dataset # e.dataset
    BY <2>2, <2>3 DEF VolumesSourced, Sourced, ConfiguredApart
  <2> QED
    BY <2>2, <2>3 DEF OnceInv, Once
<1>2. Once(NoVolumes)
  BY DEF Once, NoVolumes
<1> QED
  BY <1>1, <1>2, ProcessVolumes DEF OnceInv

\* No two volumes stand for one dataset, so that deleting one volume cannot
\* delete the files of another, when every dataset is only ever asked for
\* under one name, or when calls do not overlap and no client asks for a
\* configured volume's dataset under another name.  Without a condition of
\* this kind it does not hold: the search for the dataset and the insertion
\* are two critical sections (create_volume_inner), and startup does not look
\* for the dataset at all (register_existing_volume).
THEOREM DatasetsAreRegisteredOnce ==
    ASSUME OwnDatasets \/ (OneHandler /\ ConfiguredApart)
    PROVE  Spec => []DatasetsRegisteredOnce
<1>1. CASE OwnDatasets
  <2>1. TypeOK /\ VolumesSourced => DatasetsRegisteredOnce
    <3> SUFFICES ASSUME TypeOK, VolumesSourced, NEW v \in Names, NEW w \in Names,
                        Registered(v), Registered(w),
                        volumes[v].dataset = volumes[w].dataset
                 PROVE  v = w
      BY DEF DatasetsRegisteredOnce
    <3>1. volumes[v].dataset \in Datasets
      BY VolumeShape DEF TypeOK, DatasetVolumes
    <3> QED
      BY <1>1, <3>1 DEF OwnDatasets, VolumesSourced, Sourced, Registered
  <2> QED
    BY <2>1, TypeCorrect, SourcedInvariant, PTL
<1>2. CASE OneHandler /\ ConfiguredApart
  <2>1. Init => OnceInv
    BY DEF Init, OnceInv, Once, NoVolumes, Memory
  <2>2. TypeOK /\ VolumesSourced /\ Unclaimed /\ OnceInv /\ [Next]_vars => OnceInv'
    <3>1. (UNCHANGED vars \/ LateExecution) /\ OnceInv => OnceInv'
      BY DEF vars, LateExecution, memoryVars, OnceInv, Once
    <3> QED
      BY <1>2, <3>1, RequestKeepsOnce, AdvanceKeepsOnce, ProcessKeepsOnce DEF Next
  <2>3. OnceInv => DatasetsRegisteredOnce
    BY DEF OnceInv, Once, DatasetsRegisteredOnce, Registered
  <2> QED
    BY <1>2, <2>1, <2>2, <2>3, TypeCorrect, SourcedInvariant, UnclaimedInvariant, PTL DEF Spec
<1> QED
  BY <1>1, <1>2

-----------------------------------------------------------------------------
(***************************************************************************)
(* Registered volumes have their datasets                                  *)
(***************************************************************************)
\* No dataset is asked for both as an existing one and as one to create.
ModesApart ==
    \A r, s \in CreateRequests :
        NamesDataset(r) /\ r.mode = "existing-dataset" /\ s.mode = "dynamic-filesystem-dataset"
        => r.dataset # s.dataset

\* Configured datasets were there before the controller.
ConfiguredThere == \A e \in ExistingVolumeConfigs : Configured(e) => e.dataset \in InitialDatasets

OptsIn(volume) == volume # NoVolume /\ volume.deleteOnDelete

Inserting(h) == AtStep(h, "insert")

\* The volume handler h is about to insert.
Requested(h) == VolumeFor(call[h].request)

\* A volume of the configuration: its dataset is there, and it does not opt in.
Preset(volume) ==
    volume # NoVolume => volume.dataset \in InitialDatasets /\ ~volume.deleteOnDelete

\* Before the first process serves, only configured volumes are registered.
PresetUntilServing ==
    Serving \/ \A v \in Names : Preset(volumes[v]) /\ Preset(file.volumes[v])

\* Every volume, registered or about to be, has its dataset, but for datasets
\* a failed call may have deleted.
Backed(d) == d \in datasets \/ Doomed(d)
RegisteredExist == \A v \in Names : Registered(v) => Backed(volumes[v].dataset)
RequestedExist == \A h \in Handlers : Inserting(h) => Backed(Requested(h).dataset)

\* A volume that opted in to deletion shares its dataset with no other volume,
\* registered or about to be, so that no other volume loses its dataset to it.
RegisteredApart ==
    \A v, w \in Names :
        /\ Registered(v) /\ Registered(w) /\ v # w
        /\ volumes[v].dataset = volumes[w].dataset
        => ~OptsIn(volumes[v]) \/ Doomed(volumes[v].dataset)

RequestedApart ==
    \A h \in Handlers, v \in Names :
        Inserting(h) /\ Registered(v) /\ volumes[v].dataset = Requested(h).dataset
        => \/ ~OptsIn(volumes[v]) /\ ~OptsIn(Requested(h))
           \/ Doomed(volumes[v].dataset)

InsertsApart ==
    \A g, h \in Handlers :
        Inserting(g) /\ Inserting(h) /\ g # h /\ Requested(g).dataset = Requested(h).dataset
        => ~OptsIn(Requested(g)) \/ Doomed(Requested(g).dataset)

\* Only requests for a dataset to create opt in.
OptInsDynamic ==
    \A v \in Names : OptsIn(volumes[v]) =>
        \E s \in CreateRequests : /\ s.mode = "dynamic-filesystem-dataset"
                                  /\ s.dataset = volumes[v].dataset

ModesKnown ==
    \A h \in Handlers :
        /\ AtStep(h, "lookup") => call[h].request.mode = "existing-dataset"
        /\ AtStep(h, "allocate") => call[h].request.mode = "dynamic-filesystem-dataset"
        /\ Inserting(h) =>
              call[h].request.mode \in {"existing-dataset", "dynamic-filesystem-dataset"}

BackedParts ==
    /\ RegisteredExist /\ RequestedExist
    /\ RegisteredApart /\ RequestedApart /\ InsertsApart /\ OptInsDynamic

BackedInv == faults["crash"] = 0 => PresetUntilServing /\ BackedParts

\* No handler other than h changes what it is about to insert.
LEMMA OthersRequested ==
    ASSUME TypeOK, NEW h \in Handlers, HandlerFrame(h), NEW g \in Handlers, g # h
    PROVE  (Inserting(g)' <=> Inserting(g)) /\ Requested(g)' = Requested(g)
<1>1. call'[g] = call[g] /\ config' = config
  BY OtherCalls DEF HandlerFrame, processVars
<1> QED
  BY <1>1 DEF Inserting, Requested, AtStep, VolumeFor

LEMMA RequestedFields ==
    ASSUME NEW h \in Handlers
    PROVE  /\ Requested(h).dataset = call[h].request.dataset
           /\ OptsIn(Requested(h)) => call[h].request.mode # "existing-dataset"
BY DEF Requested, VolumeFor, OptsIn

LEMMA ModesInvariant == Spec => []ModesKnown
<1>1. Init => ModesKnown
  BY DEF Init, ModesKnown, AtStep, Inserting, Idle
<1>2. TypeOK /\ QuietUntilServing /\ ModesKnown /\ [Next]_vars => ModesKnown'
  <2> SUFFICES ASSUME TypeOK, QuietUntilServing, ModesKnown, [Next]_vars
               PROVE  ModesKnown'
    OBVIOUS
  <2> USE DEF AtStep, Inserting
  <2>1. ASSUME NEW h \in Handlers, Request(h)
        PROVE  ModesKnown'
    BY <2>1, CreateBegins, RequestFrame, OtherCalls DEF ModesKnown, Creating
  <2>2. ASSUME NEW h \in Handlers, Advance(h)
        PROVE  ModesKnown'
    <3>1. Creating(h)' => /\ call'[h].step = "insert"
                          /\ call'[h].request = call[h].request
                          /\ call[h].step \in {"lookup", "allocate"}
      BY <2>2, CreateGoesOn DEF LookupExisting, AllocateDataset
    <3> QED
      BY <2>2, <3>1, AdvanceFrame, OtherCalls DEF ModesKnown, Creating
  <2>3. CASE Start \/ Crash \/ RegisterConfigured \/ StartupFails
    BY <2>3, ProcessQuiet DEF ModesKnown, Idle
  <2>4. CASE UNCHANGED vars \/ LateExecution
    BY <2>4 DEF vars, LateExecution, ModesKnown
  <2> QED
    BY <2>1, <2>2, <2>3, <2>4 DEF Next
<1> QED
  BY <1>1, <1>2, TypeCorrect, ServingInvariant, PTL DEF Spec

\* A deletion that failed stays so.
LEMMA DoomedStay ==
    ASSUME TypeOK, [Next]_vars
    PROVE  \A d : Doomed(d) => Doomed(d)'
BY FailuresStep DEF Doomed

\* A step that changes no volume and no call takes no dataset but a doomed one.
LEMMA QuietKeepsBacked ==
    ASSUME TypeOK, BackedParts, [Next]_vars, UNCHANGED <<volumes, config, call>>,
           \A d \in datasets \ datasets' : Doomed(d)
    PROVE  BackedParts'
<1>1. \A d : Doomed(d) => Doomed(d)'
  BY DoomedStay
<1>2. \A d : Backed(d) => Backed(d)'
  BY <1>1 DEF Backed
<1>3. RegisteredExist' /\ RegisteredApart' /\ OptInsDynamic'
  BY <1>1, <1>2 DEF BackedParts, RegisteredExist, RegisteredApart, OptInsDynamic,
     Registered, OptsIn
<1>4. \A g \in Handlers : /\ Inserting(g)' <=> Inserting(g)
                          /\ Requested(g)' = Requested(g)
  BY DEF Inserting, Requested, AtStep, VolumeFor
<1>5. RequestedExist' /\ RequestedApart' /\ InsertsApart'
  BY <1>1, <1>2, <1>4 DEF BackedParts, RequestedExist, RequestedApart, InsertsApart,
     Registered, OptsIn
<1> QED
  BY <1>3, <1>5 DEF BackedParts

\* A request removes volumes and starts nothing that inserts one, and a
\* dataset it deletes is that of a volume that opted in and goes as well.
LEMMA RequestKeepsBacked ==
    ASSUME TypeOK, BackedParts, NEW h \in Handlers, Request(h)
    PROVE  BackedParts'
<1>0. \A d : Doomed(d) => Doomed(d)'
  BY DoomedStay DEF Next
<1>1. \A w \in Names : volumes'[w] = volumes[w] \/ volumes'[w] = NoVolume
  BY RequestVolumes
<1>2. \A g \in Handlers : Inserting(g)' => Inserting(g) /\ Requested(g)' = Requested(g)
  BY RequestFrame, OthersRequested DEF Inserting, AtStep
<1>3. ASSUME NEW d, d \in datasets, d \notin datasets'
      PROVE  \E v \in Names : /\ d = volumes[v].dataset /\ OptsIn(volumes[v])
                              /\ Registered(v) /\ volumes'[v] = NoVolume
  <2>1. PICK v \in Names : /\ DeleteVolumeAndDataset(h, v)
                           /\ datasets \ datasets' \subseteq {volumes[v].dataset}
    BY <1>3, RequestDatasets
  <2>2. d = volumes[v].dataset
    BY <1>3, <2>1
  <2>3. Registered(v) /\ OptsIn(volumes[v])
    BY <2>1 DEF DeleteVolumeAndDataset, DeletesDataset, Registered, OptsIn
  <2>4. volumes'[v] = NoVolume
    BY <2>1, MovedVolumes DEF DeleteVolumeAndDataset
  <2> QED
    BY <2>2, <2>3, <2>4
<1>4. RegisteredExist'
  BY <1>0, <1>1, <1>3 DEF BackedParts, RegisteredExist, RegisteredApart, Registered, Backed
<1>5. RequestedExist'
  BY <1>0, <1>2, <1>3 DEF BackedParts, RequestedExist, RequestedApart, Backed
<1>6. RegisteredApart' /\ OptInsDynamic'
  BY <1>0, <1>1 DEF BackedParts, RegisteredApart, OptInsDynamic, Registered, OptsIn
<1>7. RequestedApart'
  BY <1>0, <1>1, <1>2 DEF BackedParts, RequestedApart, Registered, OptsIn
<1>8. InsertsApart'
  BY <1>0, <1>2 DEF BackedParts, InsertsApart, OptsIn
<1> QED
  BY <1>4, <1>5, <1>6, <1>7, <1>8 DEF BackedParts

\* The insertion: the volume has its dataset already.
LEMMA InsertKeepsBacked ==
    ASSUME TypeOK, BackedParts, ModesKnown, NEW h \in Handlers, InsertVolume(h)
    PROVE  BackedParts'
<1>1. PICK r : r = call[h].request
  OBVIOUS
<1>2. PICK volume : volume = Requested(h)
  OBVIOUS
<1>3. /\ r.name \in Names /\ r \in CreateRequests
      /\ volume # NoVolume /\ volume.dataset = r.dataset
      /\ volumes'[r.name] = volume
      /\ \A w \in Names : w # r.name => volumes'[w] = volumes[w]
      /\ datasets' = datasets /\ failed' = failed
      /\ call'[h] = Idle
  BY <1>1, <1>2, InsertFacts DEF Requested, backendVars
<1>4. Inserting(h) /\ Advance(h) /\ ~Inserting(h)'
  BY <1>3 DEF InsertVolume, Inserting, Advance, AtStep, Idle
<1>5. \A g \in Handlers : Inserting(g)' =>
          g # h /\ Inserting(g) /\ Requested(g)' = Requested(g)
  BY <1>4, AdvanceFrame, OthersRequested
<1>6. RegisteredExist'
  BY <1>2, <1>3, <1>4 DEF BackedParts, RegisteredExist, RequestedExist, Registered, Backed,
     Doomed
<1>7. RequestedExist'
  BY <1>3, <1>5 DEF BackedParts, RequestedExist, Backed, Doomed
<1>8. \A v \in Names : Registered(v) /\ volumes[v].dataset = volume.dataset
          => Doomed(volume.dataset) \/ (~OptsIn(volumes[v]) /\ ~OptsIn(volume))
  BY <1>2, <1>4 DEF BackedParts, RequestedApart
<1>9. RegisteredApart'
  <2> SUFFICES ASSUME NEW v \in Names, NEW w \in Names, v # w,
                      volumes'[v] # NoVolume, volumes'[w] # NoVolume,
                      volumes'[v].dataset = volumes'[w].dataset
               PROVE  ~OptsIn(volumes'[v]) \/ Doomed(volumes'[v].dataset)
    BY <1>3 DEF RegisteredApart, Registered, OptsIn, Doomed
  <2>1. CASE v = r.name \/ w = r.name
    BY <1>3, <1>8, <2>1 DEF Registered
  <2>2. CASE v # r.name /\ w # r.name
    BY <1>3, <2>2 DEF BackedParts, RegisteredApart, Registered
  <2> QED
    BY <2>1, <2>2
<1>10. RequestedApart'
  <2> SUFFICES ASSUME NEW g \in Handlers, NEW v \in Names, Inserting(g)',
                      volumes'[v] # NoVolume, volumes'[v].dataset = Requested(g)'.dataset
               PROVE  Doomed(volumes'[v].dataset)
                      \/ (~OptsIn(volumes'[v]) /\ ~OptsIn(Requested(g)'))
    BY <1>3 DEF RequestedApart, Registered, OptsIn, Doomed
  <2>1. g # h /\ Inserting(g) /\ Requested(g)' = Requested(g)
    BY <1>5
  <2>2. CASE v = r.name
    BY <1>2, <1>3, <1>4, <2>1, <2>2 DEF BackedParts, InsertsApart
  <2>3. CASE v # r.name
    BY <1>3, <2>1, <2>3 DEF BackedParts, RequestedApart, Registered
  <2> QED
    BY <2>2, <2>3
<1>11. InsertsApart'
  BY <1>3, <1>5 DEF BackedParts, InsertsApart, OptsIn, Doomed
<1>12. OptInsDynamic'
  <2>1. OptsIn(volume) => r.mode = "dynamic-filesystem-dataset"
    BY <1>1, <1>2, <1>4, RequestedFields DEF ModesKnown
  <2> QED
    BY <1>3, <2>1 DEF BackedParts, OptInsDynamic, OptsIn
<1> QED
  BY <1>6, <1>7, <1>9, <1>10, <1>11, <1>12 DEF BackedParts

\* The lookup and the creation of the dataset, from which an insertion follows.
LEMMA AllocateKeepsBacked ==
    ASSUME TypeOK, BackedParts, ModesKnown, OneHandler => Unclaimed,
           OneHandler \/ ModesApart,
           NEW h \in Handlers, LookupExisting(h) \/ AllocateDataset(h)
    PROVE  BackedParts'
<1>1. PICK r : r = call[h].request
  OBVIOUS
<1>2. /\ Advance(h) /\ Creating(h) /\ UNCHANGED <<volumes, config>>
      /\ r \in CreateRequests /\ NamesDataset(r)
  BY <1>1, CallShape
  DEF Advance, LookupExisting, AllocateDataset, Creating, AtStep, processVars, memoryVars,
      TypeOK
<1>3. datasets \subseteq datasets' /\ \A d : Doomed(d) => Doomed(d)'
  <2>1. datasets \subseteq datasets'
    BY DEF LookupExisting, AllocateDataset, LookupDataset, CreateDataset, DatasetCreated,
       Refused, Fails, backendVars
  <2> QED
    BY <1>2, <2>1, DoomedStay DEF Next
<1>4. PICK volume : volume = Requested(h)
  OBVIOUS
<1>5. volume.dataset = r.dataset
  BY <1>1, <1>4, RequestedFields
<1>6. \A g \in Handlers : g # h => (Inserting(g)' <=> Inserting(g)) /\ Requested(g)' = Requested(g)
  BY <1>2, AdvanceFrame, OthersRequested
<1>7. Inserting(h)' => Requested(h)' = volume
  <2>1. Inserting(h)' => call'[h].request = r
    BY <1>1, <1>2, CreateGoesOn DEF Inserting, AtStep, Creating
  <2> QED
    BY <1>2, <1>4, <1>1, <2>1 DEF Requested, VolumeFor
<1>8. ASSUME Inserting(h)'
      PROVE  /\ r.dataset \in datasets'
             /\ \A v \in Names : Registered(v) /\ volumes[v].dataset = r.dataset
                   => Doomed(r.dataset) \/ (~OptsIn(volumes[v]) /\ ~OptsIn(volume))
             /\ \A g \in Handlers : Inserting(g) /\ g # h /\ Requested(g).dataset = r.dataset
                   => Doomed(r.dataset) \/ (~OptsIn(Requested(g)) /\ ~OptsIn(volume))
  <2>1. call'[h] # Idle
    BY <1>8 DEF Inserting, AtStep, Idle
  <2>2. CASE LookupExisting(h)
    <3>1. r.dataset \in datasets /\ UNCHANGED datasets
      BY <1>1, <2>1, <2>2 DEF LookupExisting, LookupDataset, Return, backendVars, TypeOK
    <3>2. r.mode = "existing-dataset" /\ ~OptsIn(volume)
      BY <1>1, <1>4, <2>2, RequestedFields DEF LookupExisting, ModesKnown
    <3>3. ASSUME NEW v \in Names, Registered(v), volumes[v].dataset = r.dataset
          PROVE  ~OptsIn(volumes[v])
      <4>1. CASE OneHandler
        BY <1>1, <1>2, <3>3, <4>1 DEF Unclaimed
      <4>2. CASE ModesApart
        BY <1>2, <3>2, <3>3, <4>2 DEF ModesApart, BackedParts, OptInsDynamic
      <4> QED
        BY <4>1, <4>2
    <3>4. ASSUME NEW g \in Handlers, Inserting(g), g # h, Requested(g).dataset = r.dataset
          PROVE  ~OptsIn(Requested(g))
      <4>1. ModesApart
        BY <3>4 DEF OneHandler
      <4>2. call[g].request \in CreateRequests
        BY <3>4, CallShape DEF Inserting, AtStep, TypeOK
      <4>3. call[g].request.dataset = r.dataset
        BY <3>4, RequestedFields
      <4>4. call[g].request.mode # "dynamic-filesystem-dataset"
        BY <1>2, <3>2, <4>1, <4>2, <4>3 DEF ModesApart
      <4> QED
        BY <3>4, <4>4, RequestedFields DEF ModesKnown
    <3> QED
      BY <3>1, <3>2, <3>3, <3>4
  <2>3. CASE AllocateDataset(h)
    <3>1. r.dataset \in datasets' /\ r.dataset \notin datasets
      BY <1>1, <2>1, <2>3 DEF AllocateDataset, CreateDataset, DatasetCreated, Return, TypeOK
    <3> QED
      BY <3>1 DEF BackedParts, RegisteredExist, RequestedExist, Backed
  <2> QED
    BY <2>2, <2>3
<1>9. RegisteredExist' /\ RegisteredApart' /\ OptInsDynamic'
  BY <1>2, <1>3 DEF BackedParts, RegisteredExist, RegisteredApart, OptInsDynamic,
     Registered, OptsIn, Backed
<1>10. RequestedExist'
  BY <1>3, <1>5, <1>6, <1>7, <1>8 DEF BackedParts, RequestedExist, Backed
<1>11. RequestedApart'
  <2> SUFFICES ASSUME NEW g \in Handlers, NEW v \in Names, Inserting(g)',
                      volumes[v] # NoVolume, volumes[v].dataset = Requested(g)'.dataset
               PROVE  Doomed(volumes[v].dataset)
                      \/ (~OptsIn(volumes[v]) /\ ~OptsIn(Requested(g)'))
    BY <1>2, <1>3 DEF RequestedApart, Registered, OptsIn
  <2>1. CASE g = h
    BY <1>5, <1>7, <1>8, <2>1 DEF Registered
  <2>2. CASE g # h
    BY <1>6, <2>2 DEF BackedParts, RequestedApart, Registered
  <2> QED
    BY <2>1, <2>2
<1>12. InsertsApart'
  <2> SUFFICES ASSUME NEW f \in Handlers, NEW g \in Handlers, Inserting(f)', Inserting(g)',
                      f # g, Requested(f)'.dataset = Requested(g)'.dataset
               PROVE  ~OptsIn(Requested(f)') \/ Doomed(Requested(f)'.dataset)
    BY <1>3 DEF InsertsApart, OptsIn
  <2>1. CASE f = h
    BY <1>5, <1>6, <1>7, <1>8, <2>1
  <2>2. CASE g = h
    BY <1>5, <1>6, <1>7, <1>8, <2>2
  <2>3. CASE f # h /\ g # h
    BY <1>6, <2>3 DEF BackedParts, InsertsApart
  <2> QED
    BY <2>1, <2>2, <2>3
<1> QED
  BY <1>9, <1>10, <1>11, <1>12 DEF BackedParts

LEMMA AdvanceKeepsBacked ==
    ASSUME TypeOK, BackedParts, ModesKnown, OneHandler => Unclaimed,
           OneHandler \/ ModesApart,
           NEW h \in Handlers, Advance(h)
    PROVE  BackedParts'
<1>1. CASE SaveDelete(h) \/ SaveSnapshot(h) \/ ForgetSnapshot(h)
  <2>1. UNCHANGED <<volumes, datasets, failed>> /\ call'[h] = Idle
    BY <1>1 DEF SaveDelete, SaveSnapshot, ForgetSnapshot, memoryVars, backendVars,
       Return, TypeOK
  <2>2. \A g \in Handlers : Inserting(g)' => Inserting(g) /\ Requested(g)' = Requested(g)
    BY <2>1, AdvanceFrame, OthersRequested DEF Inserting, AtStep, Idle
  <2>3. RegisteredExist' /\ RegisteredApart' /\ OptInsDynamic'
    BY <2>1 DEF BackedParts, RegisteredExist, RegisteredApart, OptInsDynamic,
       Registered, OptsIn, Backed, Doomed
  <2>4. RequestedExist' /\ RequestedApart' /\ InsertsApart'
    BY <2>1, <2>2 DEF BackedParts, RequestedExist, RequestedApart, InsertsApart,
       Registered, OptsIn, Backed, Doomed
  <2> QED
    BY <2>3, <2>4 DEF BackedParts
<1> QED
  BY <1>1, InsertKeepsBacked, AllocateKeepsBacked DEF Advance

\* Configured volumes are backed, and stay so, as long as nothing else is.
OnlyPreset ==
    /\ \A v \in Names : Preset(volumes[v])
    /\ \A h \in Handlers : call[h] = Idle

LEMMA PresetBacked == ExistingDatasetsKept /\ OnlyPreset => BackedParts
<1> SUFFICES ASSUME ExistingDatasetsKept, OnlyPreset
             PROVE  BackedParts
  OBVIOUS
<1> USE DEF OnlyPreset
<1>1. \A h \in Handlers : ~Inserting(h)
  BY DEF Inserting, AtStep, Idle
<1>2. RegisteredExist /\ RegisteredApart /\ OptInsDynamic
  BY DEF Preset, ExistingDatasetsKept, RegisteredExist, RegisteredApart, OptInsDynamic,
     Registered, OptsIn, Backed
<1>3. RequestedExist /\ RequestedApart /\ InsertsApart
  BY <1>1 DEF RequestedExist, RequestedApart, InsertsApart
<1> QED
  BY <1>2, <1>3 DEF BackedParts

LEMMA ProcessPresets ==
    ASSUME ConfiguredThere, TypeOK, VolumesSourced, PresetUntilServing,
           Start \/ RegisterConfigured \/ StartupFails
    PROVE  \A v \in Names : Preset(volumes'[v]) /\ Preset(file'.volumes[v])
<1>1. \A v \in Names : Preset(volumes[v]) /\ Preset(file.volumes[v])
  BY DEF PresetUntilServing, Serving, Start, RegisterConfigured, StartupFails
<1>2. ASSUME RegisterConfigured \/ StartupFails
      PROVE  \A v \in Names : Preset(WithConfigured[v])
  <2>1. PICK e : e = Head(pending)
    OBVIOUS
  <2>2. /\ e \in ExistingVolumeConfigs /\ Configured(e)
        /\ ConfiguredVolume(e).dataset = e.dataset
        /\ ~ConfiguredVolume(e).deleteOnDelete
        /\ WithConfigured[e.id] = ConfiguredVolume(e)
        /\ \A w \in Names : w # e.id => WithConfigured[w] = volumes[w]
    BY <1>2, <2>1, ConfiguredFacts DEF VolumesSourced
  <2>3. Preset(ConfiguredVolume(e))
    BY <2>2 DEF ConfiguredThere, Preset
  <2> QED
    BY <1>1, <2>2, <2>3
<1>3. \A v \in Names : Preset(NoVolumes[v])
  BY DEF Preset, NoVolumes
<1>4. CASE Start
  BY <1>1, <1>4, ProcessVolumes
<1>5. CASE RegisterConfigured
  BY <1>2, <1>5, ProcessVolumes
<1>6. CASE StartupFails
  BY <1>1, <1>2, <1>3, <1>6, ProcessVolumes
<1> QED
  BY <1>4, <1>5, <1>6

\* A fault that has happened stays counted, and a crash is one.
LEMMA FaultsCount ==
    ASSUME TypeOK, [Next]_vars
    PROVE  /\ \A k \in FaultKinds : faults'[k] = 0 => faults[k] = 0
           /\ Crash => faults'["crash"] # 0
<1>1. faults \in [FaultKinds -> Nat] /\ "crash" \in FaultKinds
  BY FaultKindsAssumption DEF TypeOK, FaultsTypeOK
<1>2. ASSUME NEW j, Fault(j)
      PROVE  /\ \A k \in FaultKinds : faults'[k] = 0 => faults[k] = 0
             /\ j \in FaultKinds => faults'[j] # 0
  BY <1>1, <1>2 DEF Fault
<1>3. \A k \in FaultKinds : faults'[k] = 0 => faults[k] = 0
  <2>1. (\E j : Fault(j)) \/ NoFault
    <3>1. ASSUME NEW h \in Handlers, Request(h)
          PROVE  (\E j : Fault(j)) \/ NoFault
      BY <3>1 DEF Request, CreateVolumeFound, CreateVolumeStart, DeleteVolumeAbsent,
         DeleteVolumeKeepDataset, DeleteVolumeAndDataset, UnpublishVolume, PublishVolume,
         CreateSnapshot, DeleteSnapshot, Save, DeleteDataset, CreateZfsSnapshot,
         DeleteZfsSnapshot, Succeeds, Refused, Fails
    <3>2. ASSUME NEW h \in Handlers, Advance(h)
          PROVE  (\E j : Fault(j)) \/ NoFault
      BY <3>2 DEF Advance, LookupExisting, AllocateDataset, InsertVolume, SaveDelete,
         SaveSnapshot, ForgetSnapshot, Save, LookupDataset, CreateDataset, Succeeds,
         Refused, Fails
    <3>3. CASE Start \/ Crash \/ RegisterConfigured \/ StartupFails \/ LateExecution
      BY <3>3 DEF Start, Crash, RegisterConfigured, StartupFails, LookupDataset,
         LateExecution, CatchUp
    <3> QED
      BY <3>1, <3>2, <3>3 DEF Next, vars
  <2> QED
    BY <1>2, <2>1
<1> QED
  BY <1>1, <1>2, <1>3 DEF Crash

LEMMA BackedStep ==
    ASSUME ConfiguredThere, OneHandler \/ ModesApart, TypeOK, BackedInv, ModesKnown,
           QuietUntilServing, VolumesSourced, OneHandler => Unclaimed,
           LateRequestsOwn, ExistingDatasetsKept', [Next]_vars
    PROVE  BackedInv'
<1> SUFFICES ASSUME faults'["crash"] = 0
             PROVE  PresetUntilServing' /\ BackedParts'
  BY DEF BackedInv
<1>1. PresetUntilServing /\ BackedParts /\ ~Crash
  BY FaultsCount, FaultKindsAssumption DEF BackedInv
<1>2. ASSUME NEW h \in Handlers, Request(h) \/ Advance(h)
      PROVE  PresetUntilServing' /\ BackedParts'
  <2>1. Serving
    BY <1>2, RequestServes, AdvanceFrame DEF QuietUntilServing
  <2>2. Serving'
    BY <1>2, <2>1, RequestFrame, AdvanceFrame DEF HandlerFrame, processVars, Serving
  <2>3. BackedParts'
    BY <1>1, <1>2, RequestKeepsBacked, AdvanceKeepsBacked
  <2> QED
    BY <2>2, <2>3 DEF PresetUntilServing
<1>3. CASE Start \/ RegisterConfigured \/ StartupFails
  <2>1. \A v \in Names : Preset(volumes'[v]) /\ Preset(file'.volumes[v])
    BY <1>1, <1>3, ProcessPresets
  <2>2. OnlyPreset'
    BY <1>3, <2>1, ProcessQuiet DEF OnlyPreset, Preset
  <2>3. BackedParts'
    BY <2>2, PresetBacked, PTL
  <2> QED
    BY <2>1, <2>3 DEF PresetUntilServing, Preset
<1>4. CASE UNCHANGED vars \/ LateExecution
  <2>1. UNCHANGED <<volumes, file, running, pending, config, call>>
    BY <1>4 DEF vars, LateExecution, memoryVars, processVars
  <2>2. PresetUntilServing'
    BY <1>1, <2>1 DEF PresetUntilServing, Serving, Preset
  <2>3. \A d \in datasets \ datasets' : Doomed(d)
    <3>1. CASE UNCHANGED vars
      BY <3>1 DEF vars, backendVars
    <3>2. CASE LateExecution
      <4>1. \A d \in datasets \ datasets' : d \in Datasets /\ late[DeletionOf(d)] > 0
        BY <3>2, LateEffects DEF LateExecution, TypeOK, BackendTypeOK
      <4> QED
        BY <4>1, RequestsOfBackend DEF LateRequestsOwn, Doomed
    <3> QED
      BY <1>4, <3>1, <3>2
  <2> QED
    BY <1>1, <2>1, <2>2, <2>3, QuietKeepsBacked
<1> QED
  BY <1>1, <1>2, <1>3, <1>4 DEF Next

\* Until a crash, every registered volume has its dataset in TrueNAS, or a call
\* to delete that dataset has failed and TrueNAS may execute it late, when the
\* configured datasets were there from the start and either calls do not
\* overlap or no dataset is asked for both as an existing one and as one to
\* create.  It holds although writes and TrueNAS calls fail at any point, and
\* failed calls are executed at any later time, and, in the second case,
\* although several volumes may stand for one dataset: a volume that opted in
\* to deletion shares no dataset but one whose deletion failed, so none other
\* goes under a volume that stays (create_volume_inner, delete_volume_inner).
THEOREM VolumesAreBacked ==
    ASSUME ConfiguredThere, OneHandler \/ ModesApart
    PROVE  Spec => []VolumesBacked
<1>1. Init => BackedInv
  <2> SUFFICES ASSUME Init PROVE PresetUntilServing /\ BackedParts
    BY DEF BackedInv
  <2>1. \A v \in Names : volumes[v] = NoVolume /\ file.volumes[v] = NoVolume
    BY DEF Init, NoVolumes, Memory
  <2>2. ExistingDatasetsKept /\ \A h \in Handlers : call[h] = Idle
    BY DEF Init, BackendInit, ExistingDatasetsKept
  <2> QED
    BY <2>1, <2>2, PresetBacked DEF PresetUntilServing, OnlyPreset, Preset
<1>2. /\ TypeOK /\ BackedInv /\ ModesKnown /\ QuietUntilServing /\ VolumesSourced
      /\ (OneHandler => Unclaimed) /\ LateRequestsOwn /\ ExistingDatasetsKept'
      /\ [Next]_vars
      => BackedInv'
  BY BackedStep
<1>3. BackedInv => VolumesBacked
  BY DEF BackedInv, BackedParts, RegisteredExist, Backed, VolumesBacked
<1>4. Spec => [](OneHandler => Unclaimed)
  <2>1. CASE OneHandler
    <3>1. Unclaimed => (OneHandler => Unclaimed)
      OBVIOUS
    <3> QED
      BY <2>1, <3>1, UnclaimedInvariant, PTL
  <2>2. CASE ~OneHandler
    <3>1. OneHandler => Unclaimed
      BY <2>2
    <3> QED
      BY <3>1, PTL
  <2> QED
    BY <2>1, <2>2
<1> QED
  BY <1>1, <1>2, <1>3, <1>4, TypeCorrect, ModesInvariant, ServingInvariant,
     SourcedInvariant, ExistingInvariant, PTL DEF Spec

-----------------------------------------------------------------------------
(***************************************************************************)
(* The snapshots in memory are those of TrueNAS                            *)
(***************************************************************************)
\* No crash and no TrueNAS error has happened.
Undisturbed == faults["crash"] = 0 /\ faults["backend"] = 0

Listed(id) == snapshots[id] # NoVolume

Forgets(h, id) == AtStep(h, "forget-snapshot") /\ call[h].id = id

\* Every snapshot was taken of a volume that may stand for its dataset.
SnapshotsClaimed(snaps) ==
    \A id \in SnapshotIds : snaps[id] # NoVolume => Claimed(snaps[id], id[1])

SnapshotsSourced == SnapshotsClaimed(snapshots) /\ SnapshotsClaimed(file.snapshots)

NoSnapshotsUntilServing ==
    Serving \/ (snapshots = NoSnapshots /\ file.snapshots = NoSnapshots /\ zfsSnapshots = {})

\* A snapshot in memory is in TrueNAS unless some call is about to forget it.
ListedExist ==
    \A id \in SnapshotIds :
        Listed(id) => id \in zfsSnapshots \/ \E h \in Handlers : Forgets(h, id)

\* Every snapshot in TrueNAS is in memory.
ExistingListed == \A id \in SnapshotIds : id \in zfsSnapshots => Listed(id)

\* What a call is about to forget is still in memory, gone from TrueNAS, and
\* no other call's.
ForgettingGone ==
    \A h \in Handlers, id \in SnapshotIds : Forgets(h, id) =>
        /\ Listed(id) /\ id \notin zfsSnapshots
        /\ \A g \in Handlers : Forgets(g, id) => g = h

SnapshotParts ==
    /\ ListedExist
    /\ config.allowSnapshotDelete => ExistingListed /\ ForgettingGone

SnapshotInv == Undisturbed => NoSnapshotsUntilServing /\ SnapshotParts

LEMMA OthersForget ==
    ASSUME TypeOK, NEW h \in Handlers, HandlerFrame(h), NEW g \in Handlers, g # h, NEW id
    PROVE  Forgets(g, id)' <=> Forgets(g, id)
BY OtherCalls DEF Forgets, AtStep

\* The moves of handler h, when TrueNAS makes no error.
Takes(h, v, id) ==
    /\ Registered(v) /\ volumes[v].dataset = id[1]
    /\ snapshots[id] # v
    /\ id \notin zfsSnapshots
    /\ zfsSnapshots' = zfsSnapshots \cup {id}
    /\ snapshots' = [snapshots EXCEPT ![id] = v]
    /\ ~AtStep(h, "forget-snapshot") /\ ~AtStep(h, "forget-snapshot")'

Drops(h, id) ==
    /\ id \in zfsSnapshots /\ zfsSnapshots' = zfsSnapshots \ {id}
    /\ UNCHANGED snapshots
    /\ ~AtStep(h, "forget-snapshot")
    /\ Forgets(h, id)'

Disowns(h, id) ==
    /\ ~config.allowSnapshotDelete
    /\ UNCHANGED <<snapshots, zfsSnapshots>>
    /\ ~AtStep(h, "forget-snapshot")
    /\ Forgets(h, id)'

Forgot(h, id) ==
    /\ Forgets(h, id) /\ ~AtStep(h, "forget-snapshot")'
    /\ snapshots' = [snapshots EXCEPT ![id] = NoVolume]
    /\ UNCHANGED zfsSnapshots

KeepsSnapshots(h) ==
    /\ UNCHANGED <<snapshots, zfsSnapshots>>
    /\ ~AtStep(h, "forget-snapshot") /\ ~AtStep(h, "forget-snapshot")'

SnapshotMoves(h) ==
    \/ KeepsSnapshots(h)
    \/ \E v \in Names, id \in SnapshotIds : Takes(h, v, id)
    \/ \E id \in SnapshotIds : Drops(h, id) \/ Disowns(h, id) \/ Forgot(h, id)

\* A TrueNAS error is counted.
LEMMA ErrorsCount ==
    ASSUME TypeOK, Fault("backend")
    PROVE  faults'["backend"] # 0
BY BackendFaultAssumption DEF Fault, TypeOK, FaultsTypeOK

\* Until TrueNAS makes an error, it has nothing to execute late.
NothingLate == faults["backend"] = 0 => failed = {}

LEMMA NothingLateInvariant == Spec => []NothingLate
<1>1. Init => NothingLate
  BY DEF Init, BackendInit, NothingLate
<1>2. TypeOK /\ NothingLate /\ [Next]_vars => NothingLate'
  <2> SUFFICES ASSUME TypeOK, NothingLate, [Next]_vars, faults'["backend"] = 0
               PROVE  UNCHANGED failed
    BY FaultsCount, BackendFaultAssumption DEF NothingLate
  <2>1. \A r : ~Fails(r)
    BY ErrorsCount DEF Fails
  <2>2. CASE LateExecution
    BY <2>2 DEF LateExecution, CatchUp
  <2> QED
    BY <2>1, <2>2, RequestFailures, AdvanceFailures, ProcessFailures DEF Next
<1> QED
  BY <1>1, <1>2, TypeCorrect, PTL DEF Spec

LEMMA RequestSnapshots ==
    ASSUME TypeOK, NEW h \in Handlers, Request(h), faults'["backend"] = 0
    PROVE  SnapshotMoves(h)
<1>1. ~AtStep(h, "forget-snapshot")
  BY RequestServes DEF AtStep, Idle
<1>2. ~Fault("backend")
  BY ErrorsCount
<1>3. ASSUME NEW r \in CreateRequests, CreateVolumeFound(h, r) \/ CreateVolumeStart(h, r)
      PROVE  KeepsSnapshots(h)
  BY <1>1, <1>3 DEF CreateVolumeFound, CreateVolumeStart, Continue, KeepsSnapshots, AtStep,
     memoryVars, backendVars, TypeOK
<1>4. ASSUME NEW v \in Names, DeleteVolumeAbsent(h, v) \/ DeleteVolumeKeepDataset(h, v)
                                \/ DeleteVolumeAndDataset(h, v)
      PROVE  KeepsSnapshots(h)
  <2>1. UNCHANGED <<snapshots, zfsSnapshots>>
    BY <1>4 DEF DeleteVolumeAbsent, DeleteVolumeKeepDataset, DeleteVolumeAndDataset,
       RemoveVolume, DeleteDataset, DatasetDeleted, Refused, Fails, memoryVars, backendVars
  <2>2. UNCHANGED call \/ Continue(h, [step |-> "save-delete", volume |-> v])
    BY <1>4 DEF DeleteVolumeAbsent, DeleteVolumeKeepDataset, DeleteVolumeAndDataset
  <2> QED
    BY <1>1, <2>1, <2>2 DEF Continue, KeepsSnapshots, AtStep, TypeOK
<1>5. ASSUME NEW v \in Names, NEW n \in Nodes, UnpublishVolume(h, v, n)
      PROVE  KeepsSnapshots(h)
  BY <1>1, <1>5 DEF UnpublishVolume, KeepsSnapshots, AtStep, backendVars
<1>6. ASSUME NEW v \in Names, NEW n \in Nodes, NEW readOnly \in BOOLEAN,
             NEW c \in Capabilities, PublishVolume(h, v, n, readOnly, {c})
      PROVE  KeepsSnapshots(h)
  BY <1>1, <1>6 DEF PublishVolume, KeepsSnapshots, AtStep, backendVars
<1>7. ASSUME NEW v \in Names, NEW s \in SnapshotNames, CreateSnapshot(h, v, s)
      PROVE  KeepsSnapshots(h) \/ \E id \in SnapshotIds : Takes(h, v, id)
  <2>1. PICK id : id = <<volumes[v].dataset, s>>
    OBVIOUS
  <2>2. id \in SnapshotIds /\ id[1] = volumes[v].dataset /\ id[2] = s
    BY <1>7, <2>1, VolumeShape DEF CreateSnapshot, DatasetVolumes, SnapshotIds, TypeOK
  <2>3. PICK answer \in Answers :
            /\ CreateZfsSnapshot(id, answer)
            /\ IF answer = "ok"
               THEN /\ snapshots' = [snapshots EXCEPT ![id] = v]
                    /\ Continue(h, [step |-> "save-snapshot", id |-> id])
               ELSE UNCHANGED <<snapshots, call>>
    BY <1>7, <2>1 DEF CreateSnapshot
  <2>4. CASE answer = "ok"
    <3>1. snapshots[id] # v /\ Registered(v)
      BY <1>7, <2>2 DEF CreateSnapshot, HasSnapshotNamed
    <3>2. id \notin zfsSnapshots /\ zfsSnapshots' = zfsSnapshots \cup {id}
      BY <1>2, <2>3, <2>4 DEF CreateZfsSnapshot, SnapshotCreated, Fails
    <3>3. ~AtStep(h, "forget-snapshot")'
      BY <2>3, <2>4 DEF Continue, AtStep, TypeOK
    <3> QED
      BY <1>1, <2>2, <2>3, <2>4, <3>1, <3>2, <3>3 DEF Takes
  <2>5. CASE answer # "ok"
    <3>1. UNCHANGED zfsSnapshots
      BY <1>2, <2>3, <2>5 DEF CreateZfsSnapshot, Refused, Fails, backendVars
    <3> QED
      BY <1>1, <2>3, <2>5, <3>1 DEF KeepsSnapshots, AtStep
  <2> QED
    BY <2>4, <2>5
<1>8. ASSUME NEW id \in SnapshotIds, DeleteSnapshot(h, id)
      PROVE  KeepsSnapshots(h) \/ Drops(h, id) \/ Disowns(h, id)
  <2>1. UNCHANGED snapshots
    BY <1>8 DEF DeleteSnapshot, memoryVars
  <2>2. Continue(h, [step |-> "forget-snapshot", id |-> id]) => Forgets(h, id)'
    BY DEF Continue, Forgets, AtStep, TypeOK
  <2>3. CASE ~config.allowSnapshotDelete
    BY <1>1, <1>8, <2>1, <2>2, <2>3 DEF DeleteSnapshot, Disowns, backendVars
  <2>4. CASE config.allowSnapshotDelete
    <3>1. PICK answer \in Answers :
              /\ DeleteZfsSnapshot(id, answer)
              /\ IF answer = "ok"
                 THEN Continue(h, [step |-> "forget-snapshot", id |-> id])
                 ELSE UNCHANGED call
      BY <1>8, <2>4 DEF DeleteSnapshot
    <3>2. CASE answer = "ok"
      BY <1>1, <2>1, <2>2, <3>1, <3>2 DEF Drops, DeleteZfsSnapshot, SnapshotDeleted
    <3>3. CASE answer # "ok"
      BY <1>1, <1>2, <2>1, <3>1, <3>3 DEF KeepsSnapshots, DeleteZfsSnapshot, Refused, Fails,
         backendVars, AtStep
    <3> QED
      BY <3>2, <3>3
  <2> QED
    BY <2>3, <2>4
<1> QED
  BY <1>3, <1>4, <1>5, <1>6, <1>7, <1>8 DEF Request, SnapshotMoves

LEMMA AdvanceSnapshots ==
    ASSUME TypeOK, NEW h \in Handlers, Advance(h)
    PROVE  SnapshotMoves(h)
<1>1. CASE ForgetSnapshot(h)
  <2>1. PICK id : id = call[h].id
    OBVIOUS
  <2>2. id \in SnapshotIds /\ Forgets(h, id)
    BY <1>1, <2>1, CallShape DEF ForgetSnapshot, Forgets, TypeOK
  <2>3. call'[h] = Idle
    BY <1>1 DEF ForgetSnapshot, Return, TypeOK
  <2>4. Forgot(h, id)
    BY <1>1, <2>1, <2>2, <2>3 DEF ForgetSnapshot, Forgot, AtStep, Idle, backendVars
  <2> QED
    BY <2>2, <2>4 DEF SnapshotMoves
<1>2. CASE ~ForgetSnapshot(h)
  <2>1. UNCHANGED <<snapshots, zfsSnapshots>> /\ ~AtStep(h, "forget-snapshot")
    BY <1>2 DEF Advance, LookupExisting, AllocateDataset, InsertVolume, SaveDelete,
       SaveSnapshot, LookupDataset, CreateDataset, DatasetCreated, Refused, Fails, AtStep,
       memoryVars, backendVars
  <2>2. Return(h) \/ InsertNext(h)
    BY <1>2 DEF Advance, LookupExisting, AllocateDataset, InsertVolume, SaveDelete,
       SaveSnapshot
  <2>3. ~AtStep(h, "forget-snapshot")'
    BY <2>2 DEF Return, InsertNext, Continue, AtStep, Idle, TypeOK
  <2> QED
    BY <2>1, <2>3 DEF SnapshotMoves, KeepsSnapshots
<1> QED
  BY <1>1, <1>2

\* A handler's step lists a snapshot of a registered volume, or none.
LEMMA HandlerSnapshots ==
    ASSUME TypeOK, NEW h \in Handlers, Request(h) \/ Advance(h), NEW id \in SnapshotIds
    PROVE  \/ snapshots'[id] = snapshots[id] \/ snapshots'[id] = NoVolume
           \/ \E v \in Names : /\ Registered(v) /\ volumes[v].dataset = id[1]
                               /\ snapshots'[id] = v
<1> DEFINE Took(v, j) == /\ Registered(v) /\ volumes[v].dataset = j[1]
                         /\ snapshots' = [snapshots EXCEPT ![j] = v]
<1>1. snapshots \in [SnapshotIds -> Names \cup {NoVolume}]
  BY DEF TypeOK, Memory, ControllerStates
<1>2. ASSUME NEW v \in Names, NEW s \in SnapshotNames, CreateSnapshot(h, v, s)
      PROVE  \/ UNCHANGED snapshots
             \/ \E j \in SnapshotIds : Took(v, j)
  <2>1. PICK j : j = <<volumes[v].dataset, s>>
    OBVIOUS
  <2>2. j \in SnapshotIds /\ j[1] = volumes[v].dataset /\ Registered(v)
    BY <1>2, <2>1, VolumeShape DEF CreateSnapshot, DatasetVolumes, SnapshotIds, TypeOK
  <2>3. UNCHANGED snapshots \/ snapshots' = [snapshots EXCEPT ![j] = v]
    BY <1>2, <2>1 DEF CreateSnapshot
  <2> QED
    BY <2>2, <2>3
<1>3. \/ UNCHANGED snapshots
      \/ \E j \in SnapshotIds : snapshots' = [snapshots EXCEPT ![j] = NoVolume]
      \/ \E v \in Names, j \in SnapshotIds : Took(v, j)
  <2>1. CASE Advance(h)
    <3>1. ForgetSnapshot(h) => call[h].id \in SnapshotIds
      BY CallShape DEF ForgetSnapshot, TypeOK
    <3> QED
      BY <2>1, <3>1 DEF Advance, LookupExisting, AllocateDataset, InsertVolume, SaveDelete,
         SaveSnapshot, ForgetSnapshot, memoryVars
  <2>2. CASE Request(h)
    <3>1. \/ UNCHANGED snapshots
          \/ \E v \in Names, s \in SnapshotNames : CreateSnapshot(h, v, s)
      BY <2>2 DEF Request, CreateVolumeFound, CreateVolumeStart, DeleteVolumeAbsent,
         DeleteVolumeKeepDataset, DeleteVolumeAndDataset, UnpublishVolume, PublishVolume,
         DeleteSnapshot, RemoveVolume, memoryVars
    <3> QED
      BY <1>2, <3>1
  <2> QED
    BY <2>1, <2>2
<1> QED
  BY <1>1, <1>3

\* The snapshots in the state file are the old ones or those in memory.
LEMMA FileSnapshots ==
    ASSUME NEW h \in Handlers, HandlerFrame(h)
    PROVE  file' = file \/ file'.snapshots = snapshots'
BY DEF HandlerFrame, Memory

LEMMA SnapshotsSourcedInvariant == Spec => []SnapshotsSourced
<1> USE DEF SnapshotsSourced, SnapshotsClaimed
<1>1. Init => SnapshotsSourced
  BY DEF Init, NoSnapshots, Memory
<1>2. TypeOK /\ VolumesSourced /\ SnapshotsSourced /\ [Next]_vars => SnapshotsSourced'
  <2> SUFFICES ASSUME TypeOK, VolumesSourced, SnapshotsSourced, [Next]_vars
               PROVE  SnapshotsSourced'
    OBVIOUS
  <2>1. ASSUME NEW h \in Handlers, Request(h) \/ Advance(h)
        PROVE  SnapshotsSourced'
    <3>1. SnapshotsClaimed(snapshots')
      BY <2>1, HandlerSnapshots DEF VolumesSourced, Sourced, Registered
    <3> QED
      BY <2>1, <3>1, RequestFrame, AdvanceFrame, FileSnapshots
  <2>2. SnapshotsClaimed(NoSnapshots)
    BY DEF NoSnapshots
  <2>3. CASE Start \/ Crash \/ RegisterConfigured \/ StartupFails
    BY <2>2, <2>3, ProcessVolumes
  <2>4. CASE UNCHANGED vars \/ LateExecution
    BY <2>4 DEF vars, LateExecution, memoryVars
  <2> QED
    BY <2>1, <2>2, <2>3, <2>4 DEF Next
<1> QED
  BY <1>1, <1>2, TypeCorrect, SourcedInvariant, PTL DEF Spec

\* Two calls about one snapshot agree on its volume, if there are two at all.
LEMMA TakesApart ==
    ASSUME OneHandler \/ OwnDatasets, TypeOK, VolumesSourced, SnapshotsSourced,
           NEW h \in Handlers, NEW v \in Names, NEW id \in SnapshotIds, Takes(h, v, id),
           NEW g \in Handlers, g # h
    PROVE  ~Listed(id)
<1>1. OwnDatasets
  BY DEF OneHandler
<1> SUFFICES ASSUME Listed(id) PROVE FALSE
  OBVIOUS
<1>2. snapshots[id] \in Names
  BY DEF Listed, TypeOK, Memory, ControllerStates
<1>3. Claimed(snapshots[id], id[1]) /\ Claimed(v, id[1])
  BY DEF Listed, Takes, Registered, SnapshotsSourced, SnapshotsClaimed, VolumesSourced, Sourced
<1>4. id[1] \in Datasets
  BY DEF SnapshotIds
<1> QED
  BY <1>1, <1>2, <1>3, <1>4 DEF OwnDatasets, Takes

LEMMA MoveKeepsSnapshots ==
    ASSUME OneHandler \/ OwnDatasets, TypeOK, VolumesSourced, SnapshotsSourced, SnapshotParts,
           NEW h \in Handlers, HandlerFrame(h), SnapshotMoves(h)
    PROVE  SnapshotParts'
<1>1. \A g \in Handlers, id \in SnapshotIds : g # h => (Forgets(g, id)' <=> Forgets(g, id))
  BY OthersForget
<1>2. config' = config /\ snapshots \in [SnapshotIds -> Names \cup {NoVolume}]
  BY DEF HandlerFrame, processVars, TypeOK, Memory, ControllerStates
<1> USE DEF SnapshotParts, ListedExist, ExistingListed, ForgettingGone, Listed
<1>3. CASE KeepsSnapshots(h)
  <2>1. \A g \in Handlers, id \in SnapshotIds : Forgets(g, id)' <=> Forgets(g, id)
    BY <1>1, <1>3 DEF KeepsSnapshots, Forgets
  <2>2. UNCHANGED <<snapshots, zfsSnapshots>>
    BY <1>3 DEF KeepsSnapshots
  <2> QED
    BY <1>2, <2>1, <2>2
<1>4. ASSUME NEW v \in Names, NEW id \in SnapshotIds, Takes(h, v, id)
      PROVE  SnapshotParts'
  <2>1. \A g \in Handlers, j \in SnapshotIds : Forgets(g, j)' <=> Forgets(g, j)
    BY <1>1, <1>4 DEF Takes, Forgets
  <2>2. /\ zfsSnapshots' = zfsSnapshots \cup {id}
        /\ snapshots'[id] = v /\ v # NoVolume
        /\ \A j \in SnapshotIds : j # id => snapshots'[j] = snapshots[j]
    BY <1>2, <1>4, NoVolumeAssumption DEF Takes
  <2>3. ListedExist'
    BY <2>1, <2>2
  <2>4. ExistingListed => ExistingListed'
    BY <2>2
  <2>5. config.allowSnapshotDelete => ForgettingGone'
    <3>1. ASSUME NEW g \in Handlers, Forgets(g, id), ForgettingGone
          PROVE  FALSE
      <4>1. g # h
        BY <1>4, <3>1 DEF Takes, Forgets
      <4> QED
        BY <1>4, <3>1, <4>1, TakesApart
    <3> QED
      BY <2>1, <2>2, <3>1
  <2> QED
    BY <1>2, <2>3, <2>4, <2>5
<1>5. ASSUME NEW id \in SnapshotIds, Drops(h, id)
      PROVE  SnapshotParts'
  <2>1. /\ Forgets(h, id)' /\ id \in zfsSnapshots /\ zfsSnapshots' = zfsSnapshots \ {id}
        /\ UNCHANGED snapshots
        /\ \A j \in SnapshotIds : ~Forgets(h, j) /\ (Forgets(h, j)' => j = id)
    BY <1>5 DEF Drops, Forgets
  <2>2. ListedExist'
    BY <1>1, <2>1
  <2>3. config.allowSnapshotDelete => ExistingListed' /\ ForgettingGone'
    BY <1>1, <2>1
  <2> QED
    BY <1>2, <2>2, <2>3
<1>6. ASSUME NEW id \in SnapshotIds, Disowns(h, id)
      PROVE  SnapshotParts'
  <2>1. /\ ~config.allowSnapshotDelete /\ UNCHANGED <<snapshots, zfsSnapshots>>
        /\ \A j \in SnapshotIds : ~Forgets(h, j)
    BY <1>6 DEF Disowns, Forgets
  <2> QED
    BY <1>1, <1>2, <2>1
<1>7. ASSUME NEW id \in SnapshotIds, Forgot(h, id)
      PROVE  SnapshotParts'
  <2>1. /\ Forgets(h, id)
        /\ \A j \in SnapshotIds : ~Forgets(h, j)' /\ (Forgets(h, j) => j = id)
        /\ UNCHANGED zfsSnapshots
        /\ snapshots'[id] = NoVolume
        /\ \A j \in SnapshotIds : j # id => snapshots'[j] = snapshots[j]
    BY <1>2, <1>7 DEF Forgot, Forgets
  <2>2. ListedExist'
    BY <1>1, <2>1
  <2>3. config.allowSnapshotDelete => ExistingListed' /\ ForgettingGone'
    BY <1>1, <2>1
  <2> QED
    BY <1>2, <2>2, <2>3
<1> QED
  BY <1>3, <1>4, <1>5, <1>6, <1>7 DEF SnapshotMoves

\* Nothing is listed and nothing exists.
LEMMA EmptySnapshots ==
    ASSUME snapshots' = NoSnapshots, zfsSnapshots' = {}, \A h \in Handlers : call'[h] = Idle
    PROVE  SnapshotParts'
BY DEF SnapshotParts, ListedExist, ExistingListed, ForgettingGone, Forgets, AtStep, Idle,
   Listed, NoSnapshots

LEMMA SnapshotStep ==
    ASSUME OneHandler \/ OwnDatasets, TypeOK, VolumesSourced, SnapshotsSourced,
           QuietUntilServing, LateRequestsOwn, NothingLate, SnapshotInv, [Next]_vars
    PROVE  SnapshotInv'
<1> SUFFICES ASSUME faults'["crash"] = 0, faults'["backend"] = 0
             PROVE  NoSnapshotsUntilServing' /\ SnapshotParts'
  BY DEF SnapshotInv, Undisturbed
<1>1. NoSnapshotsUntilServing /\ SnapshotParts /\ ~Crash
  BY FaultsCount, FaultKindsAssumption, BackendFaultAssumption DEF SnapshotInv, Undisturbed
<1>0. ~LateExecution
  <2>1. failed = {}
    BY FaultsCount, BackendFaultAssumption DEF NothingLate
  <2> QED
    BY <2>1 DEF LateExecution, CatchUp, LateRequestsOwn
<1>2. ASSUME NEW h \in Handlers, Request(h) \/ Advance(h)
      PROVE  NoSnapshotsUntilServing' /\ SnapshotParts'
  <2>1. HandlerFrame(h)
    BY <1>2, RequestFrame, AdvanceFrame
  <2>2. Serving
    BY <1>2, RequestServes, AdvanceFrame DEF QuietUntilServing
  <2>3. Serving'
    BY <2>1, <2>2 DEF HandlerFrame, processVars, Serving
  <2>4. SnapshotParts'
    BY <1>1, <1>2, <2>1, RequestSnapshots, AdvanceSnapshots, MoveKeepsSnapshots
  <2> QED
    BY <2>3, <2>4 DEF NoSnapshotsUntilServing
<1>3. CASE Start \/ RegisterConfigured \/ StartupFails
  <2>1. snapshots = NoSnapshots /\ file.snapshots = NoSnapshots /\ zfsSnapshots = {}
    BY <1>1, <1>3 DEF NoSnapshotsUntilServing, Serving, Start, RegisterConfigured, StartupFails
  <2>2. UNCHANGED zfsSnapshots
    BY <1>3 DEF Start, RegisterConfigured, StartupFails, LookupDataset, backendVars
  <2>3. snapshots' = NoSnapshots /\ file'.snapshots = NoSnapshots
    BY <1>3, <2>1, ProcessVolumes
  <2>4. \A h \in Handlers : call'[h] = Idle
    BY <1>3, ProcessQuiet
  <2> QED
    BY <2>1, <2>2, <2>3, <2>4, EmptySnapshots DEF NoSnapshotsUntilServing
<1>4. CASE UNCHANGED vars
  <2>1. UNCHANGED <<zfsSnapshots, snapshots, file, running, pending, config, call>>
    BY <1>4 DEF vars, backendVars, memoryVars, processVars
  <2>2. NoSnapshotsUntilServing'
    BY <1>1, <2>1 DEF NoSnapshotsUntilServing, Serving
  <2>3. SnapshotParts'
    BY <1>1, <2>1 DEF SnapshotParts, ListedExist, ExistingListed, ForgettingGone, Forgets,
       AtStep, Listed
  <2> QED
    BY <2>2, <2>3
<1> QED
  BY <1>0, <1>1, <1>2, <1>3, <1>4 DEF Next

\* Until a crash or a TrueNAS error, and although writes of the state file
\* fail, a controller with no call in flight lists only snapshots TrueNAS has,
\* and all of them if it may delete snapshots, when calls do not overlap or
\* every dataset is asked for under one name.  A snapshot is taken with the
\* lock held, and one that is deleted stays listed until after TrueNAS has
\* dropped it, so that nobody can take it again before it is forgotten
\* (create_snapshot, delete_snapshot).  Two volumes on one dataset would defeat
\* that: the snapshots of a dataset are listed by volume.
THEOREM SnapshotsAreMatched ==
    ASSUME OneHandler \/ OwnDatasets
    PROVE  Spec => []SnapshotsMatch
<1>1. Init => SnapshotInv
  <2> SUFFICES ASSUME Init PROVE NoSnapshotsUntilServing /\ SnapshotParts
    BY DEF SnapshotInv
  <2>1. /\ snapshots = NoSnapshots /\ file.snapshots = NoSnapshots /\ zfsSnapshots = {}
        /\ \A h \in Handlers : call[h] = Idle
    BY DEF Init, BackendInit, Memory
  <2> QED
    BY <2>1 DEF NoSnapshotsUntilServing, SnapshotParts, ListedExist, ExistingListed,
       ForgettingGone, Forgets, AtStep, Idle, Listed, NoSnapshots
<1>2. /\ TypeOK /\ VolumesSourced /\ SnapshotsSourced /\ QuietUntilServing /\ SnapshotInv
      /\ LateRequestsOwn /\ NothingLate /\ [Next]_vars
      => SnapshotInv'
  BY SnapshotStep
<1>3. TypeOK /\ SnapshotInv => SnapshotsMatch
  <2> SUFFICES ASSUME TypeOK, SnapshotInv, faults["crash"] + faults["backend"] = 0,
                      \A h \in Handlers : call[h] = Idle
               PROVE  LET listed == {id \in SnapshotIds : snapshots[id] # NoVolume}
                      IN  /\ listed \subseteq zfsSnapshots
                          /\ config.allowSnapshotDelete => zfsSnapshots \subseteq listed
    BY DEF SnapshotsMatch
  <2>1. Undisturbed
    BY FaultKindsAssumption, BackendFaultAssumption DEF Undisturbed, TypeOK, FaultsTypeOK
  <2>2. \A h \in Handlers, id \in SnapshotIds : ~Forgets(h, id)
    BY DEF Forgets, AtStep, Idle
  <2>3. zfsSnapshots \subseteq SnapshotIds
    BY DEF TypeOK, BackendTypeOK
  <2> QED
    BY <2>1, <2>2, <2>3 DEF SnapshotInv, SnapshotParts, ListedExist, ExistingListed, Listed
<1> QED
  BY <1>1, <1>2, <1>3, TypeCorrect, SourcedInvariant, SnapshotsSourcedInvariant,
     ServingInvariant, ExistingInvariant, NothingLateInvariant, PTL DEF Spec
=============================================================================
