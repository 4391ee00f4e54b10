--------------------------- MODULE TrueNasBackend ---------------------------
(***************************************************************************)
(* The part of TrueNAS the CSI controller uses through its                 *)
(* ControllerBackend trait: filesystem datasets and their snapshots.       *)
(* TrueNAS itself is outside the repository; each operator below says what *)
(* one call of the trait may do and answer.                                *)
(*                                                                         *)
(* A call that fails (the connection is lost, or the client stops waiting  *)
(* after its request timeout) says nothing: TrueNAS may have executed the  *)
(* request, may execute it much later, or never.  Such a request stays     *)
(* behind in "late", and CatchUp executes it.  A call that a crash of the  *)
(* controller cuts short leaves the same behind as one that fails just     *)
(* before the crash.                                                       *)
(***************************************************************************)
EXTENDS Faults

CONSTANTS Datasets,          \* dataset names a request or the config may use
          SnapshotNames,     \* snapshot names a request may use
          InitialDatasets    \* datasets that exist before the controller runs

ASSUME InitialDatasetsAssumption == InitialDatasets \subseteq Datasets
ASSUME BackendFaultAssumption == "backend" \in FaultKinds

VARIABLES datasets,          \* filesystem datasets that exist
          zfsSnapshots,      \* snapshots that exist, as <<dataset, name>>
          late,              \* failed requests TrueNAS may still execute: how
                             \* often each of them
          failed             \* every request a call for which has failed, kept
                             \* to state properties with

backendVars == <<datasets, zfsSnapshots, late, failed>>

SnapshotIds == Datasets \X SnapshotNames
Answers == {"ok", "err"}

BackendRequests ==
    [op: {"create-dataset", "delete-dataset"}, dataset: Datasets]
    \cup [op: {"create-snapshot", "delete-snapshot"}, snapshot: SnapshotIds]

CreationOf(d) == [op |-> "create-dataset", dataset |-> d]
DeletionOf(d) == [op |-> "delete-dataset", dataset |-> d]
SnapshotCreationOf(id) == [op |-> "create-snapshot", snapshot |-> id]
SnapshotDeletionOf(id) == [op |-> "delete-snapshot", snapshot |-> id]

BackendTypeOK ==
    /\ datasets \subseteq Datasets
    /\ zfsSnapshots \subseteq SnapshotIds
    /\ late \in [BackendRequests -> Nat]
    /\ failed \subseteq BackendRequests

BackendInit ==
    /\ datasets = InitialDatasets
    /\ zfsSnapshots = {}
    /\ late = [r \in BackendRequests |-> 0]
    /\ failed = {}

-----------------------------------------------------------------------------
(***************************************************************************)
(* What TrueNAS does when it executes a request it does not refuse.        *)
(***************************************************************************)
\* pool.dataset.create refuses a name in use.
DatasetCreated(d) ==
    /\ d \notin datasets
    /\ datasets' = datasets \cup {d}
    /\ UNCHANGED zfsSnapshots

HasSnapshots(d) == \E s \in SnapshotNames : <<d, s>> \in zfsSnapshots

\* pool.dataset.delete with recursive = false refuses a dataset that is not
\* there or that still has snapshots.
DatasetDeleted(d) ==
    /\ d \in datasets
    /\ ~HasSnapshots(d)
    /\ datasets' = datasets \ {d}
    /\ UNCHANGED zfsSnapshots

\* pool.snapshot.create refuses a missing dataset or a snapshot name that
\* dataset already has.
SnapshotCreated(id) ==
    /\ id[1] \in datasets
    /\ id \notin zfsSnapshots
    /\ zfsSnapshots' = zfsSnapshots \cup {id}
    /\ UNCHANGED datasets

\* pool.snapshot.delete refuses an unknown snapshot.
SnapshotDeleted(id) ==
    /\ id \in zfsSnapshots
    /\ zfsSnapshots' = zfsSnapshots \ {id}
    /\ UNCHANGED datasets

-----------------------------------------------------------------------------
(***************************************************************************)
(* The calls of the controller                                             *)
(***************************************************************************)
\* A call ends without TrueNAS having answered request r.
Fails(r) ==
    /\ Fault("backend")
    /\ late' = [late EXCEPT ![r] = @ + 1]
    /\ failed' = failed \cup {r}
    /\ UNCHANGED <<datasets, zfsSnapshots>>

\* TrueNAS has executed a request and said so.
Succeeds == NoFault /\ UNCHANGED <<late, failed>>

\* TrueNAS has refused a request and said so.
Refused == NoFault /\ UNCHANGED backendVars

\* lookup_filesystem_dataset: pool.dataset.query finds the dataset or not.
LookupDataset(d, answer) ==
    /\ \/ answer = "found" /\ d \in datasets /\ NoFault
       \/ answer = "missing" /\ d \notin datasets /\ NoFault
       \/ answer = "err" /\ Fault("backend")
    /\ UNCHANGED backendVars

\* Mutant of CreateDataset: an error of TrueNAS is reported as success.
CreateDatasetIgnoringErrors(d, answer) ==
    /\ answer = "ok"
    /\ datasets' \in {datasets, datasets \cup {d}}
    /\ UNCHANGED zfsSnapshots
    /\ Succeeds

\* create_filesystem_dataset
CreateDataset(d, answer) ==
    \/ answer = "ok" /\ DatasetCreated(d) /\ Succeeds
    \/ answer = "err" /\ d \in datasets /\ Refused
    \/ answer = "err" /\ Fails(CreationOf(d))

\* delete_filesystem_dataset
DeleteDataset(d, answer) ==
    \/ answer = "ok" /\ DatasetDeleted(d) /\ Succeeds
    \/ answer = "err" /\ (d \notin datasets \/ HasSnapshots(d)) /\ Refused
    \/ answer = "err" /\ Fails(DeletionOf(d))

\* create_snapshot
CreateZfsSnapshot(id, answer) ==
    \/ answer = "ok" /\ SnapshotCreated(id) /\ Succeeds
    \/ answer = "err" /\ (id[1] \notin datasets \/ id \in zfsSnapshots) /\ Refused
    \/ answer = "err" /\ Fails(SnapshotCreationOf(id))

\* delete_snapshot
DeleteZfsSnapshot(id, answer) ==
    \/ answer = "ok" /\ SnapshotDeleted(id) /\ Succeeds
    \/ answer = "err" /\ id \notin zfsSnapshots /\ Refused
    \/ answer = "err" /\ Fails(SnapshotDeletionOf(id))

\* TrueNAS gets to a request whose caller has given up.
CatchUp ==
    \E r \in BackendRequests :
       /\ late[r] > 0
       /\ late' = [late EXCEPT ![r] = @ - 1]
       /\ \/ r.op = "create-dataset" /\ DatasetCreated(r.dataset)
          \/ r.op = "delete-dataset" /\ DatasetDeleted(r.dataset)
          \/ r.op = "create-snapshot" /\ SnapshotCreated(r.snapshot)
          \/ r.op = "delete-snapshot" /\ SnapshotDeleted(r.snapshot)
       /\ UNCHANGED <<failed, faults>>
=============================================================================
