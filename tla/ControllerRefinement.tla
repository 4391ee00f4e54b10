------------------------ MODULE ControllerRefinement ------------------------
(***************************************************************************)
(* The controller implements the durable registry of VolumeRegistry as     *)
(* long as the state file can be written and the controller does not       *)
(* delete datasets.  The registry is the state file: what is only in       *)
(* memory does not count.                                                  *)
(***************************************************************************)
EXTENDS Controller

KnownInFile ==
    [v \in Names |-> IF file.volumes[v] = NoVolume
                     THEN NoDataset ELSE file.volumes[v].dataset]

Registry == INSTANCE VolumeRegistry
                WITH Ids <- Names, known <- KnownInFile,
                     attached <- Assigned(file), told <- promised

\* Every step of the controller, crashes, restarts and concurrent calls
\* included, is a step of the durable registry or leaves it unchanged.
ImplementsRegistry == Registry!Spec
=============================================================================
