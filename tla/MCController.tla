---------------------------- MODULE MCController ----------------------------
(***************************************************************************)
(* Small instances of Controller for TLC.                                  *)
(***************************************************************************)
EXTENDS ControllerRefinement, TLC

CONSTANTS a, b, home, scratch, node1, h1, h2

MCFaultKinds == {"crash", "save", "backend"}

\* Crashes, failing state-file writes and TrueNAS errors a behaviour may hold.
MaxFaultsOf(crash, save, backend) ==
    [k \in MCFaultKinds |-> CASE k = "crash" -> crash
                              [] k = "save" -> save
                              [] k = "backend" -> backend]
CrashAndSave == MaxFaultsOf(1, 1, 0)
AllFaults == MaxFaultsOf(1, 1, 1)
CrashesAndBackend == MaxFaultsOf(2, 0, 1)

CreateRequest(name, mode, dataset, optIn) ==
    [name |-> name, mode |-> mode, dataset |-> dataset,
     access |-> "read-write", allowMultiWriter |-> FALSE,
     deleteOptIn |-> optIn, capabilities |-> {"writer"}]

Existing(name, dataset) == CreateRequest(name, "existing-dataset", dataset, FALSE)
Dynamic(name, dataset, optIn) ==
    CreateRequest(name, "dynamic-filesystem-dataset", dataset, optIn)

\* A writer asks for a dataset under a read-only policy.
RefusedWriter(name, dataset) ==
    [Existing(name, dataset) EXCEPT !.access = "read-only"]

\* Any name may ask for any dataset, in either mode.
MixedRequests ==
    {Existing(n, d) : n \in Names, d \in Datasets}
    \cup {Dynamic(n, d, TRUE) : n \in Names, d \in Datasets}
    \cup {[Existing(b, home) EXCEPT !.deleteOptIn = TRUE]}
    \cup {RefusedWriter(a, home), Dynamic(b, NoDataset, FALSE)}

\* Every claim has its own dataset, as when a StorageClass serves one claim;
\* a call may be repeated while the first one is still running.
OwnDatasetRequests == {Existing(a, home), Dynamic(b, scratch, TRUE)}

\* The same, with requests whose opt-in or missing dataset must not matter.
OddRequests ==
    {Existing(a, home), [Existing(a, home) EXCEPT !.deleteOptIn = TRUE],
     Dynamic(b, scratch, TRUE), Dynamic(b, NoDataset, FALSE)}

Config(create, delete, snapshotDelete, existing) ==
    [allowCreate |-> create, allowDelete |-> delete,
     allowSnapshotDelete |-> snapshotDelete, existing |-> existing]

HomeConfigured == [id |-> a, name |-> a, dataset |-> home,
                   access |-> "read-only", allowMultiWriter |-> FALSE]
ScratchConfigured == [HomeConfigured EXCEPT !.id = b, !.dataset = scratch]

\* The configuration may change between two runs of the process.
ChangingConfigs == {Config(TRUE, TRUE, TRUE, <<HomeConfigured>>),
                    Config(FALSE, FALSE, FALSE, <<>>)}
DeletingConfigs == {Config(TRUE, TRUE, TRUE, <<>>)}
ForbiddingConfigs == DeletingConfigs \cup {Config(FALSE, FALSE, FALSE, <<>>)}
KeepingConfigs == {Config(TRUE, FALSE, TRUE, <<>>)}
\* scratch may be preset, although TrueNAS does not have it.
PresetConfigs == {Config(TRUE, FALSE, TRUE, <<>>),
                  Config(TRUE, FALSE, TRUE, <<ScratchConfigured>>)}

\* No behaviour holds both a crash and a failing write.
CrashOrSave == faults["crash"] = 0 \/ faults["save"] = 0

\* The handlers are interchangeable.
HandlerSymmetry == Permutations(Handlers)
=============================================================================
