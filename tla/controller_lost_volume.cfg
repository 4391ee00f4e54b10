SPECIFICATION Spec

CONSTANTS
    a = a
    b = b
    home = home
    scratch = scratch
    node1 = node1
    h1 = h1
    h2 = h2
    Names = {a, b}
    Nodes = {node1}
    Handlers = {h1}
    NoVolume = NoVolume
    NoDataset = NoDataset
    NoHandler = NoHandler
    Datasets = {home, scratch}
    InitialDatasets = {home}
    SnapshotNames = {"s"}
    FaultKinds <- MCFaultKinds
    MaxFaults <- CrashAndSave
    CreateRequests <- OwnDatasetRequests
    Configs <- KeepingConfigs

INVARIANTS
    CreatedVolumesKept
