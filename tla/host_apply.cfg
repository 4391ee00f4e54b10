SPECIFICATION FairSpec

CONSTANTS
    v0 = v0
    v1 = v1
    v2 = v2
    a1 = a1
    a2 = a2
    Nodes = {1}
    Exports = {1, 2}
    Versions = {v0, v1, v2}
    Missing = Missing
    Foreign = Foreign
    NoDisk = NoDisk
    Appliers = {a1}
    Configs <- AllConfigs
    Flags <- SomeFlags
    Kinds = {"apply", "install", "check"}
    Sites <- MCSites
    Hosts <- MCHosts
    Misses <- OneMissed
    Free = Free
    Left = Left
    MeddlesDuring = FALSE
    FaultKinds <- MCFaultKinds
    FaultMixes <- SomeMixes
    MaxFaults <- OneOfEach

INVARIANTS
    HostTypeOK
    LockOwned
    ExecutedIsConverged
    ServesDesired
    RestartsNeeded

PROPERTIES
    RootDisksKept
    RunningVmsKept
    DatasetsUntouched
    RollbackRestores
    ApplySettles
