SPECIFICATION Spec

CONSTANTS
    repos = repos
    samples = samples
    pod1 = pod1
    pod2 = pod2
    pod3 = pod3
    h1 = h1
    h2 = h2
    t1 = t1
    t2 = t2
    Volumes = {repos}
    Targets = {pod1, pod2}
    Handlers = {h1}
    Tags = {t1, t2}
    Disk = Disk
    NoExport = NoExport
    NoPublish = NoPublish
    Paths <- MCPaths
    FaultKinds <- MCFaultKinds
    MaxFaults <- OneMount
    RuntimeConfigs <- FixedConfig
    StageRequests <- StageAll
    PublishRequests <- ReposPods
    Unstageable = {}
    Unpublishable = {pod2}

INVARIANTS
    ReadOnlyPublishes
