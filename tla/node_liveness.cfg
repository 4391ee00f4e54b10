SPECIFICATION FairSpec

CONSTANTS
    repos = repos
    samples = samples
    pod1 = pod1
    pod2 = pod2
    pod3 = pod3
    h1 = h1
    h2 = h2
    t1 = t1
    t2 = t2
    Volumes = {repos, samples}
    Targets = {pod1, pod3}
    Handlers = {h1, h2}
    Tags = {t1, t2}
    Disk = Disk
    NoExport = NoExport
    NoPublish = NoPublish
    Paths <- MCPaths
    FaultKinds <- MCFaultKinds
    MaxFaults <- OneOfEach
    RuntimeConfigs <- FixedConfig
    StageRequests <- StageAll
    PublishRequests <- TwoPods
    Unstageable = {}
    Unpublishable = {}

INVARIANTS
    MountsConfined

PROPERTIES
    RetriesSucceed
