SPECIFICATION FairSpec

CONSTANTS
    repo = repo
    content = content
    devlike = devlike
    tank = tank
    br0 = br0
    Policies <- MCPolicies
    DevLooking = {devlike}
    Identifier <- MCIdentifier
    Segment <- MCSegment
    ResourceName <- MCSegment
    Datasets = {tank}
    Bridges = {br0}
    MaxU16 = 2
    MaxNodes = 2
    Blank = Blank
    Unset = Unset
    Intents <- MCIntents
    Found <- MCFound
    Selections <- MCSelections
    FaultMixes <- SomeMixes
    FaultKinds <- MCFaultKinds
    MaxFaults <- OneOfEach

\* With an invalid configuration every command is refused.
CHECK_DEADLOCK FALSE

INVARIANTS
    PlatformTypeOK
    MarkersTrue
    PluginsCurrent
    PluginsStart
    SentinelRemoved

PROPERTIES
    JoinsFollowFirst
    ClusterConverges
