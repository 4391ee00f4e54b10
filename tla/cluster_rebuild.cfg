SPECIFICATION Spec

CONSTANTS
    repo = repo
    content = content
    devlike = devlike
    tank = tank
    br0 = br0
    Policies <- MCPolicies
    DevLooking = {devlike}
    Identifier <- MCIdentifier
    Segment <- MCSegment
    ResourceName <- MCSegment
    Datasets = {tank}
    Bridges = {br0}
    MaxU16 = 2
    MaxNodes = 2
    Blank = Blank
    Unset = Unset
    Intents <- OneIntent
    Found <- MCFound
    Selections <- MCSelections
    FaultMixes <- AnyMix
    FaultKinds <- MCFaultKinds
    MaxFaults <- RebuiltOnce

INVARIANTS
    InstalledManifestsPresent
