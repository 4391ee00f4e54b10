SPECIFICATION Spec

CONSTANTS
    v0 = v0
    v1 = v1
    v2 = v2
    a1 = a1
    a2 = a2
    Nodes = {1}
    Exports = {1}
    Versions = {v0, v1, v2}
    Missing = Missing
    Foreign = Foreign
    NoDisk = NoDisk
    Appliers = {a1}
    Configs <- OneConfig
    Flags <- NoFlags
    Kinds = {"apply", "install", "check"}
    Sites <- GoodSite
    Hosts <- FreshHost
    Misses <- NoneMissed
    Free = Free
    Left = Left
    MeddlesDuring = FALSE
    FaultKinds <- MCFaultKinds
    FaultMixes <- SomeMixes
    MaxFaults <- NoFailures

PROPERTIES
    ConvergedHostsAccepted
