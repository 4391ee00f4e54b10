SPECIFICATION Spec

CONSTANTS
    MaxCalls = 4
    MaxRetries = 1
    FaultKinds <- MCFaultKinds
    MaxFaults <- ThreeLossesTwoTimeouts

INVARIANTS
    RpcTypeOK
    LossesAreOvercome

PROPERTIES
    ImplementsService

CHECK_DEADLOCK FALSE
