SPECIFICATION Spec
CONSTANTS
    A = A
    B = B
    on1A = on1A
    on1B = on1B
    two1A = two1A
    on2B = on2B
    off1A = off1A
    confA = confA
    confB = confB
    fwA = fwA
    badA = badA
    rebootB = rebootB
    resetA = resetA
    resetB = resetB
    beaconB = beaconB
    addrB = addrB
    Requests = {on1A, on1B, confB, fwA}
    Kind <- MCKind
    Socket <- MCSocket
    Malformed = {}
    Blocks = 1
    Ports = {1}
    Values = {0, 1, 2}
    Outputs <- MCOutputs
    Configs = {"c1", "c2"}
    NewConfig <- MCNewConfig
    Safe <- MCSafe
    InitConfigs = {"c1"}
    Events = {"unplug", "early", "leave", "overlap"}
    ATTEMPTS = 0
    InOrder = FALSE
    MAX_BUS = 2
    MTB_MODULE_ACTIVATIONS = 1
INVARIANT OneResponse
CHECK_DEADLOCK FALSE
