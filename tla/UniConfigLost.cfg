SPECIFICATION Spec
CONSTANTS
    A = A
    B = B
    on1A = on1A
    on1B = on1B
    two1A = two1A
    on2B = on2B
    off1A = off1A
    confA = confA
    confB = confB
    fwA = fwA
    badA = badA
    rebootB = rebootB
    resetA = resetA
    resetB = resetB
    beaconB = beaconB
    addrB = addrB
    Requests = {confB}
    Kind <- MCKind
    Socket <- MCSocket
    Malformed = {}
    Blocks = 2
    Ports = {1, 2}
    Values = {0, 1, 2}
    Outputs <- MCOutputs
    Configs = {"c1", "c2"}
    NewConfig <- MCNewConfig
    Safe <- MCSafe
    InitConfigs = {"c1"}
    Events = {}
    ATTEMPTS = 0
    InOrder = TRUE
    MAX_BUS = 2
    MTB_MODULE_ACTIVATIONS = 2
INVARIANT ConfigAgrees
CHECK_DEADLOCK FALSE
