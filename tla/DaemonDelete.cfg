SPECIFICATION Spec
CONSTANTS
    rc = rc
    other = other
    slow = slow
    fast = fast
    A = A
    Null = Null
    Addr = {1}
    Types = {rc, other}
    RcTypes = {rc}
    Speeds = {1, 2}
    Clients = {}
    Requests = {}
    NewSpeed <- MCNewSpeed
    Files <- MCFiles
    ATTEMPTS = 1
    MTB_MODULE_ACTIVATIONS = 2
    MAX_CHAINS = 2
    Events = {"fail", "delete", "pending"}
INVARIANT NoDeletedModule
CHECK_DEADLOCK FALSE
