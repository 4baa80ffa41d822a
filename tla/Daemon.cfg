SPECIFICATION Spec
CONSTANTS
    rc = rc
    other = other
    slow = slow
    fast = fast
    A = A
    Null = Null
    Addr = {1}
    Types = {rc, other}
    RcTypes = {rc}
    Speeds = {1, 2}
    Clients = {A}
    Requests = {fast}
    NewSpeed <- MCNewSpeed
    Files <- MCFiles
    ATTEMPTS = 1
    MTB_MODULE_ACTIVATIONS = 2
    MAX_CHAINS = 2
    Events = {"fail", "exchange", "unplug", "config", "delete", "bootloader"}
INVARIANTS
    ReconnectsWhileClosed
    ListedIsLookedAfter
    NoDeletedModule
    SubscribersKnow
    SpeedAnswered
    SpeedsAgree
