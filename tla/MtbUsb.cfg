SPECIFICATION FairSpec
CONSTANTS
    speed1 = speed1
    speed2 = speed2
    set1 = set1
    config2 = config2
    ping = ping
    Cmds = {speed1, speed2, set1, config2}
    Modules = {1, 2}
    BusCodes = {"SetOutput", "SetConfig"}
    BusAnswers = {"OutputSet", "Acknowledgement"}
    Kind <- MCKind
    Module <- MCModule
    Code <- MCCode
    Answer <- MCAnswer
    Fatal = {speed1}
    Throwing = {set1, config2}
    MAX_PENDING = 2
    RESEND_MAX = 2
INVARIANTS
    TypeOK
    PendingSound
    OnlyThrowsStall
    WaitingIsQueued
    TimeoutAfterAllAttempts
PROPERTIES
    ImplementsService
    EveryCommandEnds
