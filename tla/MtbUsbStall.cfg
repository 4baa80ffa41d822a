SPECIFICATION Spec
CONSTANTS
    speed1 = speed1
    speed2 = speed2
    set1 = set1
    config2 = config2
    ping = ping
    Cmds = {set1, config2, ping}
    Modules = {1, 2}
    BusCodes = {"SetOutput", "SetConfig"}
    BusAnswers = {"OutputSet", "Acknowledgement"}
    Kind <- MCKind
    Module <- MCModule
    Code <- MCCode
    Answer <- MCAnswer
    Fatal = {ping}
    Throwing = {set1, config2}
    MAX_PENDING = 2
    RESEND_MAX = 2
INVARIANT OutIsDrained
