SPECIFICATION LinkSpec
CONSTANTS
    setA = setA
    setB = setB
    config = config
    speed1 = speed1
    speed2 = speed2
    Cmds = {setA, setB, config, speed1, speed2}
    Modules = {1, 2}
    BusCodes = {"SetOutput", "SetConfig"}
    BusAnswers = {"OutputSet", "Acknowledgement"}
    Kind <- MCKind
    Module <- MCModule
    Code <- MCCode
    Answer <- MCAnswer
    Fatal = {}
    Throwing = {}
    Slow = {speed1}
    MAX_PENDING = 2
    RESEND_MAX = 2
INVARIANT PendingIsOnTheLine
PROPERTY AnswerReachesItsCommand
