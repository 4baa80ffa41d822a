SPECIFICATION Spec
CONSTANTS
    A = A
    B = B
    subA = subA
    unsubA = unsubA
    myA = myA
    myBadA = myBadA
    topoA = topoA
    untopoA = untopoA
    delA = delA
    confA = confA
    specA = specA
    stateA = stateA
    delB = delB
    specB = specB
    nopeB = nopeB
    Absent = Absent
    Unknown = Unknown
    Nobody = Nobody
    Sockets = {A, B}
    Writers = {A}
    Addr = {1, 2}
    Requests = {subA, myBadA, unsubA, myA, topoA, untopoA, stateA, confA, specA, delB, specB, nopeB}
    Kind <- MCKind
    Sender <- MCSender
    Addresses <- MCAddresses
    Live = {1}
    Malformed = {}
    SilentAddr = {1}
    MAX_LINES = 2
    MAX_REQUESTS = 3
    MAX_JUNK = 1
INVARIANT AnsweredOnce
CHECK_DEADLOCK FALSE
