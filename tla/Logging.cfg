SPECIFICATION Spec
CONSTANTS
    LogLevels = {1, 3}
    PROD_LOGLEVEL = 3
    DETECT_LEVEL = 1
    HISTORY = 3
    FUTURE = 2
    SameSecond = FALSE
    MAX_LOG = 9
    MAX_FILES = 4
INVARIANTS
    Bounded
    NeighboursStored
    FilesAreRuns
CHECK_DEADLOCK FALSE
