SPECIFICATION FairSpec
CONSTANTS
    Messages <- MCMessages
    MAX_MESSAGES = 2
    MAX_LOST = 1
INVARIANT ParsedAsSent
PROPERTY EverythingParsed
