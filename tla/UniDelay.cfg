SPECIFICATION Spec
CONSTANTS
    Kinds = {"UNI"}
    ConfigRequests <- MCConfigRequests
    OutputRequests <- MCOutputRequests
    Firmwares <- MCFirmwares
    BLOCK_SIZE = 4
    BlocksPerPage <- MCBlocksPerPage
    ADDRESSES = 64
    RuntimeLoad = FALSE
INVARIANT ConfigIsGot
