SPECIFICATION Spec
CONSTANTS
    Kinds = {"UNI", "UNI-IR", "UNIS", "LED"}
    ConfigRequests <- MCConfigRequests
    OutputRequests <- MCOutputRequests
    Firmwares <- MCFirmwares
    BLOCK_SIZE = 4
    BlocksPerPage <- MCBlocksPerPage
    ADDRESSES = 64
    RuntimeLoad = FALSE
INVARIANTS
    ModuleHasConfig
    FileLoadsBack
    OutputsAsAsked
    FlashedIsAsked
