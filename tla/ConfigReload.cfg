SPECIFICATION Spec
CONSTANTS
    Kinds = {"UNIS", "LED"}
    ConfigRequests <- MCConfigRequests
    OutputRequests <- MCOutputRequests
    Firmwares <- MCFirmwares
    BLOCK_SIZE = 4
    BlocksPerPage <- MCBlocksPerPage
    ADDRESSES = 64
    RuntimeLoad = TRUE
INVARIANT ConfiguredIsStored
