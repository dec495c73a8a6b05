SPECIFICATION Spec
CONSTANTS
    EpEntries = 2
    EntrySize = 1
    MaxPacket = 2
    Scenarios = {{"EP0_IN", "EP0_OUT", "ECM_DATA_IN_EP"}}
INVARIANTS PacketIntact
