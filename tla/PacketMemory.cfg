SPECIFICATION Spec
CONSTANTS
    EpEntries = 2
    EntrySize = 1
    MaxPacket = 2
    Scenarios = {{"ECM_DATA_IN_EP", "ECM_DATA_OUT_EP", "ECM_NOTIFICATION_IN_EP"},
                 {"EP0_IN", "EP0_OUT", "ECM_DATA_OUT_EP", "ECM_NOTIFICATION_IN_EP"}}
INVARIANTS TypeOK PacketIntact
