SPECIFICATION FairSpec
CONSTANTS
    MaxPacket = 2
    ECM_MAX_SEGMENT_SIZE = 5
    FrameLens = {2, 5}
    MaxFrames = 3
    MaxResets = 1
    MaxDeconfigs = 1
    MaxHalts = 2
    Troubles = {{}, {"resets", "halts"}, {"deconfigs", "nopbuf"}}
    NULL = NULL
INVARIANTS QuietWhileFrameOwned WholePacket NoOverrun NoNullHandle
PROPERTIES ImplementsMailbox HeldFrameKept FrameThenRearmed EverythingDelivered
