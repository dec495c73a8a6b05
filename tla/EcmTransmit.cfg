SPECIFICATION FairSpec
CONSTANTS
    MaxPacket = 2
    ECM_MAX_SEGMENT_SIZE = 5
    FrameLens = {1, 2, 5}
    BusyLimit = 2
    XmitTries = 2
    MaxFrames = 2
    MaxResets = 1
    MaxDeconfigs = 1
    MaxHalts = 2
    Troubles = {{}, {"slow", "resets", "multiples"}, {"refusals", "deconfigs"},
                {"slow", "refusals", "resets"}, {"slow", "refusals", "halts", "multiples"}}
    NULL = NULL
INVARIANTS FrameEndSignified HostBytesAscend
PROPERTIES ImplementsMailbox CopyUndisturbed ReadyAgain
