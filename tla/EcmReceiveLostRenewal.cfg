SPECIFICATION Spec
CONSTANTS
    MaxPacket = 2
    ECM_MAX_SEGMENT_SIZE = 5
    FrameLens = {1, 5}
    MaxFrames = 3
    MaxResets = 0
    MaxDeconfigs = 0
    MaxHalts = 0
    Troubles = {{}}
    NULL = NULL
INVARIANTS NoLostRenewal
