SPECIFICATION FairSpec
CONSTANTS
    SEQ = 64
    ISNs = {5, 58}
    StreamLen = 10
    TCP_WND = 8
    TCP_MSS = 4
INVARIANTS StreamExact QueueSound
PROPERTIES EdgeKept Delivered
