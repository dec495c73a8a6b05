SPECIFICATION FairSpec
CONSTANTS
    PBUF_POOL_SIZE = 3
    REFS = 4
    DNS_MAX_HOST_NAME_LEN = 4
    KnownNames <- MCKnownNames
    Messages <- MCMessages
    Leftovers <- MCLeftovers
    Troubles = {{}, {"holds"}, {"holds", "timer"}}
INVARIANTS PoolWhole NeverStarved ParseExact AnswerExact
PROPERTY FrameServed
