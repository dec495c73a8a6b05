SPECIFICATION FairSpec
CONSTANTS
    WORD = 32
    Period = 3
    XmitTries = 2
    MaxSends = 2
    MaxLag = 2
INVARIANTS OnTime GivesUpInTime
PROPERTIES TimeIsCurrent TcpTmrServed
