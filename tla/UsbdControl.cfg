SPECIFICATION Spec
CONSTANTS
    MaxPacket = 2
    DescLens = {2, 5}
    WLengths = {0, 4}
    Addresses = {0, 5}
    HaltEps = {3, 128}
    MaxAborts = 1
    MaxResets = 1
    MaxLocks = 2
    NULL = NULL
INVARIANTS DataStageExact NeverMute ConfigurationAgrees AddressAgrees
PROPERTIES Enumerated
