SPECIFICATION FairSpec
CONSTANTS
    Clients = {c1, c2}
    c1 = c1
    c2 = c2
    num_entry = 2
    MaxInFlight = 2
    MaxLosses = 1
    MaxReboots = 1
    MaxNoPbuf = 1
    MaxHurries = 1
    Shapes = {"short", "long", "late"}
    VACANT = VACANT
    NONE = NONE
INVARIANTS OneLeasePerClient BoundIsRegistered
PROPERTIES EveryoneBound
