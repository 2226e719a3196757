CONSTANTS
    l1 = l1
    l2 = l2
    t1 = t1
    Lock = {l1, l2}
    Thread = {t1}
    TTL = 2
    MaxSession = 2
    MaxClock = 4
    MaxFence = 3
    MaxHold = 2
SPECIFICATION Spec
CHECK_DEADLOCK FALSE
INVARIANTS
    FenceIdentifiesTenure
    EndReleases
PROPERTIES
    LeaseKept
