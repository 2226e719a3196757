CONSTANTS
    n1 = n1
    n2 = n2
    c1 = c1
    Node = {n1, n2}
    Client = {c1}
    SessionTick = SessionTick
    Command = {c1, SessionTick}
    None = None
    Keep = 9
    Lossy = FALSE
    MaxElections = 1
    MaxLog = 2
    MaxInFlight = 4
    MaxSessionTicks = 1
SPECIFICATION FairSpec
CHECK_DEADLOCK FALSE
PROPERTIES
    EventuallyAnswered
