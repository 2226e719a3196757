CONSTANTS
    n1 = n1
    n2 = n2
    c1 = c1
    c2 = c2
    Node = {n1, n2}
    Command = {c1, c2}
    None = None
    Keep = 1
    Durable = FALSE
    MaxElections = 2
    MaxLog = 2
    MaxRestarts = 0
    MaxInFlight = 2
    MaxEvents = 9
SPECIFICATION FairSpecEither
CHECK_DEADLOCK FALSE
PROPERTIES
    EventuallyApplied
