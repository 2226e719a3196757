CONSTANTS
    n1 = n1
    n2 = n2
    n3 = n3
    c1 = c1
    c2 = c2
    Node = {n1, n2, n3}
    Command = {c1, c2}
    None = None
    Keep = 9
    Durable = TRUE
    MaxElections = 2
    MaxLog = 2
    MaxRestarts = 1
    MaxInFlight = 2
    MaxEvents = 4
SPECIFICATION SpecEither
SYMMETRY Symmetry
CHECK_DEADLOCK FALSE
INVARIANTS
    ElectionSafety
    LogMatching
    LeaderCompleteness
    StateMachineSafety
    LogContiguous
    

    
