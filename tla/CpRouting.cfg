CONSTANTS
    n1 = n1
    n2 = n2
    n3 = n3
    c1 = c1
    c2 = c2
    Node = {n1, n2, n3}
    Client = {c1, c2}
    SessionTick = SessionTick
    Command = {c1, c2, SessionTick}
    None = None
    Keep = 9
    Lossy = TRUE
    MaxElections = 2
    MaxLog = 2
    MaxInFlight = 2
    MaxSessionTicks = 0
SPECIFICATION Spec
SYMMETRY Symmetry
CHECK_DEADLOCK FALSE
INVARIANTS
    AppliedOnce
    AnsweredOnce
    StableLeaderAnswersOwn
