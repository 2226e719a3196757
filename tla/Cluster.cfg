SPECIFICATION Spec
CONSTANTS
    Node = {1, 2, 3}
    MapKey = {2}
    AuxKey = {3}
    Workload <- MCWorkload
INVARIANTS AckMeansReplicated HoldersHaveAcked GatherExact
CHECK_DEADLOCK FALSE
