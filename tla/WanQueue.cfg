CONSTANTS
    t1 = t1
    t2 = t2
    Target = {t1, t2}
    Default = Default
    Torn = Torn
    RingSize = 1
    Batch = 2
    QueueBytes = 2
    MaxRecords = 3
    MaxCrashes = 2
    MaxLate = 1
SPECIFICATION FairSpec
INVARIANTS
    SeqsStable
    AckedWasApplied
    RetainedUntilApplied
    
PROPERTIES
    EventuallyDelivered
