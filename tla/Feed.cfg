CONSTANTS
    Nothing = Nothing
    MaxObservationEvents = 2
    PageLimit = 1
    MaxPages = 2
    MaxAttempts = 2
    MaxEvents = 4
    MaxChanges = 1
    MaxFaults = 1
SPECIFICATION FairSpec
INVARIANTS
    TypeOK
    PublishedOnceInOrder
    LossAnnounced
    
    AcknowledgedIsCaptured
PROPERTIES
    EveryEventIsCommitted
CHECK_DEADLOCK FALSE
