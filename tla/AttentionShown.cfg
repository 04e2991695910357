CONSTANTS
    NoLease = NoLease
    NoEpisode = NoEpisode
    Episodes = {e1, e2}
    Leases = {l1, l2}
    LeaseLimit = 2
    MinimumRoom = 1
    MaxItems = 2
    MaxCursor = 0
    MaxFaults = 0
    Criticality = {TRUE, FALSE}
SPECIFICATION FairSpec
INVARIANTS
    CursorTruthful

    
    
CHECK_DEADLOCK FALSE
