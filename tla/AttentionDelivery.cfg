CONSTANTS
    NoLease = NoLease
    NoEpisode = NoEpisode
    Episodes = {e1, e2}
    Leases = {l1, l2}
    LeaseLimit = 2
    MinimumRoom = 0
    MaxItems = 2
    MaxCursor = 1
    MaxFaults = 1
    Criticality = {FALSE}
SPECIFICATION Spec
INVARIANTS
    NothingShownEarly
    AtLeastOnce
    AcknowledgedWasShown
SYMMETRY Symmetric
CHECK_DEADLOCK FALSE
