CONSTANTS
    NoLease = NoLease
    NoEpisode = NoEpisode
    Episodes = {e1, e2}
    Leases = {l1, l2}
    LeaseLimit = 2
    MinimumRoom = 0
    MaxItems = 2
    MaxCursor = 1
    MaxFaults = 0
    Criticality = {TRUE, FALSE}
SPECIFICATION Spec
INVARIANTS
    NoStrandedCritical
SYMMETRY Symmetric
