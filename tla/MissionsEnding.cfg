CONSTANTS
    NoMission = NoMission
    NoAttempt = NoAttempt
    Missions = {m1}
    Attempts = {a1}
    Seats = {s1}
    Objectives = {o1}
    Faculties = {"world"}
    Mishaps = {"provider_failed"}
    AutomaticRetries = 0
    SchemaRepairs = 0
    SeatConcurrency = 1
    InstallationConcurrency = 2
    SeatQueue = 2
    InstallationQueue = 2
    MaxTimeline = 2
    MaxEpoch = 2
    MaxManualRetries = 0
    MaxFaults = 1
SPECIFICATION FairSpec
PROPERTIES
    EveryMissionEnds
    CompletionDelivered
CHECK_DEADLOCK FALSE
