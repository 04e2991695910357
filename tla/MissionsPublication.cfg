CONSTANTS
    NoMission = NoMission
    NoAttempt = NoAttempt
    Missions = {m1}
    Attempts = {a1, a2}
    Seats = {s1}
    Objectives = {o1}
    Faculties = {"world"}
    Mishaps = {"provider_failed", "invalid_schema"}
    AutomaticRetries = 1
    SchemaRepairs = 1
    SeatConcurrency = 1
    InstallationConcurrency = 2
    SeatQueue = 2
    InstallationQueue = 2
    MaxTimeline = 2
    MaxEpoch = 1
    MaxManualRetries = 0
    MaxFaults = 1
SPECIFICATION Spec
INVARIANTS
    TypeOK
    PublicationFollowsJournal
    OneResultPerMission
    OneLiveAttempt
    NoticeFollowsPublication
PROPERTIES
    EndedIsFinal
    ImplementsPublication
CHECK_DEADLOCK FALSE
