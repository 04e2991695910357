CONSTANTS
    NoMission = NoMission
    NoAttempt = NoAttempt
    Missions = {m1, m2}
    Attempts = {a1, a2}
    Seats = {s1, s2}
    Objectives = {o1}
    Faculties = {"world"}
    Mishaps = {"provider_failed"}
    AutomaticRetries = 0
    SchemaRepairs = 0
    SeatConcurrency = 1
    InstallationConcurrency = 1
    SeatQueue = 2
    InstallationQueue = 2
    MaxTimeline = 1
    MaxEpoch = 1
    MaxManualRetries = 1
    MaxFaults = 0
SPECIFICATION Spec
PROPERTIES
    PinKeptWhileRunnable
SYMMETRY Symmetric
CHECK_DEADLOCK FALSE
