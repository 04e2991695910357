CONSTANTS
    Nothing = Nothing
    NoKey = NoKey
    Processes = {p1, p2}
    Timelines = {main, branch}
    Main = main
    Keys = {k1}
    MaxEvents = 3
    MaxFaults = 1
SPECIFICATION Spec
INVARIANTS
    TypeOK
    NothingRefused
    OneEventPerKey
    AnsweredIsDurable
    ReplayIsExact
    ArchiveIsWhole
PROPERTIES
    ImplementsEventLog
SYMMETRY Symmetric
VIEW View
