CONSTANTS
    Ops = {"observe", "respond", "move", "obliterate", "development", "end_turn"}
    DialogKinds = {"obliterate"}
    MaxRequests = 3
    MaxDialogs = 1
SPECIFICATION FairSpec
INVARIANTS
    TypeOK
    
PROPERTIES
    
    NothingStranded
    AnswerIsTaken
CHECK_DEADLOCK FALSE
